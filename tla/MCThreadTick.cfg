SPECIFICATION TFairSpec
CONSTANTS
    m = m
    a = a
    b = b
    Tasks <- MCTasks
    Main = m
    Sleepers <- MCTasks
    StartOrder <- MCOrder
    Prio <- MCPrio
    Delays = {0, 1}
    WheelSpan = 2
    COUNT_TICKS = FALSE
    RUN_TIMER = FALSE
    Slice = 4
    EarlySwitches = 3
INVARIANTS HandlerFindsTask
PROPERTIES TurnOrEnd
CHECK_DEADLOCK FALSE
