SPECIFICATION HFairSpec
CONSTANTS
    m = m
    a = a
    b = b
    Tasks <- MCTasks
    Main = m
    Sleepers <- MCSleepers
    StartOrder <- MCOrder
    Prio <- MCPrio
    Delays = {0, 2, 3}
    WheelSpan = 2
    SleptCap = 4
    COUNT_TICKS = TRUE
    RUN_TIMER = TRUE
INVARIANTS TypeOK OnePlace NothingSurvives NeverPanics NeverHangs SleptEnough
PROPERTIES SleepEnds ImplementsFairRoundRobin NoSecondTurn FullSlice
CHECK_DEADLOCK FALSE
