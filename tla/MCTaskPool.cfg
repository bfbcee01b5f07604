SPECIFICATION Spec
CONSTANTS
    m = m
    a = a
    b = b
    Tasks <- MCTasks
    Main = m
    Nobody = Nobody
    TICK_MASKED = {TRUE}
    CleanShare = 2
    CleanMost = 16
    MaxTears = 0
INVARIANTS PoolUsable
CHECK_DEADLOCK FALSE
