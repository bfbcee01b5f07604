SPECIFICATION FairSpec
CONSTANTS
    m = m
    a = a
    b = b
    Tasks <- MCTasks
    Main = m
    Nobody = Nobody
    TICK_MASKED = {TRUE, FALSE}
    CleanShare = 2
    CleanMost = 16
    MaxTears = 1
INVARIANTS TypeOK OnePlace NeverStuck PoolIsLeaving ListsAgree
PROPERTIES StartedRuns ExitEnds
CHECK_DEADLOCK FALSE
