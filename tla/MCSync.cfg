SPECIFICATION FairSpec
CONSTANTS
    a = a
    b = b
    c = c
    Tasks <- MCTasks
    First = a
    Others <- MCOthers
    Nobody = Nobody
    MaxDepth = 2
    TICK_MASKED = {TRUE, FALSE}
    MaxTears = 1
INVARIANTS TypeOK ExcludesUnlessSplit HolderMatches UncontendedMasked AssertionsHold WaitersBlocked
PROPERTIES NoLostWakeUp ReadyRunsUser
CHECK_DEADLOCK FALSE
