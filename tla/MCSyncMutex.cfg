SPECIFICATION Spec
CONSTANTS
    a = a
    b = b
    c = c
    Tasks <- MCTasks
    First = a
    Others <- MCOthers
    Nobody = Nobody
    MaxDepth = 2
    TICK_MASKED = {TRUE}
    MaxTears = 1
INVARIANTS MutualExclusion
CHECK_DEADLOCK FALSE
