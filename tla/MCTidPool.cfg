SPECIFICATION Spec
CONSTANTS
    a = a
    b = b
    c = c
    d = d
    e = e
    Tasks <- MCTasks
    Nobody = Nobody
    NBytes = 2
    ByteBits = 2
    TidHalf = 5
SYMMETRY MCSymmetry
INVARIANTS TidsDistinct BitsMatch ScanFindsRun
CHECK_DEADLOCK FALSE
