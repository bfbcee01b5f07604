SPECIFICATION Spec
CONSTANTS
    t1 = t1
    t2 = t2
    Timers = {t1}
    TVR_SIZE = 4
    TVN_SIZE = 2
    Granularity = 2
    Word = 256
    Starts = {0, 7, 30}
    Dues <- MCDues
    CallbackDues = {1, 9}
    Periods = {0, 6, 20}
    Steps = {2, 5}
    EndOfTime = 150
    WRAPS = FALSE
INVARIANTS TypeOK
PROPERTIES ImplementsTimers EarlyByWholeLaps NoneOverdue
CHECK_DEADLOCK FALSE
