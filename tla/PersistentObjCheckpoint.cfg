SPECIFICATION Spec
CONSTANTS
    Xacts = {x1, x2}
    Nested = {}
    Tids = {t1}
    MaxSerial = 1
    MaxCrash = 1
    MaxCheckpoint = 1
CHECK_DEADLOCK FALSE
INVARIANTS
    SynchronizedByRecovery
