SPECIFICATION Spec
CONSTANTS
    Xacts = {x1, x2, x3}
    Nested = {x1}
    Tids = {t1, t2}
    MaxSerial = 2
    MaxCrash = 2
    MaxCheckpoint = 1
SYMMETRY Symmetry
CHECK_DEADLOCK FALSE
INVARIANTS
    LiveKeepsFile
    NothingLeftOver
    AlwaysAsExpected
