SPECIFICATION Spec
CONSTANTS
    Rels = {r1, r2}
    MaxXid = 2
    MaxLevel = 2
    SubXids = {1}
    MaxStmt = 3
    MaxSegno = 4
    MaxAppendOnlyTables = 1
    Ids = {i1, i2}
    SegmentNums = {1, 2, 3}
    InitSegnos = {1}
    InitGarbage = {}
    LargeSegnos = {1}
    HdfsFails = TRUE
SYMMETRY RelSymmetry
CHECK_DEADLOCK FALSE
INVARIANTS
    GivenOnce
    UsersCounted
    UnseenWriterAvoided
    PendingIsTruncated
PROPERTIES
    NeverAppendsToGarbage
