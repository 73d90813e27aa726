SPECIFICATION Spec
CONSTANTS
    Rels = {r1, r2}
    MaxXid = 2
    MaxLevel = 1
    SubXids = {}
    MaxStmt = 3
    MaxSegno = 4
    MaxAppendOnlyTables = 2
    Ids = {i1, i2, i3, i4}
    SegmentNums = {1, 2}
    InitSegnos = {1, 2}
    InitGarbage = {2}
    LargeSegnos = {}
    HdfsFails = FALSE
SYMMETRY RelSymmetry
CHECK_DEADLOCK FALSE
INVARIANTS
    ZeroIsSafe
