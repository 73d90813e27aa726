SPECIFICATION LiveSpec
CONSTANTS
    QueueDepth = 2
    SndQueueDepth = 3
    FcMethod = "CAPACITY"
    MaxLostSeqs = 4
    MaxSeq = 3
    Lossy = TRUE
    NetCap = 1
CHECK_DEADLOCK FALSE
INVARIANTS
    NoOverrun
    NoStall
PROPERTIES
    StreamSpec
    StreamCompletes
    StopHonoured
