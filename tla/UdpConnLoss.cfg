SPECIFICATION LiveSpec
CONSTANTS
    QueueDepth = 2
    SndQueueDepth = 2
    FcMethod = "LOSS"
    MaxLostSeqs = 1
    MaxSeq = 3
    Lossy = TRUE
    NetCap = 2
CHECK_DEADLOCK FALSE
INVARIANTS
    RingFaithful
    InOrderDelivery
    AckSoundness
    DoneMeansAccepted
PROPERTIES
    StreamCompletes
