SPECIFICATION LiveSpec
CONSTANTS
    NumConns = 2
    QueueDepth = 2
    SndQueueDepth = 1
    FcMethod = "LOSS"
    MaxPkt = 3
CHECK_DEADLOCK FALSE
INVARIANTS
    BuffersAccounted
    CountersExact
    ActiveHasBuffer
    WaiterHoldsBuffer
    MinimumBandwidth
PROPERTIES
    SenderReturns
