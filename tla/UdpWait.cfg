SPECIFICATION LiveSpec
CONSTANTS
    Nodes = {m1, m2}
    Merging = {m2}
    NumRoutes = 2
    MaxPkt = 2
    QueueDepth = 2
    MaxQuery = 2
CHECK_DEADLOCK FALSE
INVARIANTS
    NoLostWakeup
    ReachedIsReady
    BufferToRelease
    BoundedOvertaking
PROPERTIES
    EveryStreamEnds
