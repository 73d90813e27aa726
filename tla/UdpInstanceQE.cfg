SPECIFICATION Spec
CONSTANTS
    Senders = {s1, s2}
    MaxIc = 2
    MaxPkt = 1
    LaterPkt = 1
    QueueDepth = 1
    Role = "QE"
    CacheFuture = TRUE
    PruneLimit = 0
    MaxXact = 0
CHECK_DEADLOCK FALSE
INVARIANTS
    PoolAccounting
    NeverOutOfBuffers
    NeverAckFuture
    OnlyThePastIsStopped
