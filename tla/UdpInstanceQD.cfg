SPECIFICATION Spec
CONSTANTS
    Senders = {s1}
    MaxIc = 2
    MaxPkt = 3
    LaterPkt = 1
    QueueDepth = 2
    Role = "QD"
    CacheFuture = TRUE
    PruneLimit = 0
    MaxXact = 1
CHECK_DEADLOCK FALSE
INVARIANTS
    WindowKept
    OnlyThePastIsStopped
