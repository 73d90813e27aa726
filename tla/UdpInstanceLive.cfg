SPECIFICATION LiveSpec
CONSTANTS
    Senders = {s1}
    MaxIc = 2
    MaxPkt = 2
    LaterPkt = 2
    QueueDepth = 1
    Role = "QE"
    CacheFuture = FALSE
    PruneLimit = 0
    MaxXact = 0
CHECK_DEADLOCK FALSE
PROPERTIES
    SenderReleased
