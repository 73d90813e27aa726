SPECIFICATION LiveSpec
CONSTANTS
    Pkts = {p1, p2}
    SlotsNum = 3
    TimerSpan = 2
    Periods = {1, 3}
    CheckPeriod = 0
    MaxTime = 16
CHECK_DEADLOCK FALSE
INVARIANTS
    SlotIsDeadline
    PutOffByATurn
    SentTwiceAtMost
PROPERTIES
    CheckEnds
