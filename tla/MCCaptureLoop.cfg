SPECIFICATION FairPartSpec
CONSTANTS
    Packets = {p1, p2}
    Nobody = Nobody
    MaxPieces = 2
    MaxErrors = 1
    PrunePeriod = 1
    MaxNow = 3
    Keys = {k1, k2, k3}
    Capacity = 2
    Ttl = 1
    MaxTime = 4
    MaxTouches = 5
    ClockStepsBack = TRUE
CHECK_DEADLOCK FALSE
INVARIANTS
    NoSilentLoss
    PacketsBalance
    StopTakesOnePacket
    TypeOK
    SizeWithinCapacity
    EntriesAccounted
PROPERTIES
    BrokenHandleGivesUp
    PrunedOnTraffic
    LivesUntilOldest
    ImplementsCache
    SilentFlowsLeave
