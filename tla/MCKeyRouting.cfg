SPECIFICATION RoutingSpec
CONSTANTS
    a = a
    b = b
    c = c
    Address <- Nodes
    HashSpace = 64
    Keys = {3, 40}
    MaxSegments = 12
    Updates <- SmallUpdates
INVARIANT OwnersAsSent
INVARIANT NoPartialTable
INVARIANT SegmentNearReference
INVARIANT CandidatesAreOrdered
INVARIANT NoServerTriedTwice
CHECK_DEADLOCK FALSE
