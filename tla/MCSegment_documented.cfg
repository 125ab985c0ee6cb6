SPECIFICATION RoutingSpec
CONSTANTS
    a = a
    b = b
    c = c
    Address <- Nodes
    HashSpace = 32
    Keys = {3}
    MaxSegments = 5
    Updates <- SmallUpdates
INVARIANT SegmentAsDocumented
CHECK_DEADLOCK FALSE
