SPECIFICATION FairSpec
CONSTANTS
    Ops = {o1, o2}
    Conns = {c0, c1, c2}
    Seed = c0
    s1 = s1
    s2 = s2
    Servers = {s1, s2}
    SeedServer = s1
    Owner = Owner
    Nobody = Nobody
    NoConn = NoConn
    NoServer = NoServer
    View <- Views
    MaxDrops = 1
INVARIANT EvictionSparesRequests
INVARIANT NoThreadWithoutObject
INVARIANT AppliedTopologyIsKnown
INVARIANT NoUpdateDuringTeardown
PROPERTY MutexReleasedIfKept
PROPERTY TeardownEnds
CHECK_DEADLOCK FALSE
