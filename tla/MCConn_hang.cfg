SPECIFICATION FairSpec
CONSTANTS
    Requests = {r1, r2}
    NoReq = NoReq
    MaxTopology = 1
    MaxSessions = 1
    MaxInbox = 0
    Aware = FALSE
    SigPipeIgnored = TRUE
    Faults = {}
PROPERTY FutureResolves
CHECK_DEADLOCK FALSE
