SPECIFICATION FairSpec
CONSTANTS
    Requests = {r1, r2}
    NoReq = NoReq
    MaxTopology = 2
    MaxSessions = 2
    MaxInbox = 0
    Aware = TRUE
    SigPipeIgnored = TRUE
    Faults = {}
INVARIANT OwnAnswer
INVARIANT NoForgottenRequest
INVARIANT NoOrphan
INVARIANT StreamInSync
INVARIANT TopologyReported
INVARIANT IInv
PROPERTY CloseReturns
PROPERTY CloseResolves
PROPERTY AnsweredWhileUp
CHECK_DEADLOCK FALSE
