SPECIFICATION Spec
CONSTANTS
    Requests = {r1, r2}
    NoReq = NoReq
    MaxTopology = 1
    MaxSessions = 1
    MaxInbox = 1
    Aware = FALSE
    SigPipeIgnored = FALSE
    Faults = {"partialWrite", "duplicate", "wrongOp"}
SYMMETRY Symmetry
INVARIANT TypeOK
INVARIANT PhaseIsHonest
PROPERTY ResolvedOnce
PROPERTY ImplementsFutures
CHECK_DEADLOCK FALSE
