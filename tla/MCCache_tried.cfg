SPECIFICATION Spec
CONSTANTS
    s1 = s1
    s2 = s2
    s3 = s3
    put = put
    ping = ping
    Ops = {put}
    KeyedOps = {put}
    Idempotent = {put}
    Servers = {s1, s2}
    Seed = s1
    NoOp = NoOp
    NoServer = NoServer
    Views <- OneView
    Intelligence = "HASH_DISTRIBUTION_AWARE"
    ProxyToNonOwner = TRUE
    MaxAttempts = 3
    MaxFailures = 2
INVARIANT TriedNodesUnion
CHECK_DEADLOCK FALSE
