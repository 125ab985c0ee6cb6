SPECIFICATION Spec
CONSTANTS
    put = put
    ping = ping
    s1 = s1
    s2 = s2
    s3 = s3
    Ops = {put, ping}
    KeyedOps = {put}
    Idempotent = {ping}
    Servers = {s1, s2, s3}
    Seed = s1
    NoOp = NoOp
    NoServer = NoServer
    Views <- TwoViews
    Intelligence = "HASH_DISTRIBUTION_AWARE"
    ProxyToNonOwner = TRUE
    MaxAttempts = 2
    MaxFailures = 1
INVARIANT TypeOK
INVARIANT PoolWithinTopology
INVARIANT AppliedAtMostOnce
INVARIANT ReplayIsSafe
PROPERTY RoutingRespectsOwners
PROPERTY OwnersExhaustedIsTrue
CHECK_DEADLOCK FALSE
