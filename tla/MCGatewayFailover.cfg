SPECIFICATION FairSpec
CONSTANTS
    r1 = r1
    r2 = r2
    r3 = r3
    Requests <- MCTwoRequests
    NumProfiles = 2
    Enabled = {1, 2}
    MaxConc <- MCOneTwo
    QueueSize = 1
    QueueTimeout = 1
    RateLimitCooldown = 1
    FailureThreshold = 1
    CircuitCooldown = 2
    CursorPeriod = 2
    MaxAttempts = 2
    Streaming = {r1}
    Unbuildable = {}
INVARIANTS
    WaitsOnlyWhenFull
    SlotsReturned
    DistinctAttempts
PROPERTIES
    CooldownNeverShortened
    EveryRequestEnds
