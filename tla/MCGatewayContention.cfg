SPECIFICATION Spec
CONSTANTS
    r1 = r1
    r2 = r2
    r3 = r3
    Requests <- MCThreeRequests
    NumProfiles = 1
    Enabled = {1}
    MaxConc <- MCSingle
    QueueSize = 1
    QueueTimeout = 2
    RateLimitCooldown = 1
    FailureThreshold = 2
    CircuitCooldown = 2
    CursorPeriod = 1
    MaxAttempts = 2
    Streaming = {r2, r3}
    Unbuildable = {r1}
SYMMETRY MCSymmetry
INVARIANTS
    LimitsRespected
    NoLostWakeup
    StatisticsBalance
    OneResponse
PROPERTIES
    ImplementsPool
