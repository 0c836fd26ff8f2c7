SPECIFICATION FairSpec
CONSTANTS
    MaxAttempts = 3
    BackoffMs <- Waits
    KillGraceMs = 2
    KillWaitMs = 2
    ReadyTimeoutMs = 2
    HealthTimeoutMs = 2
    MalformedLimit = 1
    MayHang = FALSE
    MayNotStart = FALSE
    MayGarble = FALSE
PROPERTY EscalationEnds
