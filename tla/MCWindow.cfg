SPECIFICATION WindowSpec
CONSTANTS
    MaxAttempts = 3
    BackoffMs <- Waits
    KillGraceMs = 2
    KillWaitMs = 2
    ReadyTimeoutMs = 2
    HealthTimeoutMs = 2
    MalformedLimit = 1
    MayHang = TRUE
    MayNotStart = TRUE
    MayGarble = TRUE
    artA = artA
    artB = artB
    ThumbPaths = {artA, artB}
    PendingCap = 1
    CacheMax = 1
    MemMax = 1
    MaxEdits = 1
    MaxScans = 1
    MaxDeaths = 1
    MaxFails = 1
    PathSeq <- Listed
    VideoPaths = {"v1", "v2"}
    StreamMatches <- Streamed
    FillMin = 0
    AppendMin = 0
    FillChunk = 1
    MaxStreams = 3
    MaxViewScans = 2
    MaxDeletes = 1
INVARIANTS WindowTypeOK Custody NeverAlone RequestsTracked ListsTrue
PROPERTIES BackendReturns ThumbsHeal FillEnds
CHECK_DEADLOCK FALSE
