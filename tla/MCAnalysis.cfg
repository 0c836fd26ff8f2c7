SPECIFICATION AnalysisSpec
CONSTANTS
    Parts = 2
    Bits = 2
    Radius = 1
    Limit = 3
    MaxEntries = 3
    MaxFiles = 2
    NFiles = 3
    VideoSets <- LastVideos
    AWorkers = {w1, w2}
    SliceGroups = 2
    PendingMax = 2
    x = x
    y = y
    w1 = w1
    w2 = w2
    m1 = m1
    m2 = m2
    Videos = {x, y}
    VWorkers = {w1, w2}
    Policies = {"p", "q"}
    MaxVideoVersion = 2
    MemoryCap = 1
    Asks <- AskedBy
    Rewritten = {x}
    Length = 5
    Lag = 2
    Slack = 1
    PlanSets <- Plans
    Images = {m1, m2}
    Verifiers = {v1, v2}
    VerifyMax = 2
    MaxEdition = 2
    ImagePairs <- VerifiedPairs
INVARIANTS AnalysisTypeOK PairsExact CachesTrue SweepTrue
CHECK_DEADLOCK FALSE
