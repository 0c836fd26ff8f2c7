SPECIFICATION ThreadsSpec
CONSTANTS
    NFiles = 4
    Capacity = 2
    HashBatch = 2
    MayCancel = TRUE
    MayPause = TRUE
    MayThrow = TRUE
    MayFail = TRUE
    MayEnumError = TRUE
    RangeFiles = 2
    BatchFiles = 2
    MaxUnits = 3
    Modes = {"calm", "gaming"}
    HoldTime <- Holds
    KillAt <- Kill
    RelieveAbove <- Relieved
    Window = 2
    EvalEvery = 1
    MaxLevel = 3
    f = f
    g = g
    MonPaths = {f, g}
    CompareFiles = {f, g}
    MaxRetries = 1
    MaxChanges = 2
    MaxOverflows = 1
    MaxTimeouts = 1
    MaxPauses = 1
    MaxStops = 1
INVARIANTS ThreadsTypeOK NoFileLost IndexFollowsDisk
PROPERTIES QueueSpec ScanWalkEnds WatchdogTrue SwitchesHoldStill FollowsLoad EveryItemSettles
CHECK_DEADLOCK FALSE
