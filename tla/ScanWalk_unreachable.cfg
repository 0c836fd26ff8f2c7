CONSTANTS
    NFiles = 3
    Capacity = 1
    HashBatch = 1
    MayCancel = FALSE
    MayPause = FALSE
    MayThrow = FALSE
    MayFail = FALSE
    MayEnumError = TRUE
SPECIFICATION WalkSpec
INVARIANTS KeepsExisting
