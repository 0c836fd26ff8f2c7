SPECIFICATION Spec
CONSTANTS
    NFiles = 4
    Videos = {3, 4}
    MaxVer = 2
    Look <- Diverging
    GpuBatch = 2
    Workers = 2
    SliceFiles = 1
    MaxScans = 3
    MaxKills = 1
    Settings <- ThreeSettings
INVARIANTS TypeOK BaselineHolds FrontierHolds Durability VerdictsHold
PROPERTY PairsKept
