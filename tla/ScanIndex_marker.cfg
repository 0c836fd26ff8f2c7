SPECIFICATION Spec
CONSTANTS
    NFiles = 2
    Videos = {}
    MaxVer = 2
    Look <- Diverging
    GpuBatch = 2
    Workers = 1
    SliceFiles = 1
    MaxScans = 3
    MaxKills = 1
    Settings <- Restarts
INVARIANT BaselineSound
