SPECIFICATION Spec
CONSTANTS
    MaxJobs = 2
    Matches = {}
    MaxFlags = 1
    MaxLosses = 1
PROPERTY ScanReturns
CHECK_DEADLOCK FALSE
