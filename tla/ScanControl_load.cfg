SPECIFICATION Spec
CONSTANTS
    MaxJobs = 2
    Matches = {}
    MaxFlags = 1
    MaxLosses = 1
PROPERTIES LoadAnswered
CHECK_DEADLOCK FALSE
