SPECIFICATION Spec
CONSTANTS
    MaxJobs = 2
    Matches = {1}
    MaxFlags = 1
    MaxLosses = 1
INVARIANTS TypeOK NothingLost Agreed IndexHeld PauseReaches
CHECK_DEADLOCK FALSE
