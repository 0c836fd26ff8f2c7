SPECIFICATION RecordsSpec
CONSTANTS
    Runs = {r1, r2}
    NCases = 2
    CaseModes <- TwoModes
    MaxCrashes = 1
    MaxRecoveries = 1
    Roots = {r, s}
    StaleDays = 1
    MaxDays = 1
    MaxSuffix = 1
    MaxDirs = 2
    MaxKills = 1
    MaxMoves = 1
    Folders = {"A", "B"}
    FilesOf <- InFolder
    TestScopes = {{}, {"a3"}}
    MaxVersion = 2
    MaxIndexScans = 2
    MaxIndexLoads = 1
    MaxScans = 2
    JournalRuns <- Journaled
    MaxRuns = 2
    NoTime = NoTime
    Engines = {e1, e2}
    Gpus = {g1}
    NoGpu = NoGpu
    Levels = {1, 2}
    NoRate = NoRate
    NoFile = NoFile
    MaxAge = 0
    Repetitions = 2
    MaxProfileDays = 1
    MaxSwaps = 2
INVARIANTS RecordsTypeOK JournalTrue YoungIndexKept ReportSound ProfileTrue
PROPERTIES AdoptionTrue RecordTrue
SYMMETRY Interchangeable
CHECK_DEADLOCK FALSE
