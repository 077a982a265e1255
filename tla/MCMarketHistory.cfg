SPECIFICATION MCSpec
CONSTANTS
    Opening = 5
    LastCandle = 7
    Listings = {1, 5}
    Month = 2
    Page = 1
    PagesPerStream = 2
    ArchivesPerStream = 2
    RequiredCandles = 2
    MaxCrashes = 2
    Callers = {c1, c2}
    Requests <- MCRequests
    Limit <- MCLimit
    Reported = {2}
    Warning = 80
    Throttle = 85
    HardStop = 90
    Transient = 1
    RetryAfters = {0}
    LimitedDefault = 2
    BannedDefault = 3
    LimitedMinimum = 1
    BannedMinimum = 2
    MaxTime = 3
    MaxCalls = 3
INVARIANTS
    HistoryTypeOK
    ManifestTrue
    OnlyClosedStored
    LiveDatasetWhole
    AllowancePerWindow
    ClearOfBans
PROPERTIES
    ProgressCovered
    CutsNewestOnly
    CorruptNeverReset
    TailCatchesUp
CHECK_DEADLOCK FALSE
