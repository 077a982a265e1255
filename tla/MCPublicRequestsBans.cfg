CONSTANTS
    Callers = {c1, c2}
    Requests <- MCRequests
    Limit <- MCLimit
    Reported = {2}
    Warning = 80
    Throttle = 85
    HardStop = 90
    Transient = 1
    RetryAfters = {0}
    LimitedDefault = 2
    BannedDefault = 3
    LimitedMinimum = 1
    BannedMinimum = 2
    MaxTime = 3
    MaxCalls = 4
SYMMETRY Symmetry
SPECIFICATION RequestsSpec
CHECK_DEADLOCK FALSE
INVARIANT BansFailClosed
