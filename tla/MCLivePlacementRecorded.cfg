SPECIFICATION Spec
CONSTANTS
    Placers = {p1, p2}
    Envelopes <- SideBySide
    a1 = a1
    a2 = a2
    b1 = b1
    none = none
    NoAuthorization = none
    MaxQuantity = 2
    MaxRecords = 2
    MaxTime = 0
INVARIANTS
    SubmissionsRecorded
CHECK_DEADLOCK FALSE
