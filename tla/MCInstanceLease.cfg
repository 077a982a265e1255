SPECIFICATION LeaseSpec
CONSTANTS
    Daemons = {1, 2, 3}
    MaxStarts = 3
    MarkerTells = TRUE
INVARIANTS
    SingleInstance
CHECK_DEADLOCK FALSE
