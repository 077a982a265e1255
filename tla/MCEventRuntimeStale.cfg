CONSTANTS
    p1 = p1
    p2 = p2
    e1 = e1
    e2 = e2
    Writers = {p1, p2}
    EventIds = {e1, e2}
    Times = {1}
    Capacity = 2
    HasChangeToken = TRUE
    Consumers = {1}
    BusCapacity = 2
SPECIFICATION Spec
INVARIANT NoFalseCorruption
