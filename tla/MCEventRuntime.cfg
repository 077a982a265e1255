CONSTANTS
    p1 = p1
    p2 = p2
    Writers = {p1, p2}
    EventIds = {1, 2, 3}
    Times = {1}
    Capacity = 3
    HasChangeToken = TRUE
    Consumers = {1}
    BusCapacity = 3
SPECIFICATION RestartSpec
INVARIANTS
    BusIsJournaled
    HandledInOrder
    OneInDoubt
PROPERTIES
    IsDurableTopic
    CallsReturn
    PendingDelivered
