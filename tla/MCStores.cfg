CONSTANTS
    Writers = {w1, w2}
    EventIds = {e1, e2, e3}
    Times = {1, 2}
    Capacity = 3
    HasChangeToken = TRUE
    Authorizations = {a1, a2}
    NoAuthorization = NoAuthorization
    MaxQuantity = 3
    Leases = {l1, l2}
    Executions = {x1, x2}
    NoExecution = NoExecution
    Users = {u1, u2}
    Ttl = 1
    MaxInstant = 2
    c1 = c1
    c2 = c2
    c3 = c3
    d1 = d1
    d2 = d2
    t1 = t1
    t2 = t2
    Callers = {c1, c2, c3}
    Gateways = {1, 2}
    GatewayOf <- MCGatewayOf
    Reviewers = {q1, q2}
    Platforms = {"X"}
    Drafts = {d1, d2}
    Contents = {t1, t2}
    Interval = 1
    MaximumAge = 1
    AuditLimit = 3
    MaxClock = 2
SPECIFICATION MCSpec
SYMMETRY Symmetry
CHECK_DEADLOCK FALSE
INVARIANTS
    ChainIntact
    ApprovedBeforeSubmission
    LeaseUsedOnce
    AtMostOnePost
    ApprovedContentSent
    OneOutcomePerPost
    GatewayKeepsInterval
PROPERTIES
    AppendOnly
    FillsKept
