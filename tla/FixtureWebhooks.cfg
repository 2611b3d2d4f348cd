SPECIFICATION FairSpec
CONSTANTS
    c1 = c1
    c2 = c2
    d1 = d1
    d2 = d2
    k1 = k1
    k2 = k2
    r1 = r1
    r2 = r2
    s1 = s1
    NoEntry = NoEntry
    NoValue = NoValue
    Seeds = {s1}
    InitialSeed = s1
    Keys = {k1}
    Requests = {r1}
    Callers = {c1}
    Deliveries = {d1, d2}
    Plans <- WebhookPlans
    GateLimit = 3
    CommandLimit = 4
INVARIANTS
    NoOrphanWaiter
    GateHasOneOwner
    ForwardedNeverPersists
PROPERTIES
    ForwardedLeavesByCommand
    RequestDeliverySettles
CHECK_DEADLOCK FALSE
