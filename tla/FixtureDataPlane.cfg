SPECIFICATION Spec
CONSTANTS
    c1 = c1
    c2 = c2
    d1 = d1
    d2 = d2
    k1 = k1
    k2 = k2
    r1 = r1
    r2 = r2
    s1 = s1
    NoEntry = NoEntry
    NoValue = NoValue
    Seeds = {s1}
    InitialSeed = s1
    Keys = {k1, k2}
    Requests = {r1, r2}
    Callers = {c1, c2}
    Deliveries = {}
    Plans <- DataPlanePlans
    GateLimit = 2
    CommandLimit = 3
SYMMETRY DataPlaneSymmetry
INVARIANTS
    ReplayIsExact
    SucceededIffEvent
PROPERTIES
    ProviderMonotone
CHECK_DEADLOCK FALSE
