SPECIFICATION PathSpec
CONSTANTS
    c1 = c1
    c2 = c2
    c3 = c3
    h1 = h1
    h2 = h2
    a1 = a1
    a2 = a2
    p1 = p1
    p2 = p2
    q1 = q1
    x1 = x1
    x2 = x2
    x3 = x3
    e1 = e1
    e2 = e2
    None = None
    Calls = {c1, c2, c3}
    Hosts = {h1, h2}
    Gap = 1
    TTL = 2
    MaxTime = 3
    NoAddress = NoAddress
    Resolvers = {c1, c2, c3}
    Addresses = {a1, a2}
    V6 = {a2}
    Evaluators = {e1, e2}
    MinRate = 10
    MaxRate = 21
    HealthyLimit = 3
    MinSamples = 1
    MaxRetries = 1
    MaxDrops = 1
    NoPorts = NoPorts
    Peers4 = {p1, p2}
    Peers6 = {q1}
    Ports = {x1, x2, x3}
    OurPorts = {x1, x2}
SYMMETRY Symmetry
INVARIANTS
    TypeOK
    SharedLimiter
    ActiveCountsWaiters
    Spaced
    MacTypeOK
    AnsweredIsKnown
    OneResolver
    RateTypeOK
    DropsCountedOnce
    LimitFollowsRate
    RecoversInSteps
    ResetInOwnFrame
PROPERTIES
    NoRaiseAfterError
    JudgedByOwnHeader
