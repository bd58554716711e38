SPECIFICATION NoWaitSpec
CONSTANTS
    p1 = p1
    p2 = p2
    p3 = p3
    t1 = t1
    t2 = t2
    NoProbe = NoProbe
    Probes = {p1, p2}
    Targets = {t1}
    Target <- MCOneTarget
    NumPorts = 1
    Linked = {}
    FingerPrint = {}
    SampleEvery = 1
    RetryCap = 2
    RetCap = 1
    Unread = 0
    Workers = 1
    QueueSize = 1
SYMMETRY Symmetry
VIEW LiveState
INVARIANTS
    TypeOK
    AtMostOneEvent
    OneHolder
PROPERTIES
    ImplementsContract
    RearmedOnce
