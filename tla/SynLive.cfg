SPECIFICATION NoWaitFairSpec
CONSTANTS
    p1 = p1
    p2 = p2
    p3 = p3
    t1 = t1
    t2 = t2
    NoProbe = NoProbe
    Probes = {p1}
    Targets = {t1}
    Target <- MCOneTarget
    NumPorts = 2
    Linked = {p1}
    FingerPrint = {p1}
    SampleEvery = 1
    RetryCap = 1
    RetCap = 1
    Unread = 1
    Workers = 1
    QueueSize = 1
INVARIANT
    QueuedRetryNotTimedOut
PROPERTIES
    ImplementsContract
    EventuallyReported
    CloseTerminates
