SPECIFICATION SentThenWaitSpec
CONSTANTS
    p1 = p1
    p2 = p2
    p3 = p3
    t1 = t1
    t2 = t2
    NoProbe = NoProbe
    Probes = {p1}
    Targets = {t1}
    Target <- MCOneTarget
    NumPorts = 2
    Linked = {}
    FingerPrint = {}
    SampleEvery = 0
    RetryCap = 2
    RetCap = 1
    Unread = 0
    Workers = 1
    QueueSize = 1
INVARIANT
    WaitReportsPending
