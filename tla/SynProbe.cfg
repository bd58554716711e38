SPECIFICATION Spec
CONSTANTS
    p1 = p1
    p2 = p2
    p3 = p3
    t1 = t1
    t2 = t2
    NoProbe = NoProbe
    Probes = {p1, p2}
    Targets = {t1}
    Target <- MCOneTarget
    NumPorts = 2
    Linked = {p1}
    FingerPrint = {p2}
    SampleEvery = 0
    RetryCap = 2
    RetCap = 1
    Unread = 0
    Workers = 1
    QueueSize = 1
VIEW LiveState
INVARIANTS
    WgCountsOpenPorts
    ChannelsOutliveSenders
    WaitCoversOpenPorts
