SPECIFICATION FairSpec
CONSTANTS
    p1 = p1
    p2 = p2
    p3 = p3
    Probes = {p1, p2}
    Linked = {p1}
    FingerPrint = {p2}
    MaxConcurrent = 1
    RetCap = 1
    Unread = 1
    Workers = 1
    QueueSize = 1
PROPERTIES
    EventuallyReported
    CloseTerminates
