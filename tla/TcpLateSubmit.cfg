SPECIFICATION Spec
CONSTANTS
    p1 = p1
    p2 = p2
    p3 = p3
    Probes = {p1}
    Linked = {p1}
    FingerPrint = {p1}
    MaxConcurrent = 1
    RetCap = 1
    Unread = 0
    Workers = 1
    QueueSize = 1
INVARIANT
    NoSubmitAfterClose
