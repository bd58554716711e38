SPECIFICATION Spec
CONSTANTS
    p1 = p1
    p2 = p2
    p3 = p3
    Probes = {p1, p2, p3}
    Linked = {p1}
    FingerPrint = {p2, p3}
    MaxConcurrent = 2
    RetCap = 1
    Unread = 0
    Workers = 1
    QueueSize = 1
INVARIANTS
    TypeOK
    PlacesAccounted
    WaitCoversAccepted
    NoSubmitAfterClose
PROPERTY
    ImplementsContract
SYMMETRY
    Symmetry
