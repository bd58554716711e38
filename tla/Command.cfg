SPECIFICATION ScanSpec
CONSTANTS
    LastPort = 7
    TopTcpPorts <- SmallTop
    Block = 2
    MaxRanges = 2
    t1 = t1
    t2 = t2
    ip1 = ip1
    ip2 = ip2
    Targets = {t1, t2}
    PingPool = 1
    CommandLines <- FiveLines
    MaxConcurrent = 1
    MaxOpenPort = 1
    RetCap = 1
    Followed <- SmallPlans
INVARIANTS
    PlanComplete
    ScanTypeOK
    QuietWhenClosed
    EndsComplete
PROPERTIES
    EndsUnlessLastTwice
    ScanEnds
    StopsSoon
