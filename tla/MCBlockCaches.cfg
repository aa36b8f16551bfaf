SPECIFICATION FairSpec
CONSTANTS
    r1 = r1
    r2 = r2
    a1 = a1
    Requests = {r1, r2}
    Addresses = {a1}
    Measurers = {r1}
    Slots = 1
    ScanChunk = 1
    MaxScan = 2
    CacheCap = 1
    TTL = 1
    MaxTxs = 2
    MaxBlocks = 2
INVARIANTS
    TotalsCurrent
    IntervalCurrent
    SlotsConserved
PROPERTIES EveryRequestEnds
