CHECK_DEADLOCK FALSE
SPECIFICATION MCSpec
CONSTANTS
    k1 = k1
    k2 = k2
    Clients = {k1, k2}
    Routes <- AllRoutes
    RouteCost <- Costs
    Burst = 8
    Rate = 3
    SweepEvery = 2
    MaxWindow = 3
    t1 = t1
    t2 = t2
    t3 = t3
    Txs = {t1, t2, t3}
    Depths = {1, 2}
    ArrivalsCap = 2
    ArrivalMaxAge = 1
    InflowBuckets = 2
    PeakWidth = 2
    PeakBuckets = 2
    Start = 3
    MaxStep = 1
    MaxTime = 4
    MaxNotes = 4
    MaxUpdates = 3
SYMMETRY TxPerms
INVARIANTS
    GrantBound
    InflowExact
    FeedIsNewest
    PeakIsRecent
PROPERTIES
    ImplementsTokenBuckets
