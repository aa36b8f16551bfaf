SPECIFICATION ConnSpec
CONSTANTS
    c1 = c1
    c2 = c2
    t1 = t1
    t2 = t2
    Clients = {c1, c2}
    Txids = {t1}
    MaxClients = 1
    MaxWatched = 1
    SendBuffer = 1
    UnregisterCap = 1
    MaxBlocks = 0
    Arrivals = FALSE
    MaxPushes = 0
INVARIANTS
    WatchIndex
    NoZombie
PROPERTIES
    ClosedIsForgotten
