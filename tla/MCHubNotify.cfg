SPECIFICATION FairSpec
CONSTANTS
    c1 = c1
    c2 = c2
    t1 = t1
    t2 = t2
    Clients = {c1}
    Txids = {}
    MaxClients = 1
    MaxWatched = 1
    SendBuffer = 1
    UnregisterCap = 1
    MaxBlocks = 3
    Arrivals = TRUE
    MaxPushes = 0
INVARIANTS
    NotifierNeverBlocks
    NoLostRequest
PROPERTIES
    LatestBlockTaken
    RequestServed
