SPECIFICATION FairSpec
CONSTANTS
    t1 = t1
    t2 = t2
    Txs = {t1, t2}
    MaxChecks = 1
    MaxWire = 1
INVARIANTS
    WatchesAgree
PROPERTIES
    WatchFlips
