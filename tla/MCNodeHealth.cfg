SPECIFICATION FairSpec
CONSTANTS
    w1 = w1
    w2 = w2
    Workers = {w1, w2}
    Strandable = {w1}
    MaxVersion = 2
    CheckEvery = 1
    CheckStuck = 2
    MaxStale = 2
    FirstSynced = 1
INVARIANTS
    GateWaits
PROPERTIES
    MuteIsReported
    HealthRecovers
