SPECIFICATION FairSpec
CONSTANTS
    c1 = c1
    c2 = c2
    Callers = {c1, c2}
    Strandable = {c1}
    Calls = {"stats", "pending"}
    MinAge = 1
    MaxAge = 2
    FetchStuck = 3
    MaxVersion = 1
    MaxGen = 1
INVARIANTS
    QueueMatchesEntries
    ReadsFindSnapshot
    CleanMeansCaughtUp
PROPERTIES
    FirstOverlapIsAllowed
    EventuallyCurrent
