SPECIFICATION FairSpec
CONSTANTS
    w1 = w1
    w2 = w2
    Workers = {w1, w2}
    Strandable = {w1}
    FeedCount = 1
    RefreshEvery = 1
    RefreshStuck = 2
    MaxVersion = 1
PROPERTIES
    StatsReachClient
    QueueFallsBack
