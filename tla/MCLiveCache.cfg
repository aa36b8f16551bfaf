SPECIFICATION FairSpec
CONSTANTS
    w1 = w1
    w2 = w2
    Workers = {w1, w2}
    Strandable = {w1}
    FeedCount = 2
    RefreshEvery = 2
    RefreshStuck = 3
    MaxVersion = 2
PROPERTIES
    FeedsMonotone
    FirstOverlapIsStuck
    EventuallyCurrent
