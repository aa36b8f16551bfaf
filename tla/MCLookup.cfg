SPECIFICATION MCSpec
CONSTANTS
    Txs <- MCTxs
    Inputs <- MCInputs
    Blocks <- MCBlocks
    BlockTxs <- MCBlockTxs
    Genesis = "b0"
    LooksMined = {"b2", "t"}
    Queries <- MCQueries
    Requests = {"r1"}
    Limit = 2
    CacheCap = 1
    MaxEvents = 6
    BandMins <- MCBandMins
    VBytesPerBlock = 3
    Floors <- MCFloors
    Calls <- MCCalls
INVARIANTS
    AnswerWasTrue
    ParentOnce
    CardsAgree
    PagesCover
    HalvingsAgree
    LineAgrees
    TiersCover
