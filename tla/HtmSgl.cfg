CONSTANTS
    N = 3
    Budget = 2
    MaxTx = 2
SPECIFICATION HtmFairSpec
INVARIANTS
    HtmTypeOK
    SglExclusive
    NoHtmUnderSgl
PROPERTY EveryTxCommits
CHECK_DEADLOCK FALSE
