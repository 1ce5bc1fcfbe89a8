CONSTANTS
    N = 2
    Budget = 1
    MaxTx = 1
    MaxClock = 10
    Sizes = {0, 1, 2}
    PageIns = TRUE
SPECIFICATION PcwmFairSpec
PROPERTY EveryCommitReturns
