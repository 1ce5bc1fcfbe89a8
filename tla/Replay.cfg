CONSTANTS
    N = 2
    LogSize = 8
    MinSpace = 7
    FetchAhead = 1
    Addrs = {1, 2}
    Bodies <- MCMixed
    MaxTx = 3
    MaxN = 15
SPECIFICATION ReplayFairSpec
INVARIANTS
    ReplayTypeOK
    PicksOldestSeen
    WordsKept
    HeapWhole
    SafeToQuit
PROPERTY Drains
