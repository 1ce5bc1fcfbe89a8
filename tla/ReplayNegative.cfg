CONSTANTS
    N = 2
    LogSize = 16
    MinSpace = 8
    FetchAhead = 2
    Addrs = {1, 2}
    Bodies <- MCNegative
    MaxTx = 1
    MaxN = 15
SPECIFICATION ReplaySpec
INVARIANT PicksOldestSeen
