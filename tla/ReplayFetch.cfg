CONSTANTS
    N = 1
    LogSize = 8
    MinSpace = 4
    FetchAhead = 2
    Addrs = {1, 2}
    Bodies <- MCShort
    MaxTx = 4
    MaxN = 15
SPECIFICATION ReplaySpec
INVARIANT WordsKept
