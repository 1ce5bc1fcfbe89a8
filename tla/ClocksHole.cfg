CONSTANTS
    N = 2
    Budget = 1
    MaxTx = 1
    MaxClock = 12
    Protocols = {"lc"}
SPECIFICATION ClocksSpec
INVARIANT NoHoleBefore
