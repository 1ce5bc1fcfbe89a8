CONSTANTS
    N = 2
    Budget = 1
    MaxTx = 2
    MaxClock = 18
    Protocols = {"pc", "lc"}
SPECIFICATION ClocksFairSpec
INVARIANTS
    ClocksTypeOK
    NoTornLog
    MarkerOrder
PROPERTIES
    PcDurable
    EveryTxReturns
