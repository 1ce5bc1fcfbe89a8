CONSTANTS
    N = 3
    Budget = 1
    MaxTx = 1
    MaxClock = 20
    Sizes = {2}
    PageIns = TRUE
SPECIFICATION PcwmSpec
VIEW PcwmView
INVARIANTS
    PrefixRecoverable
    SpanningRecoverable
    NoCircularWait
    MarkerPromised
