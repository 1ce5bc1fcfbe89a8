CONSTANTS
    N = 2
    Budget = 1
    MaxTx = 1
    MaxClock = 20
    Sizes = {1, 2}
    PageIns = FALSE
SPECIFICATION PcwmSpec
VIEW PcwmView
INVARIANT AckedRecoverable
