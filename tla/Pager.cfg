CONSTANTS
    N = 2
    Pages = {1, 2, 3, 4}
    Max = 2
    Sup = 2
    Inf = 1
    Batch = 2
    MaxFaults = 2
SPECIFICATION PagerFairSpec
INVARIANTS
    PagerTypeOK
    SizeIsBits
    BitmapBound
    NoPhantomPage
    BitWasSet
    FindsPage
PROPERTIES
    HandlerReturns
    SpaceReturns
CHECK_DEADLOCK FALSE
