\* One deal whose last leg may leave a position the market still takes: the
\* flattening of a completed route, its failures, and the failure handler's recovery.
\* Only the process is fair.
SPECIFICATION FairSpec
CONSTANTS
    N = 2
    MaxDeals = 1
    MaxAmount = 3
    MaxOver = 0
    MaxCost = 1
    LimitLots = {1, 3}
    MarketLots = {2, 3}
    AutoRecover = TRUE
    LocalFaults = FALSE
INVARIANTS
    JournalInv
PROPERTIES
    DealEnds
