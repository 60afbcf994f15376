\* Local failures between an order and its booking, automatic recovery switched off.
SPECIFICATION Spec
CONSTANTS
    N = 2
    MaxDeals = 1
    MaxAmount = 3
    MaxOver = 1
    MaxCost = 1
    LimitLots = {1, 2, 3}
    MarketLots = {2, 3, 4}
    AutoRecover = FALSE
    LocalFaults = TRUE
INVARIANTS
    RetiredSettled
