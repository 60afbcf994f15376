\* A local failure after an order was sent, automatic recovery on.
SPECIFICATION Spec
CONSTANTS
    N = 2
    MaxDeals = 1
    MaxAmount = 1
    MaxOver = 0
    MaxCost = 0
    LimitLots = {1}
    MarketLots = {1}
    AutoRecover = TRUE
    LocalFaults = TRUE
INVARIANTS
    RetiredSettled
