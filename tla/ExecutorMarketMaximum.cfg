\* A position acquired by limit orders and larger than one market order may be.
SPECIFICATION Spec
CONSTANTS
    N = 2
    MaxDeals = 1
    MaxAmount = 2
    MaxOver = 0
    MaxCost = 0
    LimitLots = {1, 2}
    MarketLots = {1}
    AutoRecover = TRUE
    LocalFaults = FALSE
INVARIANTS
    RetiredFlat
