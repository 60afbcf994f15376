\* One deal over the real route length, with every recovery order possible.
SPECIFICATION Spec
CONSTANTS
    N = 3
    MaxDeals = 1
    MaxAmount = 2
    MaxOver = 1
    MaxCost = 1
    LimitLots = {1, 2}
    MarketLots = {2, 3}
    AutoRecover = TRUE
    LocalFaults = FALSE
INVARIANTS
    TypeOK
    WriteAhead
    OneAtATime
    LedgerExact
    WithinMeans
    RetiredFlat
    RetiredSettled
    PauseRespected
PROPERTIES
    NoResubmission
