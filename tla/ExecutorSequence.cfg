\* Two deals in a row over a shorter route, market orders only: what the first
\* leaves behind for the second, and both against the order journal.
SPECIFICATION Spec
CONSTANTS
    N = 2
    MaxDeals = 2
    MaxAmount = 1
    MaxOver = 0
    MaxCost = 1
    LimitLots = {}
    MarketLots = {1}
    AutoRecover = TRUE
    LocalFaults = FALSE
INVARIANTS
    UnresolvedBlocksEntry
PROPERTIES
    KeepsJournal
