\* The loop with the rebalancer on and off; candidates that share books; amounts and prices
\* that meet every filter; three signals for each of two starts, which keep
\* two of theirs, and of all three are listed.
SPECIFICATION MCSpec
CONSTANTS
    Settings = {TRUE, FALSE}
    Replenishing = TRUE
    Floor = 2
    Target = 3
    Minimum = 3
    RefreshEvery = 2
    CheckEvery = 3
    MaxUSDC = 4
    MaxFaults = 2
    Routes = {{ab, bc}, {bc, ca}}
    Candidates = 3
    MaxAge = 2
    MaxSkew = 1
    ScanTime = 6
    Amounts = {1, 2, 3, 4, 5, 6, 7, 8, 9, 10}
    Prices = {1, 2, 3, 4}
    Quantities = {1, 2, 4}
    Filters <- MCFilters
    Commissions <- MCCommissions
    Assets = {1, 2, 3, 4, 5}
    USDC = 3
    BNB = 2
    MaxHops = 3
    MaxSignals = 3
    Starts = {usdc, btc}
    PerStart = 2
    Shortlisted = 3
INVARIANTS
    ReserveBounded
    OrderFits
    SimulationSound
    RoutesUsable
    ShortlistBest
PROPERTIES
    EntryWithReserve
    LeftoversHarmless
CHECK_DEADLOCK FALSE
