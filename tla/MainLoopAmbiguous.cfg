SPECIFICATION Spec
CONSTANTS
    Settings = {FALSE}
    Replenishing = TRUE
    Floor = 2
    Target = 3
    Minimum = 3
    RefreshEvery = 2
    CheckEvery = 3
    MaxUSDC = 4
    MaxFaults = 1
INVARIANT AmbiguousStops
CHECK_DEADLOCK FALSE
