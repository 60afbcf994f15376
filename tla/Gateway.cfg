\* Three deals, one of them archived before there were reports, and three commands, with
\* the faults of both halves.
SPECIFICATION MCSpec
CONSTANTS
    NOld = 1
    NDeals = 3
    MaxFiles = 1
    Limits = {1, 2}
    MaxPow = 2
    MaxDelay = 3
    RoundTicks = 1
    MaxFaults = 1
    MaxCommands = 3
    MaxControlFaults = 1
INVARIANTS
    ArchivedCounted
    DuplicatesNeedFaults
    StopHolds
    ExecutedOnce
PROPERTIES
    KeepsPromise
    ReportsArrive
    ClearsHappen
CHECK_DEADLOCK FALSE
