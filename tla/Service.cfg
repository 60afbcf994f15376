\* One symbol's stream; two symbols, a limit of two requests in three ticks and up to three
\* commissions; captures of three sizes, one too large, in a directory of three files.
SPECIFICATION MCSpec
CONSTANTS
    Symbols = {s1}
    MaxVersion = 4
    MaxTime = 4
    MaxAge = 1
    MaxCloses = 1
    FeeSymbols = {s1, s2}
    Minute = 3
    Limit = 2
    BudgetTime = 7
    MaxRates = 3
    Sizes = {1, 3, 6}
    MaxFiles = 3
    MaxBytes = 5
    MaxFileBytes = 4
    KeptFor = 3
    Pause = 1
    Leftover = 1
    CaptureTime = 5
    MaxCaptures = 5
INVARIANTS
    SnapshotHonest
    WatermarkHolds
    RequestsWithinBudget
    RatesInForce
    Capped
PROPERTIES
    SeedNeverRegresses
CHECK_DEADLOCK FALSE
