\* Two runs, each with the reserve's conversion and one holding; the first takes paths
\* of up to two orders.  Only the process is fair.
SPECIFICATION FairSpec
CONSTANTS
    MaxRuns = 2
    MaxConversions = 1
    MaxHops = 2
    MaxLong = 1
INVARIANTS
    RecordTruthful
    SkipDoesNotStop
    CompleteMeansDone
    PauseRespected
PROPERTIES
    KeepsJournal
    RunEnds
