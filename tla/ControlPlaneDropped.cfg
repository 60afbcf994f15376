SPECIFICATION Spec
CONSTANTS
    MaxCommands = 3
    MaxFaults = 1
INVARIANT FaultLosesOne
CHECK_DEADLOCK FALSE
