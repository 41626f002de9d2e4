SPECIFICATION Spec
CONSTANTS
    MaxLines = 2
    MaxEntries = 6
    MaxFaults = 4
    Faults = {"sync", "rename", "open", "write", "crash"}
INVARIANTS
    ChainVerifies
    AcknowledgedSurvives
PROPERTIES
    AppendHeals
CHECK_DEADLOCK FALSE
