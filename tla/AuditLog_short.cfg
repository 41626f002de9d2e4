SPECIFICATION Spec
CONSTANTS
    MaxLines = 2
    MaxEntries = 4
    MaxFaults = 1
    Faults = {"short"}
INVARIANTS
    AcknowledgedSurvives
CHECK_DEADLOCK FALSE
