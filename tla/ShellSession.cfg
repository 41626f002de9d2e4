SPECIFICATION Spec
CONSTANTS
    Callers = {c1, c2}
    Opener = c1
    None = None
    maxOutput = 1
    MaxCommands = 2
    MaxEmit = 2
INVARIANTS
    OutputIsOwn
    IdleMeansInStep
    StderrNotLostSilently
PROPERTIES
    NothingRunsAfterFailure
    EveryExecReturns
    ReaderIsReleased
CHECK_DEADLOCK FALSE
