SPECIFICATION Spec
CONSTANTS
    Sids = {s1, s2}
    Callers = {alice, bob}
    Openers = {o1, o2}
    Execs = {x1, x2}
    Nobody = Nobody
    maxSessionsGlobal = 2
    maxSessionsPerCaller = 1
    idleTTL = 1
    maxLife = 2
    MaxTime = 3
INVARIANTS
    BusyCountsCommands
    OnlyTheOwnerCutsOff
    LimitsHold
    EveryConnectionHasAnOwner
PROPERTIES
    AbandonedSessionsEnd
CHECK_DEADLOCK FALSE
