SPECIFICATION Spec
CONSTANTS
    fwd = fwd
    plain = plain
    u = u
    h1 = h1
    h2 = h2
    h3 = h3
    Keys = {cp, direct}
    maxRateLimitKeys = 1
    Minute = 1
    Limits = {0, 1}
    MaxLimit = 1
    MaxTime = 2
    NoWindow = NoWindow
    Brokers = {fwd, plain}
    EndUsers = {u}
    NoUser = NoUser
    TrustedForwarders = {fwd}
    Hosts = {h1, h2, h3}
    Commands <- MCCommands
    ControlPlane = cp
    Asks <- MCAsks
    Modes = {"off", "observe", "enforce"}
    RateLimitPerMin = 2
    maxSubjects = 1
    subjectTTL = 1
    maxDistinct = 2
    Reqs = {r1, r2}
    NoReq = NoReq
    MaxRequests = 3
    MaxRestarts = 1
SYMMETRY Symmetry
INVARIANT
    KnownIsVouchedFor
    RatePerMinuteHolds
    TablesBounded
CHECK_DEADLOCK FALSE
