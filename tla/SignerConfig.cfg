SPECIFICATION Spec
CONSTANTS
    web = web
    gw = gw
    r1 = r1
    r2 = r2
    admin = admin
    lost = lost
    Hosts = {web, gw}
    CNs = {admin}
    Groups = {"g"}
    KeyNames = {"_default"}
    KeyRefs = {lost}
    LostKeys = {lost}
    Rules = {r1, r2}
    BadRules = {}
    NoHost = NoHost
    Apis = {"api1", "api2"}
    Ctls = {"ctl"}
    Requesters = {"http"}
    InitialConfig <- MCInitial
    Edits <- MCEdits
    Commands <- MCCommands
    Saved <- MCSaved
    AutoReload = TRUE
    KeysMayFail = TRUE
    NoConfig = NoConfig
    Down = Down
    NoFile = NoFile
    Empty = Empty
    Torn = Torn
    MaxChanges = 2
    MaxCrashes = 1
INVARIANTS
    TypeOK
    LastGoodKept
    EditsCompose
    BehindForAReason
PROPERTIES
    Converges
CHECK_DEADLOCK FALSE
