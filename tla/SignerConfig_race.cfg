SPECIFICATION Spec
CONSTANTS
    web = web
    gw = gw
    r1 = r1
    r2 = r2
    admin = admin
    lost = lost
    Hosts = {web, gw}
    CNs = {admin}
    Groups = {"g"}
    KeyNames = {"_default"}
    KeyRefs = {lost}
    LostKeys = {lost}
    Rules = {r1, r2}
    BadRules = {}
    NoHost = NoHost
    Apis = {"api1"}
    Ctls = {}
    Requesters = {"http"}
    InitialConfig <- MCInitial
    Edits <- MCEdits
    Commands <- MCCommands
    Saved = {}
    AutoReload = FALSE
    KeysMayFail = FALSE
    NoConfig = NoConfig
    Down = Down
    NoFile = NoFile
    Empty = Empty
    Torn = Torn
    MaxChanges = 2
    MaxCrashes = 1
INVARIANT
    DiskAndRunningAgree
CHECK_DEADLOCK FALSE
