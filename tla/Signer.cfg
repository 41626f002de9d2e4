SPECIFICATION Spec
CONSTANTS
    Texts <- MCTexts
    Patterns <- MCPatterns
    BadPatterns = {"("}
    matches <- MCMatches
    extractCommands <- MCExtract
    Hosts = {"web", "hop"}
    Groups = {"prod", "edge"}
    CNs = {"agent", "cp", "admin"}
    Users = {"alice", "bob"}
    SudoUsers = {"root"}
    NoText = ""
    Multiline = {"ls-newline-reboot"}
    Nil = "nil"
    DefaultKey = "_default"
    defaultTTL = 1
    certCap = 2
    Configs <- MCConfigs
    Requests <- MCRequests
    Grantables <- MCGrantables
    Signs = {s1}
    Admins = {a1}
    learnTTL = 2
    maxGrantTTL = 1
    MaxTime = 1
    MaxGrants = 2
INVARIANTS
    FirewallHolds
    ApprovalUnavoidable
    GrantsNeverNarrow
CHECK_DEADLOCK FALSE
