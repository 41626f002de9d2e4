SPECIFICATION Spec
CONSTANTS
    Nil = Nil
    Ids = {id1}
    CNs = {broker, both, human}
    approveCN = {both, human}
    signCN = {broker, both}
    Pollers = {p1, p2}
    Deciders = {d1}
    TTL = 1
    MaxTime = 3
    MaxRPCs = 2
INVARIANTS
    TypeOK
    GrantedAtMostOnce
    FourEyes
    IssuedOnlyIfApproved
PROPERTIES
    ClaimsAreFresh
    ClaimsEnd
    ImplementsApprovalSpec
