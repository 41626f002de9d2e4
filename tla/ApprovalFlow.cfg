SPECIFICATION FlowSpec
CONSTANTS
    Ids = {id1}
    CNs = {broker, boss}
    approveCN = {boss}
    signCN = {broker}
    Pollers = {c1}
    Deciders = {d1, d2}
    Nil = Nil
    TTL = 2
    MaxTime = 6
    MaxRPCs = 2
    approvalWaits = {0, 1, 3}
INVARIANTS
    IssuedAtMostOnce
    ToldTheTruth
PROPERTIES
    EveryCallReturns
