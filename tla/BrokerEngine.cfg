SPECIFICATION Spec
CONSTANTS
    Hosts = {"web", "hop"}
    Targets = {"web"}
    Routes = {"old", "new"}
    Tables <- MCTables
    Calls = {c1, c2}
    Sids = {s1}
    Nil = "nil"
    MaxLists = 2
INVARIANTS
    TypeOK
    RoutesAreRecent
    SessionRouteIsRecent
    NoClientLeaks
PROPERTIES
    OnlyAHostHoldsACall
CHECK_DEADLOCK FALSE
