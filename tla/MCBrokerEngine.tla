--------------------------- MODULE MCBrokerEngine ---------------------------
(***************************************************************************)
(* A small instance of BrokerEngine: a target behind a bastion; the target *)
(* moved and reached directly, the bastion gone; and the two with their    *)
(* roles swapped, so that look-ups in different lists go in a circle.      *)
(***************************************************************************)
EXTENDS BrokerEngine, TLC

Host(route, jump) == [route |-> route, jump |-> jump]

Behind == ("web" :> Host("old", "hop")) @@ ("hop" :> Host("old", Nil))
Moved == ("web" :> Host("new", Nil))
Swapped == ("web" :> Host("old", Nil)) @@ ("hop" :> Host("old", "web"))

MCTables == {Behind, Moved, Swapped}
=============================================================================
