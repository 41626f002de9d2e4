---------------------------- MODULE ApprovalSpec ----------------------------
(***************************************************************************)
(* What the human-approval gate of the control plane promises, independent *)
(* of registries, claims, clocks and RPCs: a request is asked for by one   *)
(* client, decided at most once and by somebody else, and an approval pays *)
(* out at most once.  A request that was not used may lapse (expire), be   *)
(* refused or be forgotten; none of those can be undone.                   *)
(* ControlPlane implements this specification (see ControlPlane!Abstract). *)
(***************************************************************************)
CONSTANTS
    Ids,        \* approval identifiers
    Brokers,    \* client names that may ask for a signature
    Approvers,  \* client names that may decide
    Nobody      \* stands for "no client"

VARIABLES
    phase,      \* phase[id]: where the request is in its life
    requester,  \* requester[id]: who asked
    approver,   \* approver[id]: who approved
    paid        \* the certificates handed out: which id, to whom, on whose word

specVars == <<phase, requester, approver, paid>>

Phases == {"none", "pending", "approved", "denied", "expired", "used", "gone"}

SpecInit ==
    /\ phase = [id \in Ids |-> "none"]
    /\ requester = [id \in Ids |-> Nobody]
    /\ approver = [id \in Ids |-> Nobody]
    /\ paid = {}

\* What may happen to a request that nobody acts on: it lapses or is forgotten;
\* what was used stays used.
MayLapse(id) ==
    \/ phase'[id] = phase[id]
    \/ phase[id] \in {"pending", "approved"} /\ phase'[id] = "expired"
    \/ phase[id] \in {"pending", "approved", "denied", "expired"}
          /\ phase'[id] = "gone"

\* Old requests may be cleared away in the step that files a new one.
Ask(id, cn) ==
    /\ phase[id] = "none"
    /\ cn \in Brokers
    /\ phase' \in [Ids -> Phases]
    /\ phase'[id] = "pending"
    /\ \A other \in Ids \ {id} : MayLapse(other)
    /\ requester' = [requester EXCEPT ![id] = cn]
    /\ UNCHANGED <<approver, paid>>

\* Four eyes: the client that asked is never the one that approves.
Approve(id, cn) ==
    /\ phase[id] = "pending"
    /\ cn \in Approvers
    /\ cn # requester[id]
    /\ phase' = [phase EXCEPT ![id] = "approved"]
    /\ approver' = [approver EXCEPT ![id] = cn]
    /\ UNCHANGED <<requester, paid>>

Deny(id) ==
    /\ phase[id] = "pending"
    /\ phase' = [phase EXCEPT ![id] = "denied"]
    /\ UNCHANGED <<requester, approver, paid>>

\* The approval pays out its one certificate, to the client that asked.
Use(id) ==
    /\ phase[id] = "approved"
    /\ phase' = [phase EXCEPT ![id] = "used"]
    /\ \E g \in paid' : /\ g.id = id
                        /\ g.to = requester[id]
                        /\ g.by = approver[id]
                        /\ paid' = paid \cup {g}
    /\ UNCHANGED <<requester, approver>>

\* Any set of requests lapses in one step: a listing expires and purges many,
\* a restart forgets all.
Lapse ==
    /\ phase' \in [Ids -> Phases]
    /\ \A id \in Ids : MayLapse(id)
    /\ UNCHANGED <<requester, approver, paid>>

SpecNext ==
    \/ \E id \in Ids : \/ \E cn \in Brokers : Ask(id, cn)
                       \/ \E cn \in Approvers : Approve(id, cn)
                       \/ Deny(id)
                       \/ Use(id)
    \/ Lapse

Spec == SpecInit /\ [][SpecNext]_specVars
=============================================================================
