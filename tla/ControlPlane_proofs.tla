------------------------- MODULE ControlPlane_proofs -------------------------
(***************************************************************************)
(* Proofs about ControlPlane for every set of identifiers, clients and     *)
(* handlers, every window TTL and every bound.  The inductive invariant    *)
(* ties the three places that know about one approval to each other: the   *)
(* entry in the registry (which may be purged at any time), the handlers   *)
(* that hold a copy or a claim of it, and what was already handed out.     *)
(* The second half shows that ControlPlane implements ApprovalSpec.  The   *)
(* step simulation is one lemma about a single request (PhaseStep: all     *)
(* that registry and poll steps do to a request nobody decides or uses is  *)
(* to let it lapse) and one step per action that does more.  The last part *)
(* adds the broker's calls (ApprovalFlow) to the invariant.                *)
(***************************************************************************)
EXTENDS ApprovalFlow, TLAPS

\* p holds the claim of its approval.
Holding(p) == poll[p].pc \in {"claimed", "sent", "signed", "release", "burn"}

\* An entry was filed by a client that may sign; only a decided one carries a
\* decision, taken by an approver who did not file it.
ItemsInv ==
    \A id \in Ids :
        /\ id \notin used => items[id].status = "absent" /\ approver[id] = Nil
        /\ items[id].status # "absent" =>
              /\ items[id].caller = requester[id]
              /\ isSignCaller(requester[id])
              /\ requester[id] \in CNs
        /\ items[id].status = "pending" => approver[id] = Nil
        /\ items[id].status = "approved" =>
              /\ items[id].decidedBy = approver[id]
              /\ approver[id] \in approveCN
              /\ approver[id] # requester[id]
        /\ items[id].issuing => items[id].status = "approved"

\* A running poll serves a request that was approved, for the client that filed
\* it; what it copied does not change under it.
PollInv ==
    \A p \in Pollers : poll[p].pc # "idle" =>
        /\ poll[p].id \in used
        /\ poll[p].cn = requester[poll[p].id]
        /\ isSignCaller(poll[p].cn)
        /\ poll[p].cn \in CNs
        /\ poll[p].by = approver[poll[p].id]
        /\ poll[p].by \in approveCN
        /\ poll[p].by # poll[p].cn

\* The claim is exclusive, and while it is held the entry, if it is still there,
\* is approved, unconsumed and marked as issuing.
ClaimInv ==
    /\ \A p, q \in Pollers :
          Holding(p) /\ Holding(q) /\ poll[p].id = poll[q].id => p = q
    /\ \A p \in Pollers : Holding(p) =>
          LET a == items[poll[p].id] IN
          a.status # "absent" => a.status = "approved" /\ a.issuing /\ ~a.consumed

\* A decision in progress is by an approver who did not file the request.
DecideInv ==
    \A d \in Deciders : decide[d].pc = "checked" =>
        /\ decide[d].id \in used
        /\ decide[d].cn \in approveCN
        /\ items[decide[d].id].status # "absent" =>
              items[decide[d].id].caller # decide[d].cn

\* What was granted stays used up: its entry is gone or can never be claimed
\* again, and the only claim on it left is the one that granted it.
GrantInv ==
    \A g \in granted :
        /\ g.id \in used
        /\ \/ items[g.id].status = "absent"
           \/ /\ items[g.id].status = "approved"
              /\ items[g.id].consumed \/ items[g.id].issuing
        /\ \A p \in Pollers : Holding(p) /\ poll[p].id = g.id => poll[p].pc = "burn"

IInv ==
    /\ TypeOK
    /\ ItemsInv
    /\ PollInv
    /\ ClaimInv
    /\ DecideInv
    /\ GrantInv
    /\ GrantedAtMostOnce
    /\ FourEyes
    /\ IssuedOnlyIfApproved
-----------------------------------------------------------------------------
(* Type correctness.                                                       *)

\* What the registry's critical sections (expireLocked, purgeLocked, BeginConsume,
\* FinishConsume) make of an entry is an entry again.
LEMMA EntryTypes ==
    ASSUME NEW a \in Approval, TypeOK, BoundsAssumption
    PROVE  /\ NoApproval \in Approval
           /\ expireLocked(a) \in Approval
           /\ purgeLocked(a) \in Approval
           /\ BeginConsume(a) \in Approval
           /\ \A b \in BOOLEAN : FinishConsume(a, b) \in Approval
  <1> USE DEF Approval, Status
  <1>1. NoApproval \in Approval
    BY DEF NoApproval
  <1>2. expireLocked(a) \in Approval
    BY DEF expireLocked
  <1>3. purgeLocked(a) \in Approval
    BY <1>1 DEF purgeLocked
  <1>4. BeginConsume(a) \in Approval
    BY <1>2 DEF BeginConsume
  <1>5. ASSUME NEW b \in BOOLEAN
        PROVE  FinishConsume(a, b) \in Approval
    BY DEF FinishConsume
  <1> QED
    BY <1>1, <1>2, <1>3, <1>4, <1>5

\* One step keeps every variable's type.  The type alone is not inductive: a
\* poll writes under the id of its copy, which PollInv knows to be an id.
LEMMA TypeStep == IInv /\ [Next]_vars => TypeOK'
<1> USE NamesAssumption, BoundsAssumption
<1> SUFFICES ASSUME IInv, [Next]_vars
             PROVE  TypeOK'
  OBVIOUS
<1>0. TypeOK /\ PollInv
  BY DEF IInv
<1> USE <1>0 DEF TypeOK
<1>a. ASSUME NEW p \in Pollers, poll[p].pc # "idle"
      PROVE  /\ poll[p].id \in Ids
             /\ poll[p].cn \in CNs
             /\ poll[p].by \in CNs
             /\ poll[p] \in PollState
  BY <1>a DEF PollInv, PollState
<1>b. ASSUME NEW p \in Pollers, poll[p].pc # "idle"
      PROVE  ForwardOf(p) \in Forward
  BY <1>a, <1>b DEF ForwardOf, Forward, PollState
<1>1. ASSUME NEW cn \in CNs, NEW id \in Ids, requireApproval(cn, id)
      PROVE  TypeOK'
  <2>1. NewApproval(cn) \in Approval
    BY DEF NewApproval, NoApproval, Approval, Status
  <2>2. \A i \in Ids : purgeLocked(items[i]) \in Approval
    BY EntryTypes
  <2>3. items' \in [Ids -> Approval]
    BY <1>1, <2>1, <2>2 DEF requireApproval
  <2> QED
    BY <1>1, <2>3 DEF requireApproval, signerVars
<1>2. ASSUME NEW p \in Pollers, NEW cn \in CNs, NEW id \in Ids, PollGet(p, cn, id)
      PROVE  TypeOK'
  <2> DEFINE a == expireLocked(items[id])
  <2>1. a \in Approval
    BY EntryTypes
  <2>2. items' \in [Ids -> Approval]
    BY <1>2, <2>1 DEF PollGet
  <2>3. poll' \in [Pollers -> PollState]
    BY <1>2, <2>1 DEF PollGet, PollState, PollPC, IdlePoll, Approval
  <2> QED
    BY <1>2, <2>2, <2>3 DEF PollGet, signerVars, historyVars
<1>3. ASSUME NEW p \in Pollers, PollClaim(p)
      PROVE  TypeOK'
  <2>1. items' \in [Ids -> Approval]
    BY <1>3, EntryTypes DEF PollClaim
  <2>2. poll' \in [Pollers -> PollState]
    BY <1>3 DEF PollClaim, PollState, PollPC, IdlePoll
  <2> QED
    BY <1>3, <2>1, <2>2 DEF PollClaim, signerVars, historyVars
<1>4. ASSUME NEW p \in Pollers, PollForward(p)
      PROVE  TypeOK'
  <2>1. poll[p].id \in Ids
    BY <1>4, <1>a DEF PollForward
  <2> QED
    <3>1. poll' \in [Pollers -> PollState]
      BY <1>4, <2>1 DEF PollForward, PollState, PollPC
    <3>2. sentRPCs' \in [Ids -> Nat]
      BY <1>4, <2>1 DEF PollForward
    <3> QED
      BY <1>4, <3>1, <3>2 DEF PollForward, registryVars, historyVars
<1>5. ASSUME NEW p \in Pollers, PollSignerFails(p)
      PROVE  TypeOK'
  BY <1>5 DEF PollSignerFails, PollState, PollPC, registryVars, signerVars,
              historyVars
<1>6. ASSUME NEW p \in Pollers, PollSignerIssues(p)
      PROVE  TypeOK'
  BY <1>6, <1>b DEF PollSignerIssues, PollState, PollPC, registryVars, historyVars
<1>7. ASSUME NEW p \in Pollers, PollLosesAnswer(p)
      PROVE  TypeOK'
  BY <1>7, <1>b DEF PollLosesAnswer, PollState, PollPC, registryVars, historyVars
<1>8. ASSUME NEW p \in Pollers, PollGrant(p)
      PROVE  TypeOK'
  <2>1. [id |-> poll[p].id, n |-> poll[p].n, to |-> poll[p].cn,
         by |-> poll[p].by] \in Grant
    BY <1>8, <1>a DEF PollGrant, Grant, PollState
  <2> QED
    BY <1>8, <2>1 DEF PollGrant, PollState, PollPC, registryVars, signerVars,
                      historyVars
<1>9. ASSUME NEW p \in Pollers, PollFinish(p)
      PROVE  TypeOK'
  <2>1. poll[p].id \in Ids
    BY <1>9, <1>a DEF PollFinish, PollState
  <2>2. items' \in [Ids -> Approval]
    BY <1>9, <2>1, EntryTypes DEF PollFinish
  <2> QED
    BY <1>9, <2>2 DEF PollFinish, PollState, PollPC, IdlePoll, signerVars,
                      historyVars
<1>10. ASSUME NEW f \in late, SignerLate(f)
       PROVE  TypeOK'
  BY <1>10 DEF SignerLate, registryVars, historyVars
<1>11. ASSUME NEW d \in Deciders, NEW cn \in CNs, NEW id \in Ids,
              NEW approve \in BOOLEAN, NEW learn \in BOOLEAN,
              DecideCheck(d, cn, id, approve, learn)
       PROVE  TypeOK'
  <2>1. items' \in [Ids -> Approval]
    BY <1>11, EntryTypes DEF DecideCheck
  <2>2. decide' \in [Deciders -> DecideState]
    BY <1>11 DEF DecideCheck, DecideState, IdleDecide
  <2> QED
    BY <1>11, <2>1, <2>2 DEF DecideCheck, signerVars, historyVars
<1>12. ASSUME NEW d \in Deciders, DecideApply(d)
       PROVE  TypeOK'
  <2> DEFINE id == decide[d].id
             e == expireLocked(items[id])
             r == decide[d]
  <2>1. r \in DecideState
    OBVIOUS
  <2>2. CASE id \in Ids
    <3>1. e \in Approval
      BY <2>2, EntryTypes
    <3>2. Decided(e, r.cn, r.approve, r.learn) \in Approval
      BY <3>1, <2>1 DEF Decided, Approval, Status, DecideState
    <3>3. items' \in [Ids -> Approval]
      BY <1>12, <3>1, <3>2 DEF DecideApply
    <3>4. approver' \in [Ids -> CNs \cup {Nil}]
      BY <1>12, <2>1 DEF DecideApply, DecideState
    <3> QED
      BY <1>12, <3>3, <3>4 DEF DecideApply, DecideState, IdleDecide, signerVars
  <2>3. CASE id \notin Ids
    <3>1. items' = items
      BY <1>12, <2>3 DEF DecideApply
    <3>2. approver' = approver
      BY <1>12, <2>3 DEF DecideApply
    <3> QED
      BY <1>12, <3>1, <3>2 DEF DecideApply, DecideState, IdleDecide, signerVars
  <2> QED
    BY <2>2, <2>3
<1>13. CASE List
  <2>1. \A i \in Ids : expireLocked(purgeLocked(items[i])) \in Approval
    BY EntryTypes
  <2> QED
    BY <1>13, <2>1 DEF List, signerVars, historyVars
<1>14. CASE Tick
  BY <1>14 DEF Tick, registryVars, signerVars, historyVars
<1>15. CASE Restart
  <2>1. NoApproval \in Approval /\ IdlePoll \in PollState /\ IdleDecide \in DecideState
    BY DEF NoApproval, Approval, Status, IdlePoll, PollState, PollPC, IdleDecide,
           DecideState
  <2>2. late' \in SUBSET Forward
    BY <1>15, <1>b DEF Restart
  <2> QED
    BY <1>15, <2>1, <2>2 DEF Restart, historyVars
<1>16. CASE UNCHANGED vars
  BY <1>16 DEF vars
<1> QED
  BY <1>1, <1>2, <1>3, <1>4, <1>5, <1>6, <1>7, <1>8, <1>9, <1>10, <1>11, <1>12,
     <1>13, <1>14, <1>15, <1>16 DEF Next, PollStep




\* What lazy expiry may do to an entry: mark it expired, if it is pending or an
\* unclaimed, unconsumed approval; the parties, the claim and the burn stay.
LEMMA EntryFacts ==
    ASSUME NEW a \in Approval
    PROVE  LET e == expireLocked(a) IN
           /\ e.caller = a.caller
           /\ e.decidedBy = a.decidedBy
           /\ e.issuing = a.issuing
           /\ e.consumed = a.consumed
           /\ e.status = "absent" <=> a.status = "absent"
           /\ \/ e = a
              \/ /\ e.status = "expired"
                 /\ \/ a.status = "pending"
                    \/ a.status = "approved" /\ ~a.consumed /\ ~a.issuing
  BY DEF expireLocked, Lapsed, Approval, Status

\* One step preserves the inductive invariant.
LEMMA InvStep == IInv /\ [Next]_vars => IInv'
<1> USE NamesAssumption, BoundsAssumption
<1> SUFFICES ASSUME IInv, [Next]_vars
             PROVE  IInv'
  OBVIOUS
<1>0. /\ TypeOK /\ ItemsInv /\ PollInv /\ ClaimInv /\ DecideInv /\ GrantInv
      /\ GrantedAtMostOnce /\ FourEyes /\ IssuedOnlyIfApproved
  BY DEF IInv
<1>t. TypeOK'
  BY TypeStep
<1> USE <1>0, <1>t
<1>i. ASSUME NEW i \in Ids
      PROVE  items[i] \in Approval /\ items'[i] \in Approval
  BY DEF TypeOK
<1>p. ASSUME NEW q \in Pollers
      PROVE  poll[q] \in PollState /\ poll'[q] \in PollState
  BY DEF TypeOK
<1>1. ASSUME NEW cn \in CNs, NEW id \in Ids, requireApproval(cn, id)
      PROVE  IInv'
  <2>1. ItemsInv'
    BY <1>1, <1>i, <1>p, EntryFacts DEF requireApproval, NewApproval, NoApproval, purgeLocked, ItemsInv, Approval, registryVars, signerVars, historyVars, TypeOK
  <2>2. PollInv'
    BY <1>1, <1>i, <1>p, EntryFacts DEF requireApproval, NewApproval, NoApproval, purgeLocked, PollInv, ItemsInv, PollState, registryVars, signerVars, historyVars, TypeOK
  <2>3. ClaimInv'
    BY <1>1, <1>i, <1>p, EntryFacts DEF requireApproval, NewApproval, NoApproval, purgeLocked, ClaimInv, Holding, PollInv, registryVars, signerVars, historyVars, TypeOK
  <2>4. DecideInv'
    BY <1>1, <1>i, <1>p, EntryFacts DEF requireApproval, NewApproval, NoApproval, purgeLocked, DecideInv, registryVars, signerVars, historyVars, TypeOK
  <2>5. GrantInv'
    BY <1>1, <1>i, <1>p, EntryFacts DEF requireApproval, NewApproval, NoApproval, purgeLocked, GrantInv, Holding, registryVars, signerVars, historyVars, TypeOK
  <2>6. GrantedAtMostOnce'
    BY <1>1, <1>i, <1>p, EntryFacts DEF requireApproval, NewApproval, NoApproval, purgeLocked, GrantedAtMostOnce, registryVars, signerVars, historyVars, TypeOK
  <2>7. FourEyes'
    BY <1>1 DEF requireApproval, FourEyes, GrantInv, TypeOK, Grant
  <2>8. IssuedOnlyIfApproved'
    BY <1>1, <1>i, <1>p, EntryFacts DEF requireApproval, NewApproval, NoApproval, purgeLocked, IssuedOnlyIfApproved, registryVars, signerVars, historyVars, TypeOK
  <2> QED
    BY <2>1, <2>2, <2>3, <2>4, <2>5, <2>6, <2>7, <2>8 DEF IInv
<1>2. ASSUME NEW p \in Pollers, NEW cn \in CNs, NEW id \in Ids, PollGet(p, cn, id)
      PROVE  IInv'
  <2>1. ItemsInv'
    BY <1>2, <1>i, <1>p, EntryFacts DEF PollGet, GetReply, IdlePoll, ItemsInv, Approval, registryVars, signerVars, historyVars, TypeOK
  <2>2. PollInv'
    <3> SUFFICES ASSUME NEW q \in Pollers, poll'[q].pc # "idle"
                 PROVE  (poll[q].pc # "idle" =>
                          /\ poll[q].id \in used
                          /\ poll[q].cn = requester[poll[q].id]
                          /\ isSignCaller(poll[q].cn)
                          /\ poll[q].cn \in CNs
                          /\ poll[q].by = approver[poll[q].id]
                          /\ poll[q].by \in approveCN
                          /\ poll[q].by # poll[q].cn)'
      BY DEF PollInv
    <3>1. /\ used' = used /\ requester' = requester /\ approver' = approver
          /\ id \in used
      BY <1>2 DEF PollGet, historyVars
    <3>2. CASE q # p
      <4>1. poll'[q] = poll[q]
        BY <1>2, <3>2 DEF PollGet, TypeOK
      <4> QED
        BY <3>1, <4>1 DEF PollInv
    <3>3. CASE q = p
      <4> DEFINE a == expireLocked(items[id])
      <4>1. /\ GetReply(a, cn) = "none"
            /\ poll'[p] = [pc |-> "got", id |-> id, cn |-> cn,
                          by |-> a.decidedBy, learn |-> a.learn, n |-> 0]
        BY <1>2, <3>3 DEF PollGet, TypeOK, IdlePoll
      <4>2. a.status = "approved" /\ a.caller = cn
        BY <4>1, <1>i, EntryTypes DEF GetReply, Approval, Status
      <4>3. /\ items[id].status = "approved" /\ items[id].caller = cn
            /\ a.decidedBy = items[id].decidedBy
        BY <4>2, <1>i, EntryFacts
      <4> QED
        BY <3>1, <3>3, <4>1, <4>3 DEF ItemsInv
    <3> QED
      BY <3>2, <3>3
  <2>3. ClaimInv'
    BY <1>2, <1>i, <1>p, EntryFacts DEF PollGet, GetReply, IdlePoll, ClaimInv, Holding, PollInv, registryVars, signerVars, historyVars, TypeOK
  <2>4. DecideInv'
    BY <1>2, <1>i, <1>p, EntryFacts DEF PollGet, GetReply, IdlePoll, DecideInv, registryVars, signerVars, historyVars, TypeOK
  <2>5. GrantInv'
    BY <1>2, <1>i, <1>p, EntryFacts DEF PollGet, GetReply, IdlePoll, GrantInv, Holding, registryVars, signerVars, historyVars, TypeOK
  <2>6. GrantedAtMostOnce'
    BY <1>2, <1>i, <1>p, EntryFacts DEF PollGet, GetReply, IdlePoll, GrantedAtMostOnce, registryVars, signerVars, historyVars, TypeOK
  <2>7. FourEyes'
    BY <1>2, <1>i, <1>p, EntryFacts DEF PollGet, GetReply, IdlePoll, FourEyes, registryVars, signerVars, historyVars, TypeOK
  <2>8. IssuedOnlyIfApproved'
    BY <1>2, <1>i, <1>p, EntryFacts DEF PollGet, GetReply, IdlePoll, IssuedOnlyIfApproved, registryVars, signerVars, historyVars, TypeOK
  <2> QED
    BY <2>1, <2>2, <2>3, <2>4, <2>5, <2>6, <2>7, <2>8 DEF IInv
<1>3. ASSUME NEW p \in Pollers, PollClaim(p)
      PROVE  IInv'
  <2>1. ItemsInv'
    BY <1>3, <1>i, <1>p, EntryFacts DEF PollClaim, ClaimReply, BeginConsume, Claimable, IdlePoll, ItemsInv, Approval, registryVars, signerVars, historyVars, TypeOK
  <2>2. PollInv'
    <3>1. used' = used /\ requester' = requester /\ approver' = approver
      BY <1>3 DEF PollClaim, historyVars
    <3>2. \A q \in Pollers : q # p => poll'[q] = poll[q]
      BY <1>3 DEF PollClaim, TypeOK
    <3>3. \/ poll'[p] = IdlePoll
          \/ poll[p].pc = "got" /\ poll'[p] = [poll[p] EXCEPT !.pc = "claimed"]
      BY <1>3 DEF PollClaim, TypeOK
    <3>4. \/ poll'[p].pc = "idle"
          \/ /\ poll[p].pc # "idle"
             /\ poll'[p].id = poll[p].id /\ poll'[p].cn = poll[p].cn
             /\ poll'[p].by = poll[p].by
      BY <3>3 DEF IdlePoll, TypeOK, PollState
    <3> QED
      BY <3>1, <3>2, <3>4 DEF PollInv
  <2>3. ClaimInv'
    <3> DEFINE id == poll[p].id
               e == expireLocked(items[id])
    <3>1. id \in Ids /\ e \in Approval /\ items[id] \in Approval
      BY <1>3, <1>i, EntryTypes DEF PollClaim, PollInv, TypeOK
    <3>2. CASE Claimable(e)
      <4>1. /\ poll' = [poll EXCEPT ![p] = [@ EXCEPT !.pc = "claimed"]]
            /\ items' = [items EXCEPT ![id] = [e EXCEPT !.issuing = TRUE]]
        BY <1>3, <3>1, <3>2, EntryFacts
           DEF PollClaim, ClaimReply, BeginConsume, Claimable, Approval
      <4>2. items[id].status = "approved" /\ ~items[id].issuing
        BY <3>1, <3>2, EntryFacts DEF Claimable
      <4>3. \A q \in Pollers : Holding(q) => poll[q].id # id
        BY <4>2 DEF ClaimInv
      <4>4. e.status = "approved" /\ ~e.consumed
        BY <3>2 DEF Claimable
      <4>5. /\ \A q \in Pollers : q # p => poll'[q] = poll[q]
            /\ poll'[p].id = id
        BY <4>1, <1>p DEF TypeOK, PollState
      <4>6. /\ items'[id].status = "approved" /\ items'[id].issuing
            /\ ~items'[id].consumed
            /\ \A i \in Ids \ {id} : items'[i] = items[i]
        BY <3>1, <4>1, <4>4 DEF TypeOK, Approval
      <4>7. \A q \in Pollers : Holding(q) => poll[q].id \in Ids
        BY DEF Holding, PollInv, TypeOK
      <4>8. \A q, r \in Pollers :
              Holding(q)' /\ Holding(r)' /\ poll'[q].id = poll'[r].id => q = r
        BY <4>3, <4>5 DEF ClaimInv, Holding
      <4> QED
        BY <4>3, <4>5, <4>6, <4>7, <4>8 DEF ClaimInv, Holding
    <3>3. CASE ~Claimable(e)
      <4>1. /\ poll' = [poll EXCEPT ![p] = IdlePoll]
            /\ items' = [items EXCEPT ![id] = e]
        BY <1>3, <3>1, <3>3, EntryFacts DEF PollClaim, ClaimReply, BeginConsume
      <4> QED
        BY <3>1, <4>1, EntryFacts DEF ClaimInv, Holding, IdlePoll, TypeOK, PollInv
    <3> QED
      BY <3>2, <3>3
  <2>4. DecideInv'
    BY <1>3, <1>i, <1>p, EntryFacts DEF PollClaim, ClaimReply, BeginConsume, Claimable, IdlePoll, DecideInv, registryVars, signerVars, historyVars, TypeOK
  <2>5. GrantInv'
    BY <1>3, <1>i, <1>p, EntryFacts DEF PollClaim, ClaimReply, BeginConsume, Claimable, IdlePoll, GrantInv, Holding, registryVars, signerVars, historyVars, TypeOK
  <2>6. GrantedAtMostOnce'
    BY <1>3, <1>i, <1>p, EntryFacts DEF PollClaim, ClaimReply, BeginConsume, Claimable, IdlePoll, GrantedAtMostOnce, registryVars, signerVars, historyVars, TypeOK
  <2>7. FourEyes'
    BY <1>3, <1>i, <1>p, EntryFacts DEF PollClaim, ClaimReply, BeginConsume, Claimable, IdlePoll, FourEyes, registryVars, signerVars, historyVars, TypeOK
  <2>8. IssuedOnlyIfApproved'
    BY <1>3, <1>i, <1>p, EntryFacts DEF PollClaim, ClaimReply, BeginConsume, Claimable, IdlePoll, IssuedOnlyIfApproved, registryVars, signerVars, historyVars, TypeOK
  <2> QED
    BY <2>1, <2>2, <2>3, <2>4, <2>5, <2>6, <2>7, <2>8 DEF IInv
<1>4. ASSUME NEW p \in Pollers, PollForward(p)
      PROVE  IInv'
  <2>a. /\ \A q \in Pollers : /\ poll'[q].id = poll[q].id
                              /\ poll'[q].cn = poll[q].cn
                              /\ poll'[q].by = poll[q].by
                              /\ q # p => poll'[q] = poll[q]
        /\ poll[p].pc = "claimed"
        /\ poll'[p].pc \in {"sent", "release"}
    BY <1>4, <1>p DEF PollForward, TypeOK, PollState
  <2>b. /\ items' = items /\ used' = used /\ granted' = granted
        /\ requester' = requester /\ approver' = approver
    BY <1>4 DEF PollForward, registryVars, historyVars
  <2>c. \A q \in Pollers : Holding(q)' <=> Holding(q)
    BY <2>a DEF Holding
  <2>1. ItemsInv'
    BY <1>4, <1>i, <1>p, EntryFacts DEF PollForward, ItemsInv, Approval, registryVars, signerVars, historyVars, TypeOK
  <2>2. PollInv'
    <3> SUFFICES ASSUME NEW q \in Pollers, poll'[q].pc # "idle"
                 PROVE  (/\ poll[q].id \in used
                         /\ poll[q].cn = requester[poll[q].id]
                         /\ isSignCaller(poll[q].cn)
                         /\ poll[q].cn \in CNs
                         /\ poll[q].by = approver[poll[q].id]
                         /\ poll[q].by \in approveCN
                         /\ poll[q].by # poll[q].cn)'
      BY DEF PollInv
    <3>1. poll[q].pc # "idle"
      BY <2>a
    <3> QED
      BY <2>a, <2>b, <3>1 DEF PollInv
  <2>3. ClaimInv'
    BY <2>a, <2>b, <2>c DEF ClaimInv
  <2>4. DecideInv'
    BY <1>4, <1>i, <1>p, EntryFacts DEF PollForward, DecideInv, registryVars, signerVars, historyVars, TypeOK
  <2>5. GrantInv'
    <3>1. \A q \in Pollers : Holding(q) /\ poll'[q].pc # "burn" => poll[q].pc # "burn"
      BY <2>a
    <3> QED
      BY <2>a, <2>b, <2>c, <3>1 DEF GrantInv
  <2>6. GrantedAtMostOnce'
    BY <1>4, <1>i, <1>p, EntryFacts DEF PollForward, GrantedAtMostOnce, registryVars, signerVars, historyVars, TypeOK
  <2>7. FourEyes'
    BY <1>4, <1>i, <1>p, EntryFacts DEF PollForward, FourEyes, registryVars, signerVars, historyVars, TypeOK
  <2>8. IssuedOnlyIfApproved'
    BY <1>4, <1>i, <1>p, EntryFacts DEF PollForward, IssuedOnlyIfApproved, registryVars, signerVars, historyVars, TypeOK
  <2> QED
    BY <2>1, <2>2, <2>3, <2>4, <2>5, <2>6, <2>7, <2>8 DEF IInv
<1>5. ASSUME NEW p \in Pollers, PollSignerFails(p)
      PROVE  IInv'
  <2>1. ItemsInv'
    BY <1>5, <1>i, <1>p, EntryFacts DEF PollSignerFails, ItemsInv, Approval, registryVars, signerVars, historyVars, TypeOK
  <2>2. PollInv'
    BY <1>5, <1>i, <1>p, EntryFacts DEF PollSignerFails, PollInv, ItemsInv, PollState, registryVars, signerVars, historyVars, TypeOK
  <2>3. ClaimInv'
    BY <1>5, <1>i, <1>p, EntryFacts DEF PollSignerFails, ClaimInv, Holding, PollInv, registryVars, signerVars, historyVars, TypeOK
  <2>4. DecideInv'
    BY <1>5, <1>i, <1>p, EntryFacts DEF PollSignerFails, DecideInv, registryVars, signerVars, historyVars, TypeOK
  <2>5. GrantInv'
    BY <1>5, <1>i, <1>p, EntryFacts DEF PollSignerFails, GrantInv, Holding, registryVars, signerVars, historyVars, TypeOK
  <2>6. GrantedAtMostOnce'
    BY <1>5, <1>i, <1>p, EntryFacts DEF PollSignerFails, GrantedAtMostOnce, registryVars, signerVars, historyVars, TypeOK
  <2>7. FourEyes'
    BY <1>5, <1>i, <1>p, EntryFacts DEF PollSignerFails, FourEyes, registryVars, signerVars, historyVars, TypeOK
  <2>8. IssuedOnlyIfApproved'
    BY <1>5, <1>i, <1>p, EntryFacts DEF PollSignerFails, IssuedOnlyIfApproved, registryVars, signerVars, historyVars, TypeOK
  <2> QED
    BY <2>1, <2>2, <2>3, <2>4, <2>5, <2>6, <2>7, <2>8 DEF IInv
<1>6. ASSUME NEW p \in Pollers, PollSignerIssues(p)
      PROVE  IInv'
  <2>1. ItemsInv'
    BY <1>6, <1>i, <1>p, EntryFacts DEF PollSignerIssues, ForwardOf, ItemsInv, Approval, registryVars, signerVars, historyVars, TypeOK
  <2>2. PollInv'
    BY <1>6, <1>i, <1>p, EntryFacts DEF PollSignerIssues, ForwardOf, PollInv, ItemsInv, PollState, registryVars, signerVars, historyVars, TypeOK
  <2>3. ClaimInv'
    BY <1>6, <1>i, <1>p, EntryFacts DEF PollSignerIssues, ForwardOf, ClaimInv, Holding, PollInv, registryVars, signerVars, historyVars, TypeOK
  <2>4. DecideInv'
    BY <1>6, <1>i, <1>p, EntryFacts DEF PollSignerIssues, ForwardOf, DecideInv, registryVars, signerVars, historyVars, TypeOK
  <2>5. GrantInv'
    BY <1>6, <1>i, <1>p, EntryFacts DEF PollSignerIssues, ForwardOf, GrantInv, Holding, registryVars, signerVars, historyVars, TypeOK
  <2>6. GrantedAtMostOnce'
    BY <1>6, <1>i, <1>p, EntryFacts DEF PollSignerIssues, ForwardOf, GrantedAtMostOnce, registryVars, signerVars, historyVars, TypeOK
  <2>7. FourEyes'
    BY <1>6, <1>i, <1>p, EntryFacts DEF PollSignerIssues, ForwardOf, FourEyes, registryVars, signerVars, historyVars, TypeOK
  <2>8. IssuedOnlyIfApproved'
    <3>1. approver[poll[p].id] \in approveCN
      BY <1>6 DEF PollSignerIssues, PollInv
    <3> QED
      BY <1>6, <3>1 DEF PollSignerIssues, IssuedOnlyIfApproved, ForwardOf, historyVars
  <2> QED
    BY <2>1, <2>2, <2>3, <2>4, <2>5, <2>6, <2>7, <2>8 DEF IInv
<1>7. ASSUME NEW p \in Pollers, PollLosesAnswer(p)
      PROVE  IInv'
  <2>1. ItemsInv'
    BY <1>7, <1>i, <1>p, EntryFacts DEF PollLosesAnswer, ForwardOf, ItemsInv, Approval, registryVars, signerVars, historyVars, TypeOK
  <2>2. PollInv'
    BY <1>7, <1>i, <1>p, EntryFacts DEF PollLosesAnswer, ForwardOf, PollInv, ItemsInv, PollState, registryVars, signerVars, historyVars, TypeOK
  <2>3. ClaimInv'
    BY <1>7, <1>i, <1>p, EntryFacts DEF PollLosesAnswer, ForwardOf, ClaimInv, Holding, PollInv, registryVars, signerVars, historyVars, TypeOK
  <2>4. DecideInv'
    BY <1>7, <1>i, <1>p, EntryFacts DEF PollLosesAnswer, ForwardOf, DecideInv, registryVars, signerVars, historyVars, TypeOK
  <2>5. GrantInv'
    BY <1>7, <1>i, <1>p, EntryFacts DEF PollLosesAnswer, ForwardOf, GrantInv, Holding, registryVars, signerVars, historyVars, TypeOK
  <2>6. GrantedAtMostOnce'
    BY <1>7, <1>i, <1>p, EntryFacts DEF PollLosesAnswer, ForwardOf, GrantedAtMostOnce, registryVars, signerVars, historyVars, TypeOK
  <2>7. FourEyes'
    BY <1>7, <1>i, <1>p, EntryFacts DEF PollLosesAnswer, ForwardOf, FourEyes, registryVars, signerVars, historyVars, TypeOK
  <2>8. IssuedOnlyIfApproved'
    <3>1. approver[poll[p].id] \in approveCN
      BY <1>7 DEF PollLosesAnswer, PollInv
    <3> QED
      BY <1>7, <3>1 DEF PollLosesAnswer, IssuedOnlyIfApproved, ForwardOf, historyVars
  <2> QED
    BY <2>1, <2>2, <2>3, <2>4, <2>5, <2>6, <2>7, <2>8 DEF IInv
<1>8. ASSUME NEW p \in Pollers, PollGrant(p)
      PROVE  IInv'
  <2> DEFINE g == [id |-> poll[p].id, n |-> poll[p].n, to |-> poll[p].cn,
                  by |-> poll[p].by]
  <2>a. /\ granted' = granted \cup {g}
        /\ poll[p].pc = "signed" /\ Holding(p)
        /\ poll' = [poll EXCEPT ![p].pc = "burn"]
        /\ items' = items /\ used' = used
        /\ requester' = requester /\ approver' = approver
    BY <1>8 DEF PollGrant, Holding, registryVars, historyVars
  <2>b. \A h \in granted : h.id # poll[p].id
    BY <2>a DEF GrantInv
  <2>1. ItemsInv'
    BY <1>8, <1>i, <1>p, EntryFacts DEF PollGrant, ItemsInv, Approval, registryVars, signerVars, historyVars, TypeOK
  <2>2. PollInv'
    BY <1>8, <1>i, <1>p, EntryFacts DEF PollGrant, PollInv, ItemsInv, PollState, registryVars, signerVars, historyVars, TypeOK
  <2>3. ClaimInv'
    BY <1>8, <1>i, <1>p, EntryFacts DEF PollGrant, ClaimInv, Holding, PollInv, registryVars, signerVars, historyVars, TypeOK
  <2>4. DecideInv'
    BY <1>8, <1>i, <1>p, EntryFacts DEF PollGrant, DecideInv, registryVars, signerVars, historyVars, TypeOK
  <2>5. GrantInv'
    <3>1. \A q \in Pollers : /\ poll'[q].id = poll[q].id
                             /\ q # p => poll'[q] = poll[q]
                             /\ q = p => poll'[q].pc = "burn"
      BY <2>a, <1>p DEF TypeOK, PollState
    <3>2. /\ poll[p].id \in used
          /\ \/ items[poll[p].id].status = "absent"
             \/ items[poll[p].id].status = "approved" /\ items[poll[p].id].issuing
      BY <2>a DEF PollInv, ClaimInv
    <3>3. \A q \in Pollers : Holding(q)' /\ poll[q].id = poll[p].id => q = p
      BY <2>a, <3>1 DEF ClaimInv, Holding
    <3>4. \A h \in granted : \A q \in Pollers :
             Holding(q)' /\ poll[q].id = h.id => poll'[q].pc = "burn"
      BY <2>a, <3>1 DEF GrantInv, Holding
    <3>5. \A h \in granted : /\ h.id \in used
                             /\ \/ items[h.id].status = "absent"
                               \/ /\ items[h.id].status = "approved"
                                  /\ items[h.id].consumed \/ items[h.id].issuing
      BY DEF GrantInv
    <3>6. g.id = poll[p].id
      OBVIOUS
    <3> SUFFICES ASSUME NEW h \in granted'
                 PROVE  /\ h.id \in used
                        /\ \/ items[h.id].status = "absent"
                           \/ /\ items[h.id].status = "approved"
                              /\ items[h.id].consumed \/ items[h.id].issuing
                        /\ \A q \in Pollers : Holding(q)' /\ poll'[q].id = h.id
                              => poll'[q].pc = "burn"
      BY <2>a DEF GrantInv
    <3>7. CASE h \in granted
      BY <3>1, <3>4, <3>5, <3>7 DEF Holding
    <3>8. CASE h = g
      BY <3>1, <3>2, <3>3, <3>6, <3>8 DEF Holding
    <3> QED
      BY <2>a, <3>7, <3>8
  <2>6. GrantedAtMostOnce'
    BY <2>a, <2>b DEF GrantedAtMostOnce
  <2>7. FourEyes'
    <3>1. /\ g.to = requester[g.id] /\ isSignCaller(g.to) /\ g.by = approver[g.id]
          /\ g.by \in approveCN /\ g.by # g.to
      BY <2>a DEF PollInv
    <3> QED
      BY <2>a, <3>1 DEF FourEyes
  <2>8. IssuedOnlyIfApproved'
    BY <1>8, <1>i, <1>p, EntryFacts DEF PollGrant, IssuedOnlyIfApproved, registryVars, signerVars, historyVars, TypeOK
  <2> QED
    BY <2>1, <2>2, <2>3, <2>4, <2>5, <2>6, <2>7, <2>8 DEF IInv
<1>9. ASSUME NEW p \in Pollers, PollFinish(p)
      PROVE  IInv'
  <2>1. ItemsInv'
    BY <1>9, <1>i, <1>p, EntryFacts DEF PollFinish, FinishConsume, IdlePoll, ItemsInv, Approval, registryVars, signerVars, historyVars, TypeOK
  <2>2. PollInv'
    BY <1>9, <1>i, <1>p, EntryFacts DEF PollFinish, FinishConsume, IdlePoll, PollInv, ItemsInv, PollState, registryVars, signerVars, historyVars, TypeOK
  <2>3. ClaimInv'
    BY <1>9, <1>i, <1>p, EntryFacts DEF PollFinish, FinishConsume, IdlePoll, ClaimInv, Holding, PollInv, registryVars, signerVars, historyVars, TypeOK
  <2>4. DecideInv'
    BY <1>9, <1>i, <1>p, EntryFacts DEF PollFinish, FinishConsume, IdlePoll, DecideInv, registryVars, signerVars, historyVars, TypeOK
  <2>5. GrantInv'
    <3> DEFINE id == poll[p].id
    <3>1. /\ id \in Ids /\ Holding(p)
          /\ poll' = [poll EXCEPT ![p] = IdlePoll]
          /\ items' = [items EXCEPT ![id] = FinishConsume(items[id], poll[p].pc = "burn")]
          /\ granted' = granted /\ used' = used
      BY <1>9 DEF PollFinish, PollInv, Holding, TypeOK
    <3>2. ASSUME NEW h \in granted, h.id = id
          PROVE  poll[p].pc = "burn"
      BY <3>1, <3>2 DEF GrantInv
    <3>3. ASSUME NEW h \in granted
          PROVE  \/ items'[h.id].status = "absent"
                 \/ /\ items'[h.id].status = "approved"
                    /\ items'[h.id].consumed \/ items'[h.id].issuing
      <4>1. h.id \in Ids
        BY DEF TypeOK, Grant
      <4>2. CASE h.id # id
        BY <3>1, <4>1, <4>2 DEF GrantInv, TypeOK
      <4>3. CASE h.id = id
        BY <3>1, <3>2, <4>1, <4>3, <1>i DEF GrantInv, FinishConsume, Approval, TypeOK
      <4> QED
        BY <4>2, <4>3
    <3>4. \A q \in Pollers : Holding(q)' => q # p /\ poll'[q] = poll[q] /\ Holding(q)
      BY <3>1 DEF Holding, IdlePoll, TypeOK
    <3> QED
      BY <3>1, <3>3, <3>4 DEF GrantInv
  <2>6. GrantedAtMostOnce'
    BY <1>9, <1>i, <1>p, EntryFacts DEF PollFinish, FinishConsume, IdlePoll, GrantedAtMostOnce, registryVars, signerVars, historyVars, TypeOK
  <2>7. FourEyes'
    BY <1>9, <1>i, <1>p, EntryFacts DEF PollFinish, FinishConsume, IdlePoll, FourEyes, registryVars, signerVars, historyVars, TypeOK
  <2>8. IssuedOnlyIfApproved'
    BY <1>9, <1>i, <1>p, EntryFacts DEF PollFinish, FinishConsume, IdlePoll, IssuedOnlyIfApproved, registryVars, signerVars, historyVars, TypeOK
  <2> QED
    BY <2>1, <2>2, <2>3, <2>4, <2>5, <2>6, <2>7, <2>8 DEF IInv
<1>10. ASSUME NEW f \in late, SignerLate(f)
       PROVE  IInv'
  <2>1. ItemsInv'
    BY <1>10, <1>i, <1>p, EntryFacts DEF SignerLate, ItemsInv, Approval, registryVars, signerVars, historyVars, TypeOK
  <2>2. PollInv'
    BY <1>10, <1>i, <1>p, EntryFacts DEF SignerLate, PollInv, ItemsInv, PollState, registryVars, signerVars, historyVars, TypeOK
  <2>3. ClaimInv'
    BY <1>10, <1>i, <1>p, EntryFacts DEF SignerLate, ClaimInv, Holding, PollInv, registryVars, signerVars, historyVars, TypeOK
  <2>4. DecideInv'
    BY <1>10, <1>i, <1>p, EntryFacts DEF SignerLate, DecideInv, registryVars, signerVars, historyVars, TypeOK
  <2>5. GrantInv'
    BY <1>10, <1>i, <1>p, EntryFacts DEF SignerLate, GrantInv, Holding, registryVars, signerVars, historyVars, TypeOK
  <2>6. GrantedAtMostOnce'
    BY <1>10, <1>i, <1>p, EntryFacts DEF SignerLate, GrantedAtMostOnce, registryVars, signerVars, historyVars, TypeOK
  <2>7. FourEyes'
    BY <1>10, <1>i, <1>p, EntryFacts DEF SignerLate, FourEyes, registryVars, signerVars, historyVars, TypeOK
  <2>8. IssuedOnlyIfApproved'
    BY <1>10, <1>i, <1>p, EntryFacts DEF SignerLate, IssuedOnlyIfApproved, registryVars, signerVars, historyVars, TypeOK
  <2> QED
    BY <2>1, <2>2, <2>3, <2>4, <2>5, <2>6, <2>7, <2>8 DEF IInv
<1>11. ASSUME NEW d \in Deciders, NEW cn \in CNs, NEW id \in Ids,
              NEW approve \in BOOLEAN, NEW learn \in BOOLEAN,
              DecideCheck(d, cn, id, approve, learn)
       PROVE  IInv'
  <2>1. ItemsInv'
    BY <1>11, <1>i, <1>p, EntryFacts DEF DecideCheck, SelfApproval, IdleDecide, ItemsInv, Approval, registryVars, signerVars, historyVars, TypeOK
  <2>2. PollInv'
    BY <1>11, <1>i, <1>p, EntryFacts DEF DecideCheck, SelfApproval, IdleDecide, PollInv, ItemsInv, PollState, registryVars, signerVars, historyVars, TypeOK
  <2>3. ClaimInv'
    BY <1>11, <1>i, <1>p, EntryFacts DEF DecideCheck, SelfApproval, IdleDecide, ClaimInv, Holding, PollInv, registryVars, signerVars, historyVars, TypeOK
  <2>4. DecideInv'
    BY <1>11, <1>i, <1>p, EntryFacts DEF DecideCheck, SelfApproval, IdleDecide, DecideInv, registryVars, signerVars, historyVars, TypeOK
  <2>5. GrantInv'
    BY <1>11, <1>i, <1>p, EntryFacts DEF DecideCheck, SelfApproval, IdleDecide, GrantInv, Holding, registryVars, signerVars, historyVars, TypeOK
  <2>6. GrantedAtMostOnce'
    BY <1>11, <1>i, <1>p, EntryFacts DEF DecideCheck, SelfApproval, IdleDecide, GrantedAtMostOnce, registryVars, signerVars, historyVars, TypeOK
  <2>7. FourEyes'
    BY <1>11, <1>i, <1>p, EntryFacts DEF DecideCheck, SelfApproval, IdleDecide, FourEyes, registryVars, signerVars, historyVars, TypeOK
  <2>8. IssuedOnlyIfApproved'
    BY <1>11, <1>i, <1>p, EntryFacts DEF DecideCheck, SelfApproval, IdleDecide, IssuedOnlyIfApproved, registryVars, signerVars, historyVars, TypeOK
  <2> QED
    BY <2>1, <2>2, <2>3, <2>4, <2>5, <2>6, <2>7, <2>8 DEF IInv
<1>12. ASSUME NEW d \in Deciders, DecideApply(d)
       PROVE  IInv'
  <2> DEFINE id == decide[d].id
             e == expireLocked(items[id])
             r == decide[d]
  <2>a. /\ id \in Ids /\ id \in used
        /\ r.cn \in approveCN
        /\ items[id] \in Approval
        /\ e \in Approval
        /\ items[id].status # "absent" => items[id].caller # r.cn
    BY <1>12, <1>i, EntryTypes DEF DecideApply, DecideInv, TypeOK
  <2>b. /\ used' = used /\ poll' = poll /\ requester' = requester
        /\ granted' = granted /\ issued' = issued /\ late' = late
        /\ decide' = [decide EXCEPT ![d] = IdleDecide]
    BY <1>12 DEF DecideApply, signerVars
  <2>c. \/ /\ items[id].status = "pending"
           /\ approver[id] = Nil
           /\ items'[id].status \in {"approved", "denied"}
           /\ items'[id].caller = items[id].caller
           /\ items'[id].decidedBy = r.cn
           /\ items'[id].issuing = items[id].issuing
           /\ items'[id].status = "approved" => approver'[id] = r.cn
        \/ items'[id] = e /\ approver' = approver
    <3>1. CASE Decidable(e)
      <4>1. items[id].status = "pending"
        BY <2>a, <3>1, EntryFacts DEF Decidable
      <4>2. /\ items'[id] = Decided(e, r.cn, r.approve, r.learn)
            /\ r.approve => approver'[id] = r.cn
        BY <1>12, <2>a, <3>1 DEF DecideApply, TypeOK
      <4>3. approver[id] = Nil
        BY <2>a, <4>1 DEF ItemsInv
      <4>4. e.caller = items[id].caller /\ e.issuing = items[id].issuing
        BY <2>a, EntryFacts
      <4>5. /\ items'[id].status \in {"approved", "denied"}
            /\ items'[id].status = "approved" => r.approve
            /\ items'[id].caller = e.caller
            /\ items'[id].decidedBy = r.cn
            /\ items'[id].issuing = e.issuing
        BY <2>a, <4>2 DEF Decided, Approval
      <4> QED
        BY <4>1, <4>2, <4>3, <4>4, <4>5
    <3>2. CASE ~Decidable(e)
      BY <1>12, <2>a, <3>2 DEF DecideApply, TypeOK
    <3> QED
      BY <3>1, <3>2
  <2>d. \A i \in Ids \ {id} : items'[i] = items[i] /\ approver'[i] = approver[i]
    BY <1>12 DEF DecideApply, TypeOK
  <2>e. approver'[id] = approver[id] \/ (approver[id] = Nil /\ approver'[id] \in approveCN)
    <3>1. approver' = approver \/ approver' = [approver EXCEPT ![id] = r.cn]
      BY <1>12 DEF DecideApply
    <3>2. approver[id] = Nil \/ approver' = approver
      <4>1. CASE Decidable(e)
        BY <2>a, <4>1, EntryFacts DEF Decidable, ItemsInv
      <4>2. CASE ~Decidable(e)
        BY <1>12, <4>2 DEF DecideApply
      <4> QED
        BY <4>1, <4>2
    <3>3. approver'[id] = approver[id] \/ approver'[id] = r.cn
      BY <2>a, <3>1 DEF TypeOK
    <3> QED
      BY <2>a, <3>2, <3>3
  <2>f. \A i \in Ids : /\ items'[i].caller = items[i].caller
                       /\ items'[i].issuing = items[i].issuing
                       /\ items'[i].status = "absent" <=> items[i].status = "absent"
                       /\ items[i].status = "approved"
                             /\ (items[i].issuing \/ items[i].consumed)
                            => items'[i] = items[i]
    <3> SUFFICES ASSUME NEW i \in Ids
                 PROVE  /\ items'[i].caller = items[i].caller
                        /\ items'[i].issuing = items[i].issuing
                        /\ items'[i].status = "absent" <=> items[i].status = "absent"
                        /\ items[i].status = "approved"
                              /\ (items[i].issuing \/ items[i].consumed)
                             => items'[i] = items[i]
      OBVIOUS
    <3>1. CASE i # id
      BY <2>d, <3>1
    <3>2. CASE i = id /\ items'[id] = e
      BY <2>a, <3>2, EntryFacts
    <3>3. CASE i = id /\ items[id].status = "pending"
      BY <2>a, <2>c, <3>3, EntryFacts
    <3> QED
      BY <2>c, <3>1, <3>2, <3>3
  <2>1. ItemsInv'
    <3> SUFFICES ASSUME NEW i \in Ids
                 PROVE  (/\ i \notin used => items[i].status = "absent" /\ approver[i] = Nil
                         /\ items[i].status # "absent" =>
                               /\ items[i].caller = requester[i]
                               /\ isSignCaller(requester[i])
                               /\ requester[i] \in CNs
                         /\ items[i].status = "pending" => approver[i] = Nil
                         /\ items[i].status = "approved" =>
                               /\ items[i].decidedBy = approver[i]
                               /\ approver[i] \in approveCN
                               /\ approver[i] # requester[i]
                         /\ items[i].issuing => items[i].status = "approved")'
      BY DEF ItemsInv
    <3>1. CASE i # id
      BY <2>b, <2>d, <3>1 DEF ItemsInv
    <3>2. CASE i = id
      BY <2>a, <2>b, <2>c, <3>2, EntryFacts DEF ItemsInv
    <3> QED
      BY <3>1, <3>2
  <2>2. PollInv'
    BY <1>12, <1>i, <1>p, EntryFacts DEF DecideApply, Decidable, Decided, IdleDecide, PollInv, ItemsInv, PollState, registryVars, signerVars, historyVars, TypeOK
  <2>3. ClaimInv'
    <3>1. \A i \in Ids : items[i].issuing => items'[i] = items[i]
      BY <2>f DEF ItemsInv
    <3>2. \A q \in Pollers : Holding(q) => poll[q].id \in Ids
      BY DEF Holding, PollInv, TypeOK
    <3> QED
      BY <2>b, <2>f, <3>1, <3>2 DEF ClaimInv, Holding
  <2>4. DecideInv'
    BY <2>b, <2>f DEF DecideInv, IdleDecide, TypeOK
  <2>5. GrantInv'
    <3>1. \A g \in granted : g.id \in Ids /\ approver[g.id] # Nil
      BY DEF FourEyes, TypeOK, Grant
    <3>2. \A g \in granted : items[g.id].status = "approved" => items'[g.id] = items[g.id]
      BY <2>f, <3>1 DEF GrantInv
    <3> QED
      BY <2>b, <2>f, <3>1, <3>2 DEF GrantInv, Holding
  <2>6. GrantedAtMostOnce'
    BY <1>12, <1>i, <1>p, EntryFacts DEF DecideApply, Decidable, Decided, IdleDecide, GrantedAtMostOnce, registryVars, signerVars, historyVars, TypeOK
  <2>7. FourEyes'
    <3>1. \A g \in granted : g.id \in Ids /\ approver[g.id] # Nil
      BY DEF FourEyes, TypeOK, Grant
    <3> QED
      BY <2>b, <2>d, <2>e, <3>1 DEF FourEyes
  <2>8. IssuedOnlyIfApproved'
    <3>1. \A f \in issued \cup late : f.id \in Ids
      BY DEF TypeOK, Forward
    <3> QED
      BY <2>b, <2>d, <2>e, <3>1 DEF IssuedOnlyIfApproved
  <2> QED
    BY <2>1, <2>2, <2>3, <2>4, <2>5, <2>6, <2>7, <2>8 DEF IInv
<1>13. CASE List
  <2>a. \A i \in Ids : items'[i] = NoApproval \/ items'[i] = expireLocked(items[i])
    BY <1>13 DEF List, purgeLocked, NoApproval, expireLocked, Lapsed
  <2>b. ASSUME NEW i \in Ids
        PROVE  \/ /\ items'[i].status = "absent"
                  /\ ~items'[i].issuing
               \/ /\ items'[i].caller = items[i].caller
                  /\ items'[i].decidedBy = items[i].decidedBy
                  /\ items'[i].issuing = items[i].issuing
                  /\ items'[i].consumed = items[i].consumed
                  /\ items'[i].status = "absent" <=> items[i].status = "absent"
                  /\ \/ items'[i].status = items[i].status
                     \/ /\ items'[i].status = "expired"
                        /\ \/ items[i].status = "pending"
                           \/ /\ items[i].status = "approved"
                              /\ ~items[i].consumed /\ ~items[i].issuing
    BY <2>a, <1>i, EntryFacts DEF NoApproval
  <2>1. ItemsInv'
    BY <1>13, <2>b DEF ItemsInv, TypeOK, historyVars, List
  <2>2. PollInv'
    BY <1>13, <1>i, <1>p, EntryFacts DEF List, purgeLocked, NoApproval, PollInv, ItemsInv, PollState, registryVars, signerVars, historyVars, TypeOK
  <2>3. ClaimInv'
    BY <1>13, <2>b DEF List, ClaimInv, Holding, PollInv, TypeOK
  <2>4. DecideInv'
    BY <1>13, <2>b DEF List, DecideInv, TypeOK
  <2>5. GrantInv'
    BY <1>13, <2>b DEF List, GrantInv, Holding, TypeOK, Grant
  <2>6. GrantedAtMostOnce'
    BY <1>13, <1>i, <1>p, EntryFacts DEF List, purgeLocked, NoApproval, GrantedAtMostOnce, registryVars, signerVars, historyVars, TypeOK
  <2>7. FourEyes'
    BY <1>13, <1>i, <1>p, EntryFacts DEF List, purgeLocked, NoApproval, FourEyes, registryVars, signerVars, historyVars, TypeOK
  <2>8. IssuedOnlyIfApproved'
    BY <1>13, <1>i, <1>p, EntryFacts DEF List, purgeLocked, NoApproval, IssuedOnlyIfApproved, registryVars, signerVars, historyVars, TypeOK
  <2> QED
    BY <2>1, <2>2, <2>3, <2>4, <2>5, <2>6, <2>7, <2>8 DEF IInv
<1>14. CASE Tick
  <2>1. ItemsInv'
    BY <1>14, <1>i, <1>p, EntryFacts DEF Tick, ItemsInv, Approval, registryVars, signerVars, historyVars, TypeOK
  <2>2. PollInv'
    BY <1>14, <1>i, <1>p, EntryFacts DEF Tick, PollInv, ItemsInv, PollState, registryVars, signerVars, historyVars, TypeOK
  <2>3. ClaimInv'
    BY <1>14, <1>i, <1>p, EntryFacts DEF Tick, ClaimInv, Holding, PollInv, registryVars, signerVars, historyVars, TypeOK
  <2>4. DecideInv'
    BY <1>14, <1>i, <1>p, EntryFacts DEF Tick, DecideInv, registryVars, signerVars, historyVars, TypeOK
  <2>5. GrantInv'
    BY <1>14, <1>i, <1>p, EntryFacts DEF Tick, GrantInv, Holding, registryVars, signerVars, historyVars, TypeOK
  <2>6. GrantedAtMostOnce'
    BY <1>14, <1>i, <1>p, EntryFacts DEF Tick, GrantedAtMostOnce, registryVars, signerVars, historyVars, TypeOK
  <2>7. FourEyes'
    BY <1>14, <1>i, <1>p, EntryFacts DEF Tick, FourEyes, registryVars, signerVars, historyVars, TypeOK
  <2>8. IssuedOnlyIfApproved'
    BY <1>14, <1>i, <1>p, EntryFacts DEF Tick, IssuedOnlyIfApproved, registryVars, signerVars, historyVars, TypeOK
  <2> QED
    BY <2>1, <2>2, <2>3, <2>4, <2>5, <2>6, <2>7, <2>8 DEF IInv
<1>15. CASE Restart
  <2>1. ItemsInv'
    BY <1>15, <1>i, <1>p, EntryFacts DEF Restart, NoApproval, IdlePoll, IdleDecide, ForwardOf, ItemsInv, Approval, registryVars, signerVars, historyVars, TypeOK
  <2>2. PollInv'
    BY <1>15, <1>i, <1>p, EntryFacts DEF Restart, NoApproval, IdlePoll, IdleDecide, ForwardOf, PollInv, ItemsInv, PollState, registryVars, signerVars, historyVars, TypeOK
  <2>3. ClaimInv'
    BY <1>15, <1>i, <1>p, EntryFacts DEF Restart, NoApproval, IdlePoll, IdleDecide, ForwardOf, ClaimInv, Holding, PollInv, registryVars, signerVars, historyVars, TypeOK
  <2>4. DecideInv'
    BY <1>15, <1>i, <1>p, EntryFacts DEF Restart, NoApproval, IdlePoll, IdleDecide, ForwardOf, DecideInv, registryVars, signerVars, historyVars, TypeOK
  <2>5. GrantInv'
    BY <1>15, <1>i, <1>p, EntryFacts DEF Restart, NoApproval, IdlePoll, IdleDecide, ForwardOf, GrantInv, Holding, registryVars, signerVars, historyVars, TypeOK
  <2>6. GrantedAtMostOnce'
    BY <1>15, <1>i, <1>p, EntryFacts DEF Restart, NoApproval, IdlePoll, IdleDecide, ForwardOf, GrantedAtMostOnce, registryVars, signerVars, historyVars, TypeOK
  <2>7. FourEyes'
    BY <1>15, <1>i, <1>p, EntryFacts DEF Restart, NoApproval, IdlePoll, IdleDecide, ForwardOf, FourEyes, registryVars, signerVars, historyVars, TypeOK
  <2>8. IssuedOnlyIfApproved'
    <3>1. \A p \in Pollers : poll[p].pc = "sent" => approver[ForwardOf(p).id] \in approveCN
      BY DEF PollInv, ForwardOf
    <3> QED
      BY <1>15, <3>1 DEF Restart, IssuedOnlyIfApproved, historyVars
  <2> QED
    BY <2>1, <2>2, <2>3, <2>4, <2>5, <2>6, <2>7, <2>8 DEF IInv
<1>16. CASE UNCHANGED vars
  <2>1. ItemsInv'
    BY <1>16, <1>i, <1>p, EntryFacts DEF vars, ItemsInv, Approval, registryVars, signerVars, historyVars, TypeOK
  <2>2. PollInv'
    BY <1>16, <1>i, <1>p, EntryFacts DEF vars, PollInv, ItemsInv, PollState, registryVars, signerVars, historyVars, TypeOK
  <2>3. ClaimInv'
    BY <1>16, <1>i, <1>p, EntryFacts DEF vars, ClaimInv, Holding, PollInv, registryVars, signerVars, historyVars, TypeOK
  <2>4. DecideInv'
    BY <1>16, <1>i, <1>p, EntryFacts DEF vars, DecideInv, registryVars, signerVars, historyVars, TypeOK
  <2>5. GrantInv'
    BY <1>16, <1>i, <1>p, EntryFacts DEF vars, GrantInv, Holding, registryVars, signerVars, historyVars, TypeOK
  <2>6. GrantedAtMostOnce'
    BY <1>16, <1>i, <1>p, EntryFacts DEF vars, GrantedAtMostOnce, registryVars, signerVars, historyVars, TypeOK
  <2>7. FourEyes'
    BY <1>16, <1>i, <1>p, EntryFacts DEF vars, FourEyes, registryVars, signerVars, historyVars, TypeOK
  <2>8. IssuedOnlyIfApproved'
    BY <1>16, <1>i, <1>p, EntryFacts DEF vars, IssuedOnlyIfApproved, registryVars, signerVars, historyVars, TypeOK
  <2> QED
    BY <2>1, <2>2, <2>3, <2>4, <2>5, <2>6, <2>7, <2>8 DEF IInv
<1> QED
  BY <1>1, <1>2, <1>3, <1>4, <1>5, <1>6, <1>7, <1>8, <1>9, <1>10, <1>11, <1>12, <1>13, <1>14, <1>15, <1>16 DEF Next, PollStep

-----------------------------------------------------------------------------
(* The theorems.                                                           *)

\* The freshly started control plane, with an empty registry and no handler
\* running, satisfies the inductive invariant.
LEMMA InitInv == Init => IInv
<1> USE NamesAssumption, BoundsAssumption
<1> SUFFICES ASSUME Init
             PROVE  IInv
  OBVIOUS
<1> USE DEF Init, NoApproval, IdlePoll, IdleDecide
<1>1. TypeOK
  BY DEF TypeOK, Approval, Status, PollState, PollPC, DecideState
<1>2. ItemsInv /\ PollInv /\ ClaimInv /\ DecideInv /\ GrantInv
  BY DEF ItemsInv, PollInv, ClaimInv, Holding, DecideInv, GrantInv
<1>3. GrantedAtMostOnce /\ FourEyes /\ IssuedOnlyIfApproved
  BY DEF GrantedAtMostOnce, FourEyes, IssuedOnlyIfApproved
<1> QED
  BY <1>1, <1>2, <1>3 DEF IInv

\* The inductive invariant holds in every state the control plane reaches.
THEOREM Invariance == Spec => []IInv
<1>1. Init => IInv
  BY InitInv
<1>2. IInv /\ [Next]_vars => IInv'
  BY InvStep
<1> QED
  BY <1>1, <1>2, PTL DEF Spec

\* Every variable keeps its type: the registry's entries, the handlers' copies
\* of them and the history, for any number of requests and handlers.
THEOREM TypeCorrect == Spec => []TypeOK
<1>1. IInv => TypeOK
  BY DEF IInv
<1> QED
  BY <1>1, Invariance, PTL

\* An approval pays out once: BeginConsume's claim and the deferred
\* FinishConsume keep any number of racing polls from a second certificate,
\* whether or not the entry was purged meanwhile.
THEOREM PaysOutOnce == Spec => []GrantedAtMostOnce
<1>1. IInv => GrantedAtMostOnce
  BY DEF IInv
<1> QED
  BY <1>1, Invariance, PTL

\* Four eyes: handleApprovalDecide checks the originator and calls Decide in
\* two critical sections, and still nobody's own approval yields a certificate.
THEOREM FourEyesHold == Spec => []FourEyes
<1>1. IInv => FourEyes
  BY DEF IInv
<1> QED
  BY <1>1, Invariance, PTL

\* The signer never sees approved=true for a request no approver approved, not
\* even from a forward that outlived its poll or the whole process.
THEOREM OnlyApprovedIsIssued == Spec => []IssuedOnlyIfApproved
<1>1. IInv => IssuedOnlyIfApproved
  BY DEF IInv
<1> QED
  BY <1>1, Invariance, PTL

\* What a step may do to the mark that an entry is being issued: only
\* BeginConsume sets it, and only inside the window.
LEMMA FreshStep ==
    ASSUME IInv, [Next]_vars, NEW id \in Ids,
           items'[id].issuing, ~items[id].issuing
    PROVE  now <= items[id].decidedAt + TTL
<1> USE NamesAssumption, BoundsAssumption
<1>0. /\ TypeOK /\ PollInv
      /\ items[id] \in Approval
  BY DEF IInv, TypeOK
<1>1. ASSUME NEW a \in Approval, ~a.issuing
      PROVE  ~expireLocked(a).issuing /\ ~purgeLocked(a).issuing
  BY <1>1 DEF expireLocked, purgeLocked, NoApproval, Approval
<1>2. purgeLocked(items[id]) \in Approval
  BY <1>0, EntryTypes
<1>3. ASSUME NEW p \in Pollers, PollClaim(p)
      PROVE  now <= items[id].decidedAt + TTL
  <2>1. poll[p].id = id /\ items'[id] = BeginConsume(items[id])
    BY <1>0, <1>3 DEF PollClaim, TypeOK
  <2>2. Claimable(expireLocked(items[id]))
    BY <1>0, <1>1, <2>1 DEF BeginConsume
  <2>3. ~Lapsed(items[id]) /\ expireLocked(items[id]) = items[id]
    BY <1>0, <2>2 DEF Claimable, expireLocked, Approval
  <2> QED
    BY <1>0, <2>2, <2>3 DEF Claimable, Lapsed, TypeOK, Approval
<1>4. ASSUME NEW p \in Pollers, PollFinish(p)
      PROVE  FALSE
  BY <1>0, <1>4 DEF PollFinish, FinishConsume, TypeOK, Approval
<1>5. ASSUME NEW cn \in CNs, NEW i \in Ids, requireApproval(cn, i)
      PROVE  FALSE
  BY <1>0, <1>1, <1>5 DEF requireApproval, NewApproval, NoApproval
<1>6. ASSUME NEW p \in Pollers, NEW cn \in CNs, NEW i \in Ids, PollGet(p, cn, i)
      PROVE  FALSE
  BY <1>0, <1>1, <1>6 DEF PollGet, TypeOK
<1>7. ASSUME NEW d \in Deciders, NEW cn \in CNs, NEW i \in Ids,
             NEW approve \in BOOLEAN, NEW learn \in BOOLEAN,
             DecideCheck(d, cn, i, approve, learn)
      PROVE  FALSE
  BY <1>0, <1>1, <1>7 DEF DecideCheck, TypeOK
<1>8. ASSUME NEW d \in Deciders, DecideApply(d)
      PROVE  FALSE
  <2> DEFINE e == expireLocked(items[id])
  <2>1. /\ e \in Approval /\ ~e.issuing
        /\ \A cn, approve, learn : ~Decided(e, cn, approve, learn).issuing
    BY <1>0, <1>1, EntryTypes DEF Decided, Approval
  <2> QED
    BY <1>0, <1>8, <2>1 DEF DecideApply, TypeOK
<1>9. CASE List
  BY <1>0, <1>1, <1>2, <1>9 DEF List
<1>10. CASE Restart
  BY <1>10 DEF Restart, NoApproval
<1>11. CASE items' = items
  BY <1>11
<1> QED
  BY <1>3, <1>4, <1>5, <1>6, <1>7, <1>8, <1>9, <1>10, <1>11
  DEF Next, PollStep, PollForward, PollSignerFails, PollSignerIssues,
      PollLosesAnswer, PollGrant, SignerLate, Tick, vars, registryVars

\* An approval is claimed only inside its window, however old the copy is that
\* the poll read before the claim.
THEOREM ClaimsFresh == Spec => ClaimsAreFresh
<1>1. IInv /\ [Next]_vars =>
        [\A id \in Ids : items'[id].issuing /\ ~items[id].issuing =>
            now <= items[id].decidedAt + TTL]_vars
  BY FreshStep
<1> QED
  BY <1>1, Invariance, PTL DEF Spec, ClaimsAreFresh

-----------------------------------------------------------------------------
(* The refinement.                                                         *)

\* The phase function the abstract specification sees.
absPhase == [id \in Ids |-> phaseOf(id)]

\* Every request is in one of ApprovalSpec's phases.
LEMMA PhaseType ==
    ASSUME TypeOK, NEW id \in Ids
    PROVE  phaseOf(id) \in Abstract!Phases
  BY DEF phaseOf, Abstract!Phases, TypeOK, Approval, Status

\* What a step may do to a request that is neither filed, decided nor used by it.
LapseOf(id) ==
    \/ phaseOf(id)' = phaseOf(id)
    \/ phaseOf(id) \in {"pending", "approved"} /\ phaseOf(id)' = "expired"
    \/ /\ phaseOf(id) \in {"pending", "approved", "denied", "expired"}
       /\ phaseOf(id)' = "gone"

\* A request lapses at most, when its entry keeps its status, expires unclaimed
\* or is dropped, and claims come and go with an approved or dropped entry.
LEMMA PhaseStep ==
    ASSUME IInv, NEW id \in Ids, granted' = granted,
           id \in used' <=> id \in used,
           \/ items'[id].status = items[id].status
           \/ /\ items[id].status \in {"pending", "approved"}
              /\ ~Claimed(id)
              /\ items'[id].status = "expired"
           \/ items'[id].status = "absent",
           Claimed(id)' => Claimed(id) \/ items[id].status = "approved",
           Claimed(id) => Claimed(id)' \/ items'[id].status \in {"approved", "absent"}
    PROVE  LapseOf(id)
<1>1. items[id].status \in Status
  BY DEF IInv, TypeOK, Approval
<1>2. CASE \E g \in granted : g.id = id
  BY <1>2 DEF LapseOf, phaseOf
<1>3. CASE id \notin used
  BY <1>3 DEF LapseOf, phaseOf
<1>4. CASE (~\E g \in granted : g.id = id) /\ id \in used /\ Claimed(id)
  BY <1>1, <1>4 DEF LapseOf, phaseOf, Status
<1>5. CASE (~\E g \in granted : g.id = id) /\ id \in used /\ ~Claimed(id)
  BY <1>1, <1>5 DEF LapseOf, phaseOf, Status
<1> QED
  BY <1>2, <1>3, <1>4, <1>5

\* When every request lapses at most, the step is a Lapse of the abstraction.
LEMMA LapseStep ==
    ASSUME TypeOK', \A id \in Ids : LapseOf(id),
           requester' = requester, approver' = approver, granted' = granted
    PROVE  Abstract!Lapse
<1>1. \A id \in Ids : phaseOf(id)' \in Abstract!Phases
  BY DEF phaseOf, Abstract!Phases, TypeOK, Approval, Status
<1> QED
  BY <1>1 DEF Abstract!Lapse, Abstract!MayLapse, LapseOf

\* Entries that a claim covers do not expire: they are marked as issuing.
LEMMA ClaimedEntry ==
    ASSUME IInv, NEW id \in Ids, Claimed(id)
    PROVE  /\ items[id].status \in {"approved", "absent"}
           /\ items[id].status = "approved" => items[id].issuing
           /\ id \in used
           /\ \A g \in granted : g.id # id
  BY DEF IInv, Claimed, ClaimInv, PollInv, GrantInv, Holding

\* Expiry, on its own or after a purge, satisfies PhaseStep's entry condition.
LEMMA EntryLapses ==
    ASSUME IInv, NEW id \in Ids
    PROVE  LET a == items[id]
               ok(b) == \/ b.status = a.status
                        \/ /\ a.status \in {"pending", "approved"}
                           /\ ~Claimed(id)
                           /\ b.status = "expired"
                        \/ b.status = "absent"
           IN /\ ok(expireLocked(a))
              /\ ok(purgeLocked(a))
              /\ ok(expireLocked(purgeLocked(a)))
<1>1. items[id] \in Approval /\ NoApproval.status = "absent"
  BY DEF IInv, TypeOK, NoApproval
<1>2. Claimed(id) => \/ items[id].status = "absent"
                     \/ items[id].status = "approved" /\ items[id].issuing
  BY ClaimedEntry
<1>3. expireLocked(NoApproval) = NoApproval
  BY DEF expireLocked, Lapsed, NoApproval
<1>4. \/ expireLocked(items[id]).status = items[id].status
      \/ /\ items[id].status \in {"pending", "approved"}
         /\ ~Claimed(id)
         /\ expireLocked(items[id]).status = "expired"
  BY <1>1, <1>2, EntryFacts
<1>5. purgeLocked(items[id]) = NoApproval \/ purgeLocked(items[id]) = items[id]
  BY DEF purgeLocked
<1> QED
  BY <1>1, <1>3, <1>4, <1>5

\* Steps that leave entries, grants and names alone, and give up no claim but
\* to an entry that is still approved or gone, stutter or lapse.
LEMMA StepSimulation == IInv /\ IInv' /\ [Next]_vars =>
                           [Abstract!SpecNext]_(Abstract!specVars)
<1> USE NamesAssumption, BoundsAssumption
<1> SUFFICES ASSUME IInv, IInv', [Next]_vars
             PROVE  [Abstract!SpecNext]_(Abstract!specVars)
  OBVIOUS
<1>t. TypeOK /\ TypeOK'
  BY DEF IInv
<1>l. ASSUME \A id \in Ids : LapseOf(id),
             requester' = requester, approver' = approver, granted' = granted
      PROVE  Abstract!SpecNext
  BY <1>t, <1>l, LapseStep DEF Abstract!SpecNext
\* A step that keeps every entry and only moves p, which may give up its claim.
<1>m. ASSUME NEW p \in Pollers, poll[p].pc # "idle",
             items' = items, used' = used, granted' = granted,
             requester' = requester, approver' = approver,
             \A q \in Pollers : /\ poll'[q].id = poll[q].id
                                /\ q # p => poll'[q] = poll[q],
             poll'[p].pc \in {"claimed", "sent", "signed"} =>
                poll[p].pc \in {"claimed", "sent", "signed"}
      PROVE  Abstract!SpecNext
  <2>1. ASSUME NEW id \in Ids
        PROVE  LapseOf(id)
    <3>1. Claimed(id)' => Claimed(id)
      BY <1>m DEF Claimed
    <3>2. Claimed(id) => items'[id].status \in {"approved", "absent"}
      BY <1>m, ClaimedEntry
    <3> QED
      BY <1>m, <3>1, <3>2, PhaseStep
  <2> QED
    BY <1>m, <2>1, <1>l
<1>1. ASSUME NEW cn \in CNs, NEW id \in Ids, requireApproval(cn, id)
      PROVE  Abstract!SpecNext
  <2>1. /\ granted' = granted /\ approver' = approver /\ poll' = poll
        /\ requester' = [requester EXCEPT ![id] = cn]
        /\ used' = used \cup {id} /\ id \notin used
        /\ isSignCaller(cn)
    BY <1>1 DEF requireApproval
  <2>2. phaseOf(id) = "none" /\ ~Claimed(id) /\ \A g \in granted : g.id # id
    BY <2>1, ClaimedEntry DEF phaseOf, IInv, GrantInv
  <2>3. items'[id].status = "pending"
    BY <1>1 DEF requireApproval, NewApproval, NoApproval
  <2>4. phaseOf(id)' = "pending"
    BY <2>1, <2>2, <2>3 DEF phaseOf, Claimed
  <2>5. ASSUME NEW other \in Ids \ {id}
        PROVE  LapseOf(other)
    <3>1. items'[other] = purgeLocked(items[other])
      BY <1>1 DEF requireApproval
    <3>2. Claimed(other)' <=> Claimed(other)
      BY <2>1 DEF Claimed
    <3> QED
      BY <2>1, <3>1, <3>2, EntryLapses, PhaseStep
  <2>6. \A i \in Ids : phaseOf(i)' \in Abstract!Phases
    BY <1>t DEF phaseOf, Abstract!Phases, TypeOK, Approval, Status
  <2>7. Abstract!Ask(id, cn)
    BY <2>1, <2>2, <2>4, <2>5, <2>6 DEF Abstract!Ask, Abstract!MayLapse, LapseOf
  <2> QED
    BY <2>1, <2>7 DEF Abstract!SpecNext
<1>2. ASSUME NEW p \in Pollers, NEW cn \in CNs, NEW id \in Ids, PollGet(p, cn, id)
      PROVE  Abstract!SpecNext
  <2>1. /\ granted' = granted /\ approver' = approver /\ used' = used
        /\ requester' = requester
        /\ items' = [items EXCEPT ![id] = expireLocked(items[id])]
        /\ poll[p].pc = "idle" /\ poll'[p].pc \in {"idle", "got"}
        /\ \A q \in Pollers : q # p => poll'[q] = poll[q]
    BY <1>2, <1>t DEF PollGet, historyVars, TypeOK, IdlePoll
  <2>2. ASSUME NEW i \in Ids
        PROVE  LapseOf(i)
    <3>1. items'[i] \in {items[i], expireLocked(items[i])}
      BY <1>t, <2>1 DEF TypeOK
    <3>2. Claimed(i)' <=> Claimed(i)
      BY <2>1 DEF Claimed
    <3> QED
      BY <2>1, <3>1, <3>2, EntryLapses, PhaseStep
  <2> QED
    BY <2>1, <2>2, <1>l
<1>3. ASSUME NEW p \in Pollers, PollClaim(p)
      PROVE  Abstract!SpecNext
  <2> DEFINE id == poll[p].id
             e == expireLocked(items[id])
  <2>1. /\ granted' = granted /\ approver' = approver /\ used' = used
        /\ requester' = requester
        /\ id \in Ids
        /\ items' = [items EXCEPT ![id] = BeginConsume(items[id])]
        /\ poll[p].pc = "got"
        /\ \A q \in Pollers : q # p => poll'[q] = poll[q]
        /\ poll'[p] = IF ClaimReply(items[id]) = "none"
                      THEN [poll[p] EXCEPT !.pc = "claimed"] ELSE IdlePoll
    BY <1>3, <1>t DEF PollClaim, historyVars, TypeOK, IInv, PollInv
  <2>2. BeginConsume(items[id]).status = e.status /\ items[id] \in Approval
    BY <1>t, <2>1, EntryTypes DEF BeginConsume, TypeOK, Approval
  <2>3. ClaimReply(items[id]) = "none" => items[id].status = "approved"
    BY <2>1, <2>2, EntryFacts DEF ClaimReply, BeginConsume, Claimable
  <2>4. ASSUME NEW i \in Ids
        PROVE  LapseOf(i)
    <3>1. items'[i].status \in {items[i].status, expireLocked(items[i]).status}
      BY <1>t, <2>1, <2>2 DEF TypeOK
    <3>2. Claimed(i) => Claimed(i)'
      BY <2>1 DEF Claimed
    <3>3. Claimed(i)' => Claimed(i) \/ items[i].status = "approved"
      BY <1>t, <2>1, <2>3 DEF Claimed, IdlePoll, TypeOK, PollState
    <3> QED
      BY <2>1, <3>1, <3>2, <3>3, EntryLapses, PhaseStep
  <2> QED
    BY <2>1, <2>4, <1>l
<1>4. ASSUME NEW p \in Pollers,
             \/ PollForward(p) \/ PollSignerFails(p) \/ PollSignerIssues(p)
             \/ PollLosesAnswer(p)
      PROVE  Abstract!SpecNext
  <2>1. /\ items' = items /\ used' = used /\ granted' = granted
        /\ requester' = requester /\ approver' = approver
        /\ poll[p].pc \in {"claimed", "sent", "signed"}
    BY <1>4 DEF PollForward, PollSignerFails, PollSignerIssues, PollLosesAnswer,
                registryVars, historyVars
  <2>2. \A q \in Pollers : /\ poll'[q].id = poll[q].id
                           /\ q # p => poll'[q] = poll[q]
    BY <1>4, <1>t DEF PollForward, PollSignerFails, PollSignerIssues,
                      PollLosesAnswer, TypeOK, PollState
  <2> QED
    BY <2>1, <2>2, <1>m
<1>5. ASSUME NEW p \in Pollers, PollGrant(p)
      PROVE  Abstract!SpecNext
  <2>0. PICK id \in Ids : id = poll[p].id
    BY <1>5, <1>t DEF PollGrant, IInv, PollInv, TypeOK
  <2> DEFINE g == [id |-> id, n |-> poll[p].n, to |-> poll[p].cn, by |-> poll[p].by]
  <2>1. /\ items' = items /\ used' = used /\ granted' = granted \cup {g}
        /\ requester' = requester /\ approver' = approver
        /\ poll[p].pc = "signed"
        /\ poll' = [poll EXCEPT ![p].pc = "burn"]
    BY <1>5, <2>0 DEF PollGrant, registryVars, historyVars
  <2>2. /\ id \in used
        /\ poll[p].cn = requester[id] /\ poll[p].by = approver[id]
    BY <1>t, <2>0, <2>1 DEF IInv, PollInv, TypeOK
  <2>3. Claimed(id)
    BY <2>0, <2>1 DEF Claimed
  <2>6. g.id = id /\ g.to = requester[id] /\ g.by = approver[id] /\ g \in granted'
    BY <2>1, <2>2
  <2>4. phaseOf(id) = "approved" /\ phaseOf(id)' = "used"
    <3>1. phaseOf(id) = "approved"
      BY <2>2, <2>3, ClaimedEntry DEF phaseOf
    <3>2. \E h \in granted' : h.id = id
      BY <2>6
    <3> QED
      BY <3>1, <3>2 DEF phaseOf
  <2>5. ASSUME NEW i \in Ids, i # id
        PROVE  phaseOf(i)' = phaseOf(i)
    <3>1. Claimed(i)' <=> Claimed(i)
      BY <1>t, <2>0, <2>1, <2>5 DEF Claimed, TypeOK, PollState
    <3>2. (\E h \in granted' : h.id = i) <=> (\E h \in granted : h.id = i)
      BY <2>1, <2>5
    <3> QED
      BY <2>1, <3>1, <3>2 DEF phaseOf
  <2>7. absPhase' = [absPhase EXCEPT ![id] = "used"]
    BY <2>2, <2>4, <2>5 DEF absPhase
  <2>8. Abstract!Use(id)
    BY <2>1, <2>2, <2>4, <2>6, <2>7 DEF Abstract!Use, absPhase
  <2> QED
    BY <2>2, <2>8 DEF Abstract!SpecNext
<1>6. ASSUME NEW p \in Pollers, PollFinish(p)
      PROVE  Abstract!SpecNext
  <2>1. /\ granted' = granted /\ approver' = approver /\ used' = used
        /\ requester' = requester
        /\ poll[p].pc \in {"release", "burn"} /\ poll'[p].pc = "idle"
        /\ \A q \in Pollers : q # p => poll'[q] = poll[q]
    BY <1>6, <1>t DEF PollFinish, historyVars, TypeOK, IdlePoll
  <2>2. ASSUME NEW i \in Ids
        PROVE  LapseOf(i)
    <3>1. items'[i].status = items[i].status
      BY <1>6, <1>t DEF PollFinish, FinishConsume, TypeOK, Approval
    <3>2. Claimed(i)' <=> Claimed(i)
      BY <2>1 DEF Claimed
    <3> QED
      BY <2>1, <3>1, <3>2, PhaseStep
  <2> QED
    BY <2>1, <2>2, <1>l
<1>7. ASSUME NEW d \in Deciders, NEW cn \in CNs, NEW id \in Ids,
             NEW approve \in BOOLEAN, NEW learn \in BOOLEAN,
             DecideCheck(d, cn, id, approve, learn)
      PROVE  Abstract!SpecNext
  <2>1. /\ granted' = granted /\ approver' = approver /\ used' = used
        /\ requester' = requester /\ poll' = poll
        /\ items' = [items EXCEPT ![id] = expireLocked(items[id])]
    BY <1>7 DEF DecideCheck, historyVars
  <2>2. ASSUME NEW i \in Ids
        PROVE  LapseOf(i)
    <3>1. items'[i] \in {items[i], expireLocked(items[i])}
      BY <1>t, <2>1 DEF TypeOK
    <3>2. Claimed(i)' <=> Claimed(i)
      BY <2>1 DEF Claimed
    <3> QED
      BY <2>1, <3>1, <3>2, EntryLapses, PhaseStep
  <2> QED
    BY <2>1, <2>2, <1>l
<1>8. ASSUME NEW d \in Deciders, DecideApply(d)
      PROVE  Abstract!SpecNext
  <2>0. PICK id \in Ids, r \in DecideState : id = decide[d].id /\ r = decide[d]
    BY <1>8, <1>t DEF DecideApply, IInv, DecideInv, TypeOK
  <2> DEFINE e == expireLocked(items[id])
  <2>1. /\ granted' = granted /\ used' = used /\ requester' = requester
        /\ poll' = poll
        /\ id \in used
        /\ r.cn \in approveCN
        /\ items[id].status # "absent" => items[id].caller # r.cn
    BY <1>8, <2>0 DEF DecideApply, IInv, DecideInv
  <2>2. \A i \in Ids : Claimed(i)' <=> Claimed(i)
    BY <2>1 DEF Claimed
  <2>3. CASE ~Decidable(e)
    <3>1. approver' = approver /\ items' = [items EXCEPT ![id] = e]
      BY <1>8, <2>0, <2>3 DEF DecideApply
    <3>2. ASSUME NEW i \in Ids
          PROVE  LapseOf(i)
      <4>1. items'[i] \in {items[i], expireLocked(items[i])}
        BY <1>t, <3>1 DEF TypeOK
      <4> QED
        BY <2>1, <2>2, <4>1, EntryLapses, PhaseStep
    <3> QED
      BY <2>1, <3>1, <3>2, <1>l
  <2>4. CASE Decidable(e)
    <3>1. items' = [items EXCEPT ![id] = Decided(e, r.cn, r.approve, r.learn)]
      BY <1>8, <2>0, <2>4 DEF DecideApply
    <3>2. /\ items[id] \in Approval /\ e = items[id]
          /\ items[id].status = "pending"
      BY <1>t, <2>1, <2>4, EntryFacts DEF Decidable, TypeOK
    <3>3. /\ ~Claimed(id)
          /\ \A g \in granted : g.id # id
          /\ items[id].caller = requester[id]
      BY <2>1, <3>2, ClaimedEntry DEF IInv, GrantInv, ItemsInv
    <3>4. phaseOf(id) = "pending"
      BY <2>1, <3>2, <3>3 DEF phaseOf
    <3>5. items'[id].status = IF r.approve THEN "approved" ELSE "denied"
      BY <1>t, <2>1, <3>1, <3>2 DEF Decided, TypeOK, Approval
    <3>6. phaseOf(id)' = IF r.approve THEN "approved" ELSE "denied"
      BY <2>1, <2>2, <3>3, <3>5 DEF phaseOf
    <3>7. \A i \in Ids : i # id => phaseOf(i)' = phaseOf(i)
      BY <1>t, <2>1, <2>2, <3>1 DEF phaseOf, TypeOK
    <3>8. absPhase' = [absPhase EXCEPT ![id] =
                          IF r.approve THEN "approved" ELSE "denied"]
      BY <2>1, <3>6, <3>7 DEF absPhase
    <3>9. approver' = IF r.approve THEN [approver EXCEPT ![id] = r.cn] ELSE approver
      BY <1>8, <2>0, <2>4 DEF DecideApply
    <3>10. CASE r.approve
      <4>1. Abstract!Approve(id, r.cn)
        BY <2>1, <3>2, <3>3, <3>4, <3>8, <3>9, <3>10 DEF Abstract!Approve, absPhase
      <4> QED
        BY <2>1, <4>1 DEF Abstract!SpecNext
    <3>11. CASE ~r.approve
      <4>1. Abstract!Deny(id)
        BY <2>1, <3>4, <3>8, <3>9, <3>11 DEF Abstract!Deny, absPhase
      <4> QED
        BY <2>1, <4>1 DEF Abstract!SpecNext
    <3> QED
      BY <3>10, <3>11
  <2> QED
    BY <2>3, <2>4
<1>9. CASE List
  <2>1. ASSUME NEW i \in Ids
        PROVE  LapseOf(i)
    <3>1. /\ items'[i] = expireLocked(purgeLocked(items[i]))
          /\ poll' = poll /\ used' = used /\ granted' = granted
      BY <1>9 DEF List
    <3>2. Claimed(i)' <=> Claimed(i)
      BY <3>1 DEF Claimed
    <3> QED
      BY <3>1, <3>2, EntryLapses, PhaseStep
  <2> QED
    BY <1>9, <2>1, <1>l DEF List, historyVars
<1>10. CASE Restart
  <2>1. ASSUME NEW i \in Ids
        PROVE  LapseOf(i)
    <3>1. /\ items'[i].status = "absent"
          /\ used' = used /\ granted' = granted
      BY <1>10 DEF Restart, NoApproval
    <3>2. ~Claimed(i)'
      BY <1>10 DEF Restart, Claimed, IdlePoll
    <3> QED
      BY <3>1, <3>2, PhaseStep
  <2> QED
    BY <1>10, <2>1, <1>l DEF Restart, historyVars
\* What the abstraction does not see.
<1>11. ASSUME items' = items, used' = used, poll' = poll, granted' = granted,
              requester' = requester, approver' = approver
       PROVE  UNCHANGED Abstract!specVars
  <2>1. absPhase' = absPhase
    BY <1>11 DEF absPhase, phaseOf, Claimed
  <2> QED
    BY <1>11, <2>1 DEF Abstract!specVars, absPhase
<1>12. CASE Tick \/ (\E f \in late : SignerLate(f)) \/ UNCHANGED vars
  BY <1>11, <1>12 DEF Tick, SignerLate, vars, registryVars, historyVars
<1> QED
  BY <1>1, <1>2, <1>3, <1>4, <1>5, <1>6, <1>7, <1>8, <1>9, <1>10, <1>12
  DEF Next, PollStep

\* The registry and its handlers implement the approval gate: asked once,
\* decided at most once and by somebody else, paid out at most once; a lapsed,
\* denied, forgotten or used request never comes back.
THEOREM Refinement == Spec => ImplementsApprovalSpec
<1>1. Init => Abstract!SpecInit
  BY DEF Init, Abstract!SpecInit, phaseOf
<1>2. IInv /\ IInv' /\ [Next]_vars => [Abstract!SpecNext]_(Abstract!specVars)
  BY StepSimulation
<1> QED
  BY <1>1, <1>2, Invariance, PTL DEF Spec, ImplementsApprovalSpec, Abstract!Spec

-----------------------------------------------------------------------------
(* The broker's calls (ApprovalFlow).  A call has an identifier of its own *)
(* and forwards it at most once: after a forward the call never waits for  *)
(* another poll, although the registry would allow one.                    *)

\* A call has a fresh identifier, and its handler serves that one only.
CallInv ==
    /\ call \in [Pollers -> CallState]
    /\ \A c \in Pollers :
          /\ call[c].pc # "idle" => call[c].id \in used /\ call[c].cn \in CNs
          /\ call[c].pc = "idle" => call[c].out = "none"
          /\ call[c].pc = "waiting" => poll[c].pc = "idle"
          /\ poll[c].pc # "idle" => call[c].pc # "idle" /\ poll[c].id = call[c].id
    /\ \A c, d \in Pollers :
          call[c].pc # "idle" /\ call[d].pc # "idle" /\ call[c].id = call[d].id => c = d

\* The forwards that the signer has executed, or may yet execute.
AtSigner == issued \cup late \cup {ForwardOf(p) : p \in {q \in Pollers : poll[q].pc = "sent"}}

\* There is one for an identifier, and none for a call that may still forward.
MayForward(c) == call[c].pc = "waiting" \/ poll[c].pc \in {"got", "claimed"}

SignerInv ==
    /\ \A f, g \in AtSigner : f.id = g.id => f = g
    /\ \A f \in AtSigner : f.id \in used
    /\ \A f \in AtSigner, c \in Pollers : call[c].id = f.id => ~MayForward(c)

\* A handler that burns the approval has handed out the certificate.
BurnInv == \A p \in Pollers : poll[p].pc = "burn" => \E g \in granted : g.id = poll[p].id

FlowIInv == IInv /\ CallInv /\ SignerInv /\ BurnInv /\ ToldTheTruth

\* A call that ends keeps its request.
LEMMA EndFacts ==
    ASSUME CallInv, NEW c \in Pollers, NEW out \in Outcome
    PROVE  /\ End(c, out) \in CallState
           /\ End(c, out).pc = "done" /\ End(c, out).out = out
           /\ End(c, out).id = call[c].id /\ End(c, out).cn = call[c].cn
BY DEF End, CallInv, CallState

\* What an answer does to a call: nothing once it has ended; otherwise it waits,
\* for the next poll or for this one, or ends with the answer as its outcome.
LEMMA AnswerFacts ==
    ASSUME CallInv, NEW c \in Pollers,
           NEW answer \in Outcome \cup {"pending", "issuing"}, Answer(c, answer)
    PROVE  /\ call' \in [Pollers -> CallState]
           /\ \A d \in Pollers : d # c => call'[d] = call[d]
           /\ call'[c].id = call[c].id /\ call'[c].cn = call[c].cn
           /\ call[c].pc = "done" => call'[c] = call[c]
           /\ call[c].pc # "idle" => call'[c].pc # "idle"
           /\ call'[c].pc = "waiting" => answer \in {"pending", "issuing"}
           /\ call'[c].out = call[c].out \/ (call'[c].out = answer /\ call'[c].pc = "done")
<1>1. call \in [Pollers -> CallState] /\ call[c] \in CallState
  BY DEF CallInv
<1>2. CASE call[c].pc = "done"
  BY <1>1, <1>2 DEF Answer
<1>3. CASE call[c].pc # "done"
  <2> DEFINE v == AfterAnswer(c, answer)
  <2>1. /\ v \in CallState /\ v.id = call[c].id /\ v.cn = call[c].cn /\ v.pc # "idle"
        /\ v.pc = "waiting" => answer \in {"pending", "issuing"}
        /\ v.out = call[c].out \/ (v.out = answer /\ v.pc = "done")
    <3>1. CASE answer \in {"pending", "issuing"}
      <4>1. v = [call[c] EXCEPT !.pc = "waiting"]
        BY <3>1 DEF AfterAnswer
      <4> HIDE DEF v
      <4> QED
        BY <1>1, <3>1, <4>1 DEF CallState
    <3>2. CASE answer = "none"
      <4>1. v = [call[c] EXCEPT !.pc = "polling"]
        BY <3>2 DEF AfterAnswer
      <4> HIDE DEF v
      <4> QED
        BY <1>1, <3>2, <4>1 DEF CallState
    <3>3. CASE answer \notin {"pending", "issuing", "none"}
      <4>1. v = End(c, answer) /\ answer \in Outcome
        BY <3>3 DEF AfterAnswer
      <4> HIDE DEF v
      <4> QED
        BY <4>1, EndFacts
    <3> QED
      BY <3>1, <3>2, <3>3
  <2> HIDE DEF v
  <2>2. call' = [call EXCEPT ![c] = v]
    BY <1>3 DEF Answer, v
  <2> QED
    BY <1>1, <1>3, <2>1, <2>2
<1> QED
  BY <1>2, <1>3

\* Every step of the composition is one of the control plane's, or none of its.
LEMMA FlowSimulation ==
    ASSUME TypeOK, CallInv, [FlowNext]_flowVars
    PROVE  [Next]_vars
<1>1. ASSUME NEW c \in Pollers, Wake(c) PROVE [Next]_vars
  <2>1. CASE UNCHANGED vars
    BY <2>1
  <2>2. CASE PollGet(c, call[c].cn, call[c].id)
    <3>1. call[c].cn \in CNs /\ call[c].id \in Ids
      BY <1>1 DEF Wake, CallInv, TypeOK
    <3> QED
      BY <2>2, <3>1 DEF Next
  <2> QED
    BY <1>1, <2>1, <2>2 DEF Wake
<1>2. ASSUME NEW c \in Pollers, HandlerStep(c) PROVE [Next]_vars
  BY <1>2 DEF HandlerStep, FlowClaim, FlowFinish, PollStep, Next
<1>3. ASSUME NEW c \in Pollers, NEW cn \in CNs, NEW id \in Ids, NEW wait \in approvalWaits,
             NEW arrives \in BOOLEAN, StartCall(c, cn, id, wait, arrives)
      PROVE  [Next]_vars
  BY <1>3 DEF StartCall, Next
<1>4. ASSUME NEW c \in Pollers, HangUp(c) PROVE [Next]_vars
  BY <1>4 DEF HangUp
<1>5. CASE FlowRestart
  BY <1>5 DEF FlowRestart, Next
<1>6. CASE Human
  BY <1>6 DEF Human, Next
<1>7. CASE List \/ Tick \/ \E f \in late : SignerLate(f)
  BY <1>7 DEF Next
<1>8. CASE UNCHANGED flowVars
  BY <1>8 DEF flowVars
<1> QED
  BY <1>1, <1>2, <1>3, <1>4, <1>5, <1>6, <1>7, <1>8 DEF FlowNext

\* The answers of Get and of the claim; a poll goes on exactly when there is none.
LEMMA ReplyTypes ==
    /\ \A a \in Approval : \A cn : GetReply(a, cn) \in Outcome \cup {"pending", "issuing"}
    /\ \A a : ClaimReply(a) \in Outcome \cup {"pending", "issuing"}
BY DEF GetReply, ClaimReply, Outcome, Approval, Status

\* The poll of a handler that is served.
LEMMA GetFacts ==
    ASSUME TypeOK, NEW c \in Pollers, NEW cn \in CNs, NEW id \in Ids, PollGet(c, cn, id)
    PROVE  /\ UNCHANGED <<used, decide, now, sentRPCs, late, issued, granted, requester, approver>>
           /\ poll[c].pc = "idle"
           /\ \A d \in Pollers : d # c => poll'[d] = poll[d]
           /\ items' = [items EXCEPT ![id] = expireLocked(items[id])]
           /\ IF GetReply(expireLocked(items[id]), cn) = "none"
              THEN poll'[c].pc = "got" /\ poll'[c].id = id
              ELSE poll'[c].pc = "idle"
BY DEF PollGet, TypeOK, IdlePoll, signerVars, historyVars

\* The claim.
LEMMA ClaimFacts ==
    ASSUME TypeOK, NEW c \in Pollers, PollClaim(c)
    PROVE  /\ UNCHANGED <<used, decide, now, sentRPCs, late, issued, granted, requester, approver>>
           /\ poll[c].pc = "got"
           /\ \A d \in Pollers : d # c => poll'[d] = poll[d]
           /\ items' = [items EXCEPT ![poll[c].id] = BeginConsume(items[poll[c].id])]
           /\ IF ClaimReply(items[poll[c].id]) = "none"
              THEN poll'[c].pc = "claimed" /\ poll'[c].id = poll[c].id
              ELSE poll'[c].pc = "idle"
BY DEF PollClaim, TypeOK, IdlePoll, PollState, signerVars, historyVars

\* The end of a poll.
LEMMA FinishFacts ==
    ASSUME TypeOK, NEW c \in Pollers, PollFinish(c)
    PROVE  /\ UNCHANGED <<used, decide, now, sentRPCs, late, issued, granted, requester, approver>>
           /\ poll[c].pc \in {"release", "burn"} /\ poll'[c].pc = "idle"
           /\ \A d \in Pollers : d # c => poll'[d] = poll[d]
           /\ items' = [items EXCEPT ![poll[c].id] =
                           FinishConsume(items[poll[c].id], poll[c].pc = "burn")]
BY DEF PollFinish, TypeOK, IdlePoll, signerVars, historyVars

\* What lies between the claim and the end of a poll.
Forwarding(c) ==
    \/ PollForward(c) \/ PollSignerFails(c) \/ PollSignerIssues(c)
    \/ PollLosesAnswer(c) \/ PollGrant(c)

\* It leaves the registry alone.
LEMMA ForwardingFacts ==
    ASSUME TypeOK, NEW c \in Pollers, Forwarding(c)
    PROVE  /\ UNCHANGED <<items, used, decide, now, requester, approver>>
           /\ poll[c].pc \in {"claimed", "sent", "signed"}
           /\ poll'[c].pc \in {"sent", "signed", "release", "burn"}
           /\ poll'[c].id = poll[c].id
           /\ \A d \in Pollers : d # c => poll'[d] = poll[d]
<1> USE DEF TypeOK, PollState, registryVars, signerVars, historyVars
<1>1. CASE PollForward(c)
  <2>1. CASE items[poll[c].id].status = "absent"
    BY <1>1, <2>1 DEF PollForward
  <2>2. CASE items[poll[c].id].status # "absent"
    <3> DEFINE v == [poll[c] EXCEPT !.pc = "sent", !.n = sentRPCs[poll[c].id] + 1]
    <3>1. v.pc = "sent" /\ v.id = poll[c].id
      OBVIOUS
    <3>2. /\ poll' = [poll EXCEPT ![c] = v] /\ poll[c].pc = "claimed"
          /\ UNCHANGED <<items, used, decide, now, requester, approver>>
      BY <1>1, <2>2 DEF PollForward
    <3> HIDE DEF v
    <3> QED
      BY <3>1, <3>2
  <2> QED
    BY <2>1, <2>2
<1>2. CASE PollSignerFails(c)
  BY <1>2 DEF PollSignerFails
<1>3. CASE PollSignerIssues(c)
  BY <1>3 DEF PollSignerIssues
<1>4. CASE PollLosesAnswer(c)
  BY <1>4 DEF PollLosesAnswer
<1>5. CASE PollGrant(c)
  BY <1>5 DEF PollGrant
<1> QED
  BY <1>1, <1>2, <1>3, <1>4, <1>5 DEF Forwarding

\* A step of one call and of its handler keeps CallInv if it keeps the identifier.
LEMMA CallKeeps ==
    ASSUME CallInv, NEW c \in Pollers, UNCHANGED used, call' \in [Pollers -> CallState],
           \A d \in Pollers : d # c => call'[d] = call[d] /\ poll'[d] = poll[d],
           call[c].pc # "idle", call'[c].pc # "idle",
           call'[c].id = call[c].id, call'[c].cn = call[c].cn,
           call'[c].pc = "waiting" => poll'[c].pc = "idle",
           poll'[c].pc # "idle" => poll'[c].id = call[c].id
    PROVE  CallInv'
BY DEF CallInv

\* Every step keeps the calls apart.
LEMMA CallStep ==
    ASSUME TypeOK, CallInv, [FlowNext]_flowVars
    PROVE  CallInv'
<1> USE NamesAssumption, BoundsAssumption
<1>1. ASSUME NEW c \in Pollers, NEW cn \in CNs, NEW id \in Ids, NEW wait \in approvalWaits,
             NEW arrives \in BOOLEAN, StartCall(c, cn, id, wait, arrives)
      PROVE  CallInv'
  <2> DEFINE v == [pc |-> IF arrives /\ wait > 0 THEN "waiting" ELSE "done",
                   cn |-> cn, id |-> id, deadline |-> now + wait,
                   out |-> IF ~arrives THEN "hangup"
                           ELSE IF wait > 0 THEN "none" ELSE "nowait"]
  <2>1. v \in CallState /\ v.pc # "idle" /\ v.id = id /\ v.cn = cn
    BY WaitAssumption DEF CallState, Outcome, TypeOK
  <2>2. call' = [call EXCEPT ![c] = v] /\ poll[c].pc = "idle"
    BY <1>1 DEF StartCall
  <2>3. id \notin used /\ used' = used \cup {id} /\ poll' = poll
    BY <1>1 DEF StartCall, requireApproval
  <2> HIDE DEF v
  <2>4. call' \in [Pollers -> CallState] /\ call'[c] = v
        /\ \A d \in Pollers : d # c => call'[d] = call[d]
    BY <2>1, <2>2 DEF CallInv
  <2> QED
    BY <2>1, <2>2, <2>3, <2>4 DEF CallInv
<1>2. ASSUME NEW c \in Pollers, UNCHANGED vars, call[c].pc \in {"waiting", "polling"},
             NEW out \in Outcome, call' = [call EXCEPT ![c] = End(c, out)]
      PROVE  CallInv'
  <2>1. /\ call' \in [Pollers -> CallState] /\ call'[c] = End(c, out)
        /\ \A d \in Pollers : d # c => call'[d] = call[d]
    BY <1>2, EndFacts DEF CallInv
  <2>2. poll' = poll /\ used' = used
    BY <1>2 DEF vars
  <2> QED
    BY <1>2, <2>1, <2>2, EndFacts, CallKeeps DEF CallInv
<1>3. ASSUME NEW c \in Pollers, HangUp(c) PROVE CallInv'
  BY <1>2, <1>3 DEF HangUp, Outcome
<1>4. ASSUME NEW c \in Pollers, Wake(c) PROVE CallInv'
  <2> DEFINE cn == call[c].cn
             id == call[c].id
  <2>1. CASE UNCHANGED vars /\ call' = [call EXCEPT ![c] = End(c, "deadline")]
    BY <1>2, <1>4, <2>1 DEF Wake, Outcome
  <2>2. CASE PollGet(c, cn, id) /\ Answer(c, GetReply(expireLocked(items[id]), cn))
    <3>1. cn \in CNs /\ id \in Ids /\ call[c].pc = "waiting"
      BY <1>4 DEF Wake, CallInv, TypeOK
    <3>2. expireLocked(items[id]) \in Approval
      BY <3>1, EntryTypes DEF TypeOK
    <3> DEFINE r == GetReply(expireLocked(items[id]), cn)
    <3>3. r \in Outcome \cup {"pending", "issuing"}
      BY <3>2, ReplyTypes
    <3>4. /\ used' = used /\ \A d \in Pollers : d # c => poll'[d] = poll[d]
          /\ IF r = "none" THEN poll'[c].pc = "got" /\ poll'[c].id = id
             ELSE poll'[c].pc = "idle"
      BY <2>2, <3>1, GetFacts
    <3>5. /\ call' \in [Pollers -> CallState]
          /\ \A d \in Pollers : d # c => call'[d] = call[d]
          /\ call'[c].id = call[c].id /\ call'[c].cn = call[c].cn
          /\ call[c].pc # "idle" => call'[c].pc # "idle"
          /\ call'[c].pc = "waiting" => r \in {"pending", "issuing"}
      BY <2>2, <3>3, AnswerFacts
    <3> HIDE DEF r
    <3> QED
      BY <3>1, <3>4, <3>5, CallKeeps
  <2> QED
    BY <1>4, <2>1, <2>2 DEF Wake
<1>5. ASSUME NEW c \in Pollers, HandlerStep(c) PROVE CallInv'
  <2>1. CASE FlowClaim(c)
    <3> DEFINE r == ClaimReply(items[poll[c].id])
    <3>1. PollClaim(c) /\ Answer(c, r) /\ r \in Outcome \cup {"pending", "issuing"}
      BY <2>1, ReplyTypes DEF FlowClaim
    <3>2. /\ used' = used /\ poll[c].pc = "got"
          /\ \A d \in Pollers : d # c => poll'[d] = poll[d]
          /\ IF r = "none" THEN poll'[c].pc = "claimed" /\ poll'[c].id = poll[c].id
             ELSE poll'[c].pc = "idle"
      BY <3>1, ClaimFacts
    <3>3. call[c].pc # "idle" /\ poll[c].id = call[c].id
      BY <3>2 DEF CallInv
    <3>4. /\ call' \in [Pollers -> CallState]
          /\ \A d \in Pollers : d # c => call'[d] = call[d]
          /\ call'[c].id = call[c].id /\ call'[c].cn = call[c].cn
          /\ call[c].pc # "idle" => call'[c].pc # "idle"
          /\ call'[c].pc = "waiting" => r \in {"pending", "issuing"}
      BY <3>1, AnswerFacts
    <3> HIDE DEF r
    <3> QED
      BY <3>2, <3>3, <3>4, CallKeeps
  <2>2. CASE FlowFinish(c)
    <3>1. PICK r \in {"granted", "failed"} : Answer(c, r)
      BY <2>2 DEF FlowFinish
    <3>2. r \in Outcome \cup {"pending", "issuing"}
      BY DEF Outcome
    <3>3. /\ used' = used /\ poll[c].pc # "idle" /\ poll'[c].pc = "idle"
          /\ \A d \in Pollers : d # c => poll'[d] = poll[d]
      BY <2>2, FinishFacts DEF FlowFinish
    <3>4. /\ call' \in [Pollers -> CallState]
          /\ \A d \in Pollers : d # c => call'[d] = call[d]
          /\ call'[c].id = call[c].id /\ call'[c].cn = call[c].cn
          /\ call[c].pc # "idle" => call'[c].pc # "idle"
      BY <3>1, <3>2, AnswerFacts
    <3>5. call[c].pc # "idle"
      BY <3>3 DEF CallInv
    <3> QED
      BY <3>3, <3>4, <3>5, CallKeeps
  <2>3. CASE Forwarding(c) /\ UNCHANGED call
    <3>1. /\ used' = used /\ poll[c].pc # "idle" /\ poll'[c].id = poll[c].id
          /\ \A d \in Pollers : d # c => poll'[d] = poll[d]
      BY <2>3, ForwardingFacts
    <3>2. call[c].pc \notin {"idle", "waiting"} /\ poll[c].id = call[c].id
      BY <3>1 DEF CallInv
    <3> QED
      BY <2>3, <3>1, <3>2, CallKeeps DEF CallInv
  <2> QED
    BY <1>5, <2>1, <2>2, <2>3 DEF HandlerStep, Forwarding
<1>6. CASE FlowRestart
  <2>1. /\ \A c \in Pollers : poll'[c].pc = "idle"
        /\ used' = used
    BY <1>6 DEF FlowRestart, Restart, IdlePoll
  <2>2. ASSUME NEW c \in Pollers
        PROVE  /\ call'[c] \in CallState
               /\ call'[c].id = call[c].id /\ call'[c].cn = call[c].cn
               /\ call'[c] = call[c] \/ (call[c].pc = "polling" /\ call'[c].pc = "done")
    <3>1. call'[c] = IF call[c].pc = "polling" THEN End(c, "hangup") ELSE call[c]
      BY <1>6 DEF FlowRestart
    <3>2. "hangup" \in Outcome /\ call[c] \in CallState
      BY DEF Outcome, CallInv
    <3> QED
      BY <3>1, <3>2, EndFacts
  <2>3. call' \in [Pollers -> CallState]
    <3>1. call' = [c \in Pollers |-> call'[c]]
      BY <1>6 DEF FlowRestart
    <3> QED
      BY <2>2, <3>1
  <2> QED
    BY <2>1, <2>2, <2>3 DEF CallInv
<1>7. ASSUME UNCHANGED <<used, poll, call>> PROVE CallInv'
  BY <1>7 DEF CallInv
<1>8. CASE (Human \/ List \/ Tick \/ \E f \in late : SignerLate(f)) /\ UNCHANGED call
  <2>1. UNCHANGED <<used, poll>>
    BY <1>8 DEF Human, DecideCheck, DecideApply, List, Tick, SignerLate, registryVars
  <2> QED
    BY <1>7, <1>8, <2>1
<1>9. CASE UNCHANGED flowVars
  BY <1>7, <1>9 DEF flowVars, vars
<1> QED
  BY <1>1, <1>3, <1>4, <1>5, <1>6, <1>8, <1>9 DEF FlowNext

\* A step that sends no forward, and lets no call forward that could not before.
LEMMA SignerKeeps ==
    ASSUME SignerInv, AtSigner' \subseteq AtSigner, used \subseteq used',
           \A c \in Pollers : MayForward(c)' =>
               \/ call'[c].id \notin used
               \/ call'[c].id = call[c].id /\ MayForward(c)
    PROVE  SignerInv'
<1>1. ASSUME NEW f \in AtSigner', NEW c \in Pollers, call'[c].id = f.id, MayForward(c)'
      PROVE  FALSE
  <2>1. f \in AtSigner /\ f.id \in used
    BY DEF SignerInv
  <2>2. call[c].id = f.id /\ MayForward(c)
    BY <1>1, <2>1
  <2> QED
    BY <2>1, <2>2 DEF SignerInv
<1>2. \A f, g \in AtSigner' : f.id = g.id => f = g
  BY DEF SignerInv
<1>3. \A f \in AtSigner' : f.id \in used'
  BY DEF SignerInv
<1> QED
  BY <1>1, <1>2, <1>3 DEF SignerInv

\* Nothing is sent while the handlers in contact with the signer stay where they are.
LEMMA SignerSame ==
    ASSUME UNCHANGED <<issued, late>>,
           \A p \in Pollers : poll'[p].pc = "sent" => poll'[p] = poll[p]
    PROVE  AtSigner' \subseteq AtSigner
BY DEF AtSigner, ForwardOf

\* A forward answered, refused or given up on is no new forward.
LEMMA SignerAnswers ==
    ASSUME TypeOK, NEW c \in Pollers,
           PollSignerFails(c) \/ PollSignerIssues(c) \/ PollLosesAnswer(c) \/ PollGrant(c)
    PROVE  AtSigner' \subseteq AtSigner
<1>1. /\ poll'[c].pc # "sent" /\ poll[c].pc \in {"sent", "signed"}
      /\ \A d \in Pollers : d # c => poll'[d] = poll[d]
      /\ issued' \cup late' \subseteq
            issued \cup late \cup (IF poll[c].pc = "sent" THEN {ForwardOf(c)} ELSE {})
  BY DEF PollSignerFails, PollSignerIssues, PollLosesAnswer, PollGrant, signerVars,
         TypeOK, PollState
<1>2. \A d \in Pollers : poll'[d].pc = "sent" => poll[d].pc = "sent" /\ ForwardOf(d)' = ForwardOf(d)
  BY <1>1 DEF ForwardOf
<1> QED
  BY <1>1, <1>2 DEF AtSigner

\* At most one forward per request: the step that sends one finds none, and leaves a
\* call that never forwards again.
LEMMA SignerStep ==
    ASSUME TypeOK, CallInv, CallInv', SignerInv, [FlowNext]_flowVars
    PROVE  SignerInv'
<1> USE NamesAssumption, BoundsAssumption
<1>1. ASSUME NEW c \in Pollers, NEW cn \in CNs, NEW id \in Ids, NEW wait \in approvalWaits,
             NEW arrives \in BOOLEAN, StartCall(c, cn, id, wait, arrives)
      PROVE  SignerInv'
  <2>1. /\ UNCHANGED <<poll, issued, late>> /\ id \notin used /\ used' = used \cup {id}
    BY <1>1 DEF StartCall, requireApproval, signerVars
  <2>2. /\ \A d \in Pollers : d # c => call'[d] = call[d]
        /\ call'[c].id = id
    BY <1>1 DEF StartCall, CallInv
  <2>3. AtSigner' \subseteq AtSigner
    BY <2>1, SignerSame
  <2> QED
    BY <2>1, <2>2, <2>3, SignerKeeps DEF MayForward
<1>2. ASSUME NEW c \in Pollers, UNCHANGED vars, call[c].pc \in {"waiting", "polling"},
             NEW out \in Outcome, call' = [call EXCEPT ![c] = End(c, out)]
      PROVE  SignerInv'
  <2>1. UNCHANGED <<poll, issued, late, used>>
    BY <1>2 DEF vars
  <2>2. /\ \A d \in Pollers : d # c => call'[d] = call[d]
        /\ call'[c].id = call[c].id /\ call'[c].pc = "done"
    BY <1>2, EndFacts DEF CallInv
  <2>3. AtSigner' \subseteq AtSigner
    BY <2>1, SignerSame
  <2> QED
    BY <2>1, <2>2, <2>3, SignerKeeps DEF MayForward
<1>3. ASSUME NEW c \in Pollers, HangUp(c) PROVE SignerInv'
  BY <1>2, <1>3 DEF HangUp, Outcome
<1>4. ASSUME NEW c \in Pollers, Wake(c) PROVE SignerInv'
  <2> DEFINE cn == call[c].cn
             id == call[c].id
             r == GetReply(expireLocked(items[id]), cn)
  <2>1. CASE UNCHANGED vars /\ call' = [call EXCEPT ![c] = End(c, "deadline")]
    BY <1>2, <1>4, <2>1 DEF Wake, Outcome
  <2>2. CASE PollGet(c, cn, id) /\ Answer(c, r)
    <3>1. cn \in CNs /\ id \in Ids /\ call[c].pc = "waiting"
      BY <1>4 DEF Wake, CallInv, TypeOK
    <3>2. r \in Outcome \cup {"pending", "issuing"}
      BY <3>1, EntryTypes, ReplyTypes DEF TypeOK
    <3>3. /\ UNCHANGED <<used, issued, late>>
          /\ \A d \in Pollers : d # c => poll'[d] = poll[d]
          /\ poll'[c].pc # "sent"
      BY <2>2, <3>1, GetFacts
    <3>4. /\ \A d \in Pollers : d # c => call'[d] = call[d]
          /\ call'[c].id = call[c].id
      BY <2>2, <3>2, AnswerFacts
    <3>5. AtSigner' \subseteq AtSigner
      BY <3>3, SignerSame
    <3> QED
      BY <3>1, <3>3, <3>4, <3>5, SignerKeeps DEF MayForward
  <2> QED
    BY <1>4, <2>1, <2>2 DEF Wake
<1>5. ASSUME NEW c \in Pollers, FlowClaim(c) PROVE SignerInv'
  <2> DEFINE r == ClaimReply(items[poll[c].id])
  <2>1. PollClaim(c) /\ Answer(c, r) /\ r \in Outcome \cup {"pending", "issuing"}
    BY <1>5, ReplyTypes DEF FlowClaim
  <2>2. /\ UNCHANGED <<used, issued, late>> /\ poll[c].pc = "got"
        /\ \A d \in Pollers : d # c => poll'[d] = poll[d]
        /\ poll'[c].pc # "sent"
    BY <2>1, ClaimFacts
  <2>3. /\ \A d \in Pollers : d # c => call'[d] = call[d]
        /\ call'[c].id = call[c].id
    BY <2>1, AnswerFacts
  <2>4. AtSigner' \subseteq AtSigner
    BY <2>2, SignerSame
  <2> QED
    BY <2>2, <2>3, <2>4, SignerKeeps DEF MayForward
<1>6. ASSUME NEW c \in Pollers, FlowFinish(c) PROVE SignerInv'
  <2>1. PICK r \in {"granted", "failed"} : Answer(c, r)
    BY <1>6 DEF FlowFinish
  <2>2. r \in Outcome \cup {"pending", "issuing"}
    BY DEF Outcome
  <2>3. /\ UNCHANGED <<used, issued, late>> /\ poll'[c].pc = "idle"
        /\ \A d \in Pollers : d # c => poll'[d] = poll[d]
    BY <1>6, FinishFacts DEF FlowFinish
  <2>4. /\ \A d \in Pollers : d # c => call'[d] = call[d]
        /\ call'[c].id = call[c].id /\ call'[c].pc # "waiting"
    BY <2>1, <2>2, AnswerFacts
  <2>5. AtSigner' \subseteq AtSigner
    BY <2>3, SignerSame
  <2> QED
    BY <2>3, <2>4, <2>5, SignerKeeps DEF MayForward
<1>7. ASSUME NEW c \in Pollers, UNCHANGED call,
             PollSignerFails(c) \/ PollSignerIssues(c) \/ PollLosesAnswer(c) \/ PollGrant(c)
      PROVE  SignerInv'
  <2>1. Forwarding(c)
    BY <1>7 DEF Forwarding
  <2>2. /\ used' = used /\ \A d \in Pollers : d # c => poll'[d] = poll[d]
        /\ poll'[c].pc \notin {"got", "claimed"}
    BY <2>1, ForwardingFacts
  <2>3. AtSigner' \subseteq AtSigner
    BY <1>7, SignerAnswers
  <2> QED
    BY <1>7, <2>2, <2>3, SignerKeeps DEF MayForward
<1>8. ASSUME NEW c \in Pollers, UNCHANGED call, PollForward(c) PROVE SignerInv'
  <2>1. PICK id : id = poll[c].id
    OBVIOUS
  <2>2. /\ UNCHANGED <<used, issued, late>> /\ poll[c].pc = "claimed"
        /\ \A d \in Pollers : d # c => poll'[d] = poll[d]
        /\ poll'[c].pc \in {"sent", "signed", "release", "burn"} /\ poll'[c].id = id
    BY <1>8, <2>1, ForwardingFacts DEF Forwarding, PollForward
  <2>3. call[c].id = id /\ call[c].pc \notin {"idle", "waiting"} /\ id \in used
    BY <2>1, <2>2 DEF CallInv
  <2>4. \A f \in AtSigner : f.id # id
    BY <2>2, <2>3 DEF SignerInv, MayForward
  <2>5. \A f \in AtSigner' : f \in AtSigner \/ f = ForwardOf(c)'
    BY <2>2 DEF AtSigner, ForwardOf
  <2>6. ForwardOf(c)'.id = id
    BY <2>2 DEF ForwardOf
  <2>7. ~MayForward(c)'
    BY <1>8, <2>2, <2>3 DEF MayForward
  <2>8. \A d \in Pollers : d # c => (MayForward(d)' <=> MayForward(d)) /\ call'[d].id = call[d].id
    BY <1>8, <2>2 DEF MayForward
  <2>9. \A d \in Pollers : MayForward(d) /\ call[d].id = id => d = c
    BY <2>3 DEF CallInv, MayForward
  <2>10. ASSUME NEW f \in AtSigner', NEW d \in Pollers, call'[d].id = f.id
         PROVE  ~MayForward(d)'
    <3>1. CASE f \in AtSigner
      BY <2>7, <2>8, <2>10, <3>1 DEF SignerInv
    <3>2. CASE f.id = id
      BY <2>7, <2>8, <2>9, <2>10, <3>2
    <3> QED
      BY <2>5, <2>6, <3>1, <3>2
  <2>11. \A f \in AtSigner' : f.id \in used'
    BY <2>2, <2>3, <2>5, <2>6 DEF SignerInv
  <2>12. \A f, g \in AtSigner' : f.id = g.id => f = g
    BY <2>4, <2>5, <2>6 DEF SignerInv
  <2> QED
    BY <2>10, <2>11, <2>12 DEF SignerInv
<1>9. CASE FlowRestart
  <2>1. /\ \A c \in Pollers : poll'[c].pc = "idle"
        /\ UNCHANGED <<used, issued>>
        /\ late' = late \cup {ForwardOf(p) : p \in {q \in Pollers : poll[q].pc = "sent"}}
    BY <1>9 DEF FlowRestart, Restart, IdlePoll
  <2>2. AtSigner' \subseteq AtSigner
    BY <2>1 DEF AtSigner
  <2>3. \A c \in Pollers : call'[c].pc = "waiting" => call'[c] = call[c]
    BY <1>9, EndFacts DEF FlowRestart, Outcome
  <2> QED
    BY <2>1, <2>2, <2>3, SignerKeeps DEF MayForward
<1>10. ASSUME UNCHANGED <<used, poll, call>>, AtSigner' \subseteq AtSigner PROVE SignerInv'
  BY <1>10, SignerKeeps DEF MayForward
<1>11. CASE (\E f \in late : SignerLate(f)) /\ UNCHANGED call
  <2>1. /\ UNCHANGED <<used, poll>>
        /\ issued' \cup late' \subseteq issued \cup late
    BY <1>11 DEF SignerLate, registryVars
  <2>2. AtSigner' \subseteq AtSigner
    BY <2>1 DEF AtSigner, ForwardOf
  <2> QED
    BY <1>10, <1>11, <2>1, <2>2
<1>12. CASE ((Human \/ List \/ Tick) /\ UNCHANGED call) \/ UNCHANGED flowVars
  <2>1. UNCHANGED <<used, poll, issued, late, call>>
    BY <1>12 DEF Human, DecideCheck, DecideApply, List, Tick, registryVars, signerVars,
                 flowVars, vars
  <2>2. AtSigner' \subseteq AtSigner
    BY <2>1, SignerSame
  <2> QED
    BY <1>10, <2>1, <2>2
<1>13. ASSUME NEW c \in Pollers, HandlerStep(c) PROVE SignerInv'
  BY <1>5, <1>6, <1>7, <1>8, <1>13 DEF HandlerStep
<1> QED
  BY <1>1, <1>3, <1>4, <1>9, <1>11, <1>12, <1>13 DEF FlowNext

\* What cannot be used any more, no critical section of the registry revives.
LEMMA Unusable ==
    ASSUME TypeOK, NEW a \in Approval, ~Usable(a)
    PROVE  /\ ~Usable(expireLocked(a)) /\ ~Usable(purgeLocked(a))
           /\ ~Usable(BeginConsume(a))
           /\ \A b \in BOOLEAN : ~Usable(FinishConsume(a, b))
           /\ ~Decidable(expireLocked(a)) \/ a.consumed
<1> USE DEF Approval, Status
<1>1. ~Usable(NoApproval)
  BY DEF Usable, NoApproval
<1>2. expireLocked(a) = a \/ expireLocked(a).status = "expired"
  BY DEF expireLocked
<1>3. ~Usable(expireLocked(a))
  BY <1>2 DEF Usable
<1>4. ~Usable(purgeLocked(a))
  BY <1>1 DEF purgeLocked
<1>5. ~Claimable(expireLocked(a))
  <2>1. CASE Lapsed(a)
    BY <2>1 DEF expireLocked, Claimable
  <2>2. CASE ~Lapsed(a)
    BY <2>2 DEF expireLocked, Claimable, Usable
  <2> QED
    BY <2>1, <2>2
<1>6. ~Usable(BeginConsume(a))
  BY <1>3, <1>5 DEF BeginConsume
<1>7. ASSUME NEW b \in BOOLEAN PROVE ~Usable(FinishConsume(a, b))
  <2>1. CASE a.status = "absent"
    BY <2>1 DEF FinishConsume
  <2>2. CASE a.status # "absent"
    <3> DEFINE f == FinishConsume(a, b)
    <3>1. /\ f \in Approval /\ f.status = a.status /\ ~f.issuing
          /\ a.consumed => f.consumed
          /\ f.createdAt = a.createdAt /\ f.decidedAt = a.decidedAt
      <4>1. f = [a EXCEPT !.consumed = @ \/ b, !.issuing = FALSE]
        BY <2>2 DEF FinishConsume
      <4>2. f \in Approval
        BY EntryTypes, BoundsAssumption
      <4> HIDE DEF f
      <4>3. f.status = a.status /\ f.createdAt = a.createdAt /\ f.decidedAt = a.decidedAt
        BY <4>1
      <4>4. f.issuing = FALSE
        BY <4>1
      <4>5. f.consumed = (a.consumed \/ b)
        BY <4>1
      <4>6. a.consumed => f.consumed
        BY <4>5
      <4> QED
        BY <4>2, <4>3, <4>4, <4>6
    <3> HIDE DEF f
    <3>2. Lapsed(a) => Lapsed(f) \/ f.consumed
      BY <3>1 DEF Lapsed
    <3> QED
      BY <3>1, <3>2 DEF Usable, f
  <2> QED
    BY <2>1, <2>2
<1>8. ~Decidable(expireLocked(a)) \/ a.consumed
  <2>1. CASE Lapsed(a)
    BY <2>1 DEF expireLocked, Decidable
  <2>2. CASE ~Lapsed(a)
    BY <2>2 DEF expireLocked, Decidable, Usable
  <2> QED
    BY <2>1, <2>2
<1> QED
  BY <1>3, <1>4, <1>6, <1>7, <1>8

\* A request that was filed and cannot be used stays so.
LEMMA UnusableStays ==
    ASSUME IInv, [Next]_vars, NEW i \in used, ~Usable(items[i])
    PROVE  ~Usable(items[i])'
<1> USE NamesAssumption, BoundsAssumption
<1>t. TypeOK /\ i \in Ids /\ items[i] \in Approval
  BY DEF IInv, TypeOK
<1>2. PICK b : b = items'[i]
  OBVIOUS
<1>3. ASSUME now' = now, ~Usable(b) PROVE ~Usable(items[i])'
  BY <1>2, <1>3 DEF Usable, Lapsed
<1>4. ASSUME NEW cn \in CNs, NEW id \in Ids, requireApproval(cn, id)
      PROVE  ~Usable(items[i])'
  <2>1. b = purgeLocked(items[i]) /\ now' = now
    BY <1>2, <1>4, <1>t DEF requireApproval
  <2> QED
    BY <1>3, <1>t, <2>1, Unusable
<1>5. ASSUME NEW p \in Pollers, NEW cn \in CNs, NEW id \in Ids, PollGet(p, cn, id)
      PROVE  ~Usable(items[i])'
  <2>1. b \in {items[i], expireLocked(items[i])} /\ now' = now
    BY <1>2, <1>5, <1>t, GetFacts DEF TypeOK
  <2> QED
    BY <1>3, <1>t, <2>1, Unusable
<1>6. ASSUME NEW p \in Pollers, PollClaim(p)
      PROVE  ~Usable(items[i])'
  <2>1. b \in {items[i], BeginConsume(items[i])} /\ now' = now
    BY <1>2, <1>6, <1>t, ClaimFacts DEF TypeOK
  <2> QED
    BY <1>3, <1>t, <2>1, Unusable
<1>7. ASSUME NEW p \in Pollers, PollFinish(p)
      PROVE  ~Usable(items[i])'
  <2>1. PICK s \in BOOLEAN : s = (poll[p].pc = "burn")
    OBVIOUS
  <2>2. b \in {items[i], FinishConsume(items[i], s)} /\ now' = now
    BY <1>2, <1>7, <1>t, <2>1, FinishFacts DEF TypeOK
  <2> QED
    BY <1>3, <1>t, <2>2, Unusable
<1>8. ASSUME NEW p \in Pollers, Forwarding(p)
      PROVE  ~Usable(items[i])'
  <2>1. b = items[i] /\ now' = now
    BY <1>2, <1>8, <1>t, ForwardingFacts
  <2> QED
    BY <1>3, <2>1
<1>9. ASSUME NEW d \in Deciders, NEW cn \in CNs, NEW id \in Ids,
             NEW approve \in BOOLEAN, NEW learn \in BOOLEAN,
             DecideCheck(d, cn, id, approve, learn)
      PROVE  ~Usable(items[i])'
  <2>1. b \in {items[i], expireLocked(items[i])} /\ now' = now
    BY <1>2, <1>9, <1>t DEF DecideCheck, TypeOK
  <2> QED
    BY <1>3, <1>t, <2>1, Unusable
<1>10. ASSUME NEW d \in Deciders, DecideApply(d)
       PROVE  ~Usable(items[i])'
  <2>1. PICK id, r : id = decide[d].id /\ r = decide[d]
    OBVIOUS
  <2> DEFINE e == expireLocked(items[id])
  <2>2. now' = now /\ (\/ Decidable(e) /\ items' = [items EXCEPT ![id] =
                                                     Decided(e, r.cn, r.approve, r.learn)]
                       \/ ~Decidable(e) /\ items' = [items EXCEPT ![id] = e])
    BY <1>10, <2>1 DEF DecideApply
  <2>3. CASE id # i
    BY <1>2, <1>3, <1>t, <2>2, <2>3 DEF TypeOK
  <2>4. CASE id = i /\ ~Decidable(e)
    <3>1. b = expireLocked(items[i])
      BY <1>2, <1>t, <2>2, <2>4 DEF TypeOK
    <3> QED
      BY <1>3, <1>t, <2>2, <3>1, Unusable
  <2>5. CASE id = i /\ Decidable(e)
    <3>1. items[i].consumed /\ e \in Approval /\ e.consumed
      BY <1>t, <2>5, Unusable, EntryTypes, EntryFacts
    <3>2. b = Decided(e, r.cn, r.approve, r.learn)
      BY <1>2, <1>t, <2>2, <2>5 DEF TypeOK
    <3> HIDE DEF e
    <3>3. b.consumed
      BY <3>1, <3>2 DEF Decided, Approval
    <3> QED
      BY <1>3, <2>2, <3>3 DEF Usable
  <2> QED
    BY <2>2, <2>3, <2>4, <2>5
<1>11. CASE List
  <2>1. b = expireLocked(purgeLocked(items[i])) /\ now' = now
    BY <1>2, <1>11, <1>t DEF List
  <2>2. purgeLocked(items[i]) \in Approval /\ ~Usable(purgeLocked(items[i]))
    BY <1>t, Unusable, EntryTypes
  <2> QED
    BY <1>3, <1>t, <2>1, <2>2, Unusable
<1>12. CASE Tick
  <2>1. items'[i] = items[i] /\ now' = now + 1 /\ now \in Nat
    BY <1>12, <1>t DEF Tick, registryVars, TypeOK
  <2>2. PICK a \in Approval : a = items[i]
    BY <1>t
  <2>3. Lapsed(a) => Lapsed(a)'
    BY <2>1, <2>2 DEF Lapsed, Approval
  <2>4. ~Usable(a)'
    BY <2>2, <2>3 DEF Usable
  <2> QED
    BY <2>1, <2>2, <2>4 DEF Usable, Lapsed
<1>13. CASE Restart
  <2>1. b.status = "absent" /\ now' = now
    BY <1>2, <1>13, <1>t DEF Restart, NoApproval
  <2> QED
    BY <1>3, <2>1 DEF Usable
<1>14. CASE (\E f \in late : SignerLate(f)) \/ UNCHANGED vars
  <2>1. b = items[i] /\ now' = now
    BY <1>2, <1>14 DEF SignerLate, registryVars, vars
  <2> QED
    BY <1>3, <2>1
<1> QED
  BY <1>4, <1>5, <1>6, <1>7, <1>8, <1>9, <1>10, <1>11, <1>12, <1>13, <1>14
  DEF Next, PollStep, Forwarding

\* A certificate that was handed out stays handed out, and the approval is burned
\* only after that.
LEMMA BurnStep ==
    ASSUME IInv, BurnInv, [Next]_vars
    PROVE  BurnInv' /\ granted \subseteq granted'
<1>t. TypeOK
  BY DEF IInv
<1>1. ASSUME granted' = granted,
             \A p \in Pollers : poll'[p].pc = "burn" => poll'[p] = poll[p]
      PROVE  BurnInv' /\ granted \subseteq granted'
  BY <1>1 DEF BurnInv
<1>2. ASSUME NEW p \in Pollers, NEW cn \in CNs, NEW id \in Ids, PollGet(p, cn, id)
      PROVE  BurnInv' /\ granted \subseteq granted'
  <2>1. /\ granted' = granted /\ poll'[p].pc # "burn"
        /\ \A q \in Pollers : q # p => poll'[q] = poll[q]
    BY <1>2, <1>t, GetFacts
  <2> QED
    BY <1>1, <2>1
<1>3. ASSUME NEW p \in Pollers, PollClaim(p) \/ PollFinish(p)
      PROVE  BurnInv' /\ granted \subseteq granted'
  <2>1. /\ granted' = granted /\ poll'[p].pc # "burn"
        /\ \A q \in Pollers : q # p => poll'[q] = poll[q]
    BY <1>3, <1>t, ClaimFacts, FinishFacts
  <2> QED
    BY <1>1, <2>1
<1>4. ASSUME NEW p \in Pollers, PollGrant(p)
      PROVE  BurnInv' /\ granted \subseteq granted'
  <2>1. /\ poll'[p].id = poll[p].id
        /\ \A q \in Pollers : q # p => poll'[q] = poll[q]
    BY <1>4, <1>t, ForwardingFacts DEF Forwarding
  <2>2. PICK g : g.id = poll[p].id /\ granted' = granted \cup {g}
    BY <1>4 DEF PollGrant
  <2> QED
    BY <2>1, <2>2 DEF BurnInv
<1>5. ASSUME NEW p \in Pollers,
             PollForward(p) \/ PollSignerFails(p) \/ PollSignerIssues(p) \/ PollLosesAnswer(p)
      PROVE  BurnInv' /\ granted \subseteq granted'
  <2>1. /\ \A q \in Pollers : q # p => poll'[q] = poll[q]
    BY <1>5, <1>t, ForwardingFacts DEF Forwarding
  <2>2. granted' = granted /\ poll'[p].pc # "burn"
    <3>1. CASE PollForward(p)
      <4>1. poll[p] \in PollState
        BY <1>t DEF TypeOK
      <4>2. CASE items[poll[p].id].status = "absent"
        BY <1>t, <3>1, <4>2 DEF PollForward, TypeOK, PollState
      <4>3. CASE items[poll[p].id].status # "absent"
        <5> DEFINE v == [poll[p] EXCEPT !.pc = "sent", !.n = sentRPCs[poll[p].id] + 1]
        <5>1. v.pc = "sent"
          BY <4>1 DEF PollState
        <5>2. poll' = [poll EXCEPT ![p] = v] /\ granted' = granted
          BY <3>1, <4>3 DEF PollForward
        <5> HIDE DEF v
        <5> QED
          BY <1>t, <5>1, <5>2 DEF TypeOK
      <4> QED
        BY <4>2, <4>3
    <3>2. CASE PollSignerFails(p) \/ PollSignerIssues(p) \/ PollLosesAnswer(p)
      BY <1>t, <3>2 DEF PollSignerFails, PollSignerIssues, PollLosesAnswer, TypeOK, PollState
    <3> QED
      BY <1>5, <3>1, <3>2
  <2> QED
    BY <1>1, <2>1, <2>2
<1>6. CASE Restart
  <2>1. granted' = granted /\ \A p \in Pollers : poll'[p].pc # "burn"
    BY <1>6 DEF Restart, IdlePoll
  <2> QED
    BY <1>1, <2>1
<1>7. ASSUME UNCHANGED <<poll, granted>>
      PROVE  BurnInv' /\ granted \subseteq granted'
  BY <1>1, <1>7
<1>8. CASE \/ \E cn \in CNs, id \in Ids : requireApproval(cn, id)
           \/ \E d \in Deciders, cn \in CNs, id \in Ids, approve, learn \in BOOLEAN :
                 DecideCheck(d, cn, id, approve, learn)
           \/ \E d \in Deciders : DecideApply(d)
           \/ \E f \in late : SignerLate(f)
           \/ List \/ Tick \/ UNCHANGED vars
  <2>1. UNCHANGED <<poll, granted>>
    BY <1>8 DEF requireApproval, DecideCheck, DecideApply, SignerLate, List, Tick, vars
  <2> QED
    BY <1>7, <2>1
<1> QED
  BY <1>2, <1>3, <1>4, <1>5, <1>6, <1>8 DEF Next, PollStep

\* The outcomes that say something about the request for good.
Final == {"granted", "denied", "expired", "unknown", "gone"}

Truth(c) ==
    /\ call[c].out = "granted" => \E g \in granted : g.id = call[c].id
    /\ call[c].out \in Final => ~Usable(items[call[c].id])

\* What a call was told stays true.
LEMMA TruthStays ==
    ASSUME FlowIInv, [Next]_vars, NEW c \in Pollers,
           call'[c].out = call[c].out, call'[c].id = call[c].id
    PROVE  Truth(c)'
<1>1. Truth(c)
  BY DEF FlowIInv, ToldTheTruth, Truth, Final
<1>2. PICK i : i = call[c].id
  OBVIOUS
<1>3. granted \subseteq granted'
  BY BurnStep DEF FlowIInv
<1>4. ASSUME call[c].out \in Final PROVE ~Usable(items[i])'
  <2>1. i \in used /\ ~Usable(items[i])
    BY <1>1, <1>2, <1>4 DEF FlowIInv, CallInv, Truth, Final
  <2> QED
    BY <2>1, UnusableStays DEF FlowIInv
<1>5. call[c].out \in Final => ~Usable(items[call[c].id])'
  BY <1>2, <1>4 DEF Usable, Lapsed
<1>6. call[c].out = "granted" => \E g \in granted' : g.id = call'[c].id
  BY <1>1, <1>3 DEF Truth
<1> QED
  BY <1>5, <1>6 DEF Truth

\* A call is told what the registry did.
LEMMA ToldStep ==
    ASSUME FlowIInv, [FlowNext]_flowVars
    PROVE  ToldTheTruth'
<1> USE NamesAssumption, BoundsAssumption
<1>t. TypeOK /\ IInv /\ CallInv /\ BurnInv
  BY DEF FlowIInv, IInv
<1>n. [Next]_vars
  BY <1>t, FlowSimulation
<1>q. (\A c \in Pollers : Truth(c)') => ToldTheTruth'
  BY DEF Truth, Final, ToldTheTruth
<1>k. ASSUME NEW c \in Pollers, call'[c] = call[c] PROVE Truth(c)'
  BY <1>k, <1>n, TruthStays
<1>o. ASSUME NEW c \in Pollers, call'[c].out \notin Final PROVE Truth(c)'
  BY <1>o DEF Truth, Final
<1>1. ASSUME NEW c \in Pollers, NEW cn \in CNs, NEW id \in Ids, NEW wait \in approvalWaits,
             NEW arrives \in BOOLEAN, StartCall(c, cn, id, wait, arrives)
      PROVE  ToldTheTruth'
  <2>1. /\ \A d \in Pollers : d # c => call'[d] = call[d]
        /\ call'[c].out \in {"hangup", "none", "nowait"}
    BY <1>1, <1>t DEF StartCall, CallInv
  <2> QED
    BY <1>k, <1>o, <1>q, <2>1 DEF Final
<1>2. ASSUME NEW c \in Pollers, NEW out \in {"hangup", "deadline"},
             call' = [call EXCEPT ![c] = End(c, out)]
      PROVE  ToldTheTruth'
  <2>1. out \in Outcome
    BY DEF Outcome
  <2>2. /\ \A d \in Pollers : d # c => call'[d] = call[d]
        /\ call'[c].out = out
    BY <1>2, <1>t, <2>1, EndFacts DEF CallInv
  <2> QED
    BY <1>k, <1>o, <1>q, <2>2 DEF Final
<1>3. ASSUME NEW c \in Pollers, Wake(c) PROVE ToldTheTruth'
  <2>1. PICK cn, id : cn = call[c].cn /\ id = call[c].id
    OBVIOUS
  <2> DEFINE a == expireLocked(items[id])
             r == GetReply(a, cn)
  <2>2. CASE call' = [call EXCEPT ![c] = End(c, "deadline")]
    BY <1>2, <2>2
  <2>3. CASE PollGet(c, cn, id) /\ Answer(c, r)
    <3>1. cn \in CNs /\ id \in Ids
      BY <1>3, <1>t, <2>1 DEF Wake, CallInv, TypeOK
    <3>2. a \in Approval /\ r \in Outcome \cup {"pending", "issuing"}
      BY <1>t, <3>1, EntryTypes, ReplyTypes DEF TypeOK
    <3>3. items'[id] = a /\ now' = now
      BY <1>t, <2>3, <3>1, GetFacts DEF TypeOK
    <3>4. /\ \A d \in Pollers : d # c => call'[d] = call[d]
          /\ call'[c].id = id
          /\ call'[c].out = call[c].out \/ call'[c].out = r
      BY <1>t, <2>1, <2>3, <3>2, AnswerFacts
    <3>5. r # "granted" /\ (r \in Final => a.status \in {"absent", "denied", "expired"})
      BY <3>2 DEF GetReply, Final, Approval, Status
    <3> HIDE DEF a, r
    <3>6. ASSUME call'[c].out = r PROVE Truth(c)'
      <4>1. r \in Final => ~Usable(items[id])'
        BY <3>3, <3>5 DEF Usable
      <4> QED
        BY <3>4, <3>5, <3>6, <4>1 DEF Truth, Usable, Lapsed
    <3>7. Truth(c)'
      BY <1>n, <2>1, <3>4, <3>6, TruthStays
    <3> QED
      BY <1>k, <1>q, <3>4, <3>7
  <2> QED
    BY <1>3, <2>1, <2>2, <2>3 DEF Wake
<1>4. ASSUME NEW c \in Pollers, FlowClaim(c) PROVE ToldTheTruth'
  <2>1. PICK id : id = poll[c].id
    OBVIOUS
  <2> DEFINE a == items[id]
             b == BeginConsume(a)
             r == ClaimReply(a)
  <2>2. PollClaim(c) /\ Answer(c, r) /\ r \in Outcome \cup {"pending", "issuing"}
    BY <1>4, <2>1, ReplyTypes DEF FlowClaim
  <2>3. /\ poll[c].pc = "got" /\ now' = now /\ items' = [items EXCEPT ![id] = b]
    BY <1>t, <2>1, <2>2, ClaimFacts
  <2>4. id = call[c].id /\ id \in Ids /\ approver[id] \in CNs
    BY <1>t, <2>1, <2>3 DEF CallInv, TypeOK, IInv, PollInv
  <2>5. a \in Approval /\ b \in Approval /\ items'[id] = b /\ a.status # "pending"
    <3>1. a.status # "pending"
      BY <1>t, <2>4 DEF IInv, ItemsInv
    <3> QED
      BY <1>t, <2>3, <2>4, <3>1, EntryTypes DEF TypeOK
  <2>6. b.status # "pending"
    <3>1. expireLocked(a).status # "pending" /\ expireLocked(a) \in Approval
      BY <1>t, <2>5, EntryFacts, EntryTypes
    <3> QED
      BY <3>1 DEF BeginConsume, Approval
  <2>7. r = "gone" => ~(b.status = "approved" /\ ~b.consumed)
    BY DEF ClaimReply
  <2>8. (r \in Final => r = "gone") /\ r # "granted"
    BY DEF ClaimReply, Final
  <2>9. /\ \A d \in Pollers : d # c => call'[d] = call[d]
        /\ call'[c].id = id
        /\ call'[c].out = call[c].out \/ call'[c].out = r
    BY <1>t, <2>2, <2>4, AnswerFacts
  <2> HIDE DEF a, b, r
  <2>10. ASSUME call'[c].out = r PROVE Truth(c)'
    <3>1. r \in Final => ~Usable(items[id])'
      BY <2>5, <2>6, <2>7, <2>8 DEF Usable
    <3> QED
      BY <2>8, <2>9, <2>10, <3>1 DEF Truth, Usable, Lapsed
  <2>11. Truth(c)'
    BY <1>n, <2>4, <2>9, <2>10, TruthStays
  <2> QED
    BY <1>k, <1>q, <2>9, <2>11
<1>5. ASSUME NEW c \in Pollers, FlowFinish(c) PROVE ToldTheTruth'
  <2>1. PICK id : id = poll[c].id
    OBVIOUS
  <2>2. PICK r : r = (IF poll[c].pc = "burn" THEN "granted" ELSE "failed") /\ Answer(c, r)
    BY <1>5 DEF FlowFinish
  <2>3. /\ poll[c].pc # "idle" /\ now' = now /\ granted' = granted
        /\ items' = [items EXCEPT ![id] = FinishConsume(items[id], poll[c].pc = "burn")]
    BY <1>5, <1>t, <2>1, FinishFacts DEF FlowFinish
  <2>4. id = call[c].id /\ id \in Ids
    BY <1>t, <2>1, <2>3 DEF CallInv, TypeOK
  <2>5. r \in Outcome \cup {"pending", "issuing"}
    BY <2>2 DEF Outcome
  <2>6. /\ \A d \in Pollers : d # c => call'[d] = call[d]
        /\ call'[c].id = id
        /\ call'[c].out = call[c].out \/ call'[c].out = r
    BY <1>t, <2>2, <2>4, <2>5, AnswerFacts
  <2>7. ASSUME call'[c].out = r, poll[c].pc = "burn" PROVE Truth(c)'
    <3>1. \E g \in granted' : g.id = id
      BY <1>t, <2>1, <2>3, <2>7 DEF BurnInv
    <3>2. items'[id] = FinishConsume(items[id], TRUE)
      BY <1>t, <2>3, <2>4, <2>7 DEF TypeOK
    <3>3. items'[id].status = "absent" \/ items'[id].consumed
      <4>1. CASE items[id].status = "absent"
        BY <3>2, <4>1 DEF FinishConsume
      <4>2. CASE items[id].status # "absent"
        <5>1. items'[id] = [items[id] EXCEPT !.consumed = @ \/ TRUE, !.issuing = FALSE]
          BY <3>2, <4>2 DEF FinishConsume
        <5>2. items[id] \in Approval
          BY <1>t, <2>4 DEF TypeOK
        <5> QED
          BY <5>1, <5>2 DEF Approval
      <4> QED
        BY <4>1, <4>2
    <3>4. ~Usable(items[id])'
      BY <3>3 DEF Usable
    <3> QED
      BY <2>6, <3>1, <3>4 DEF Truth, Usable, Lapsed
  <2>8. ASSUME call'[c].out = r, poll[c].pc # "burn" PROVE Truth(c)'
    BY <1>o, <2>2, <2>8 DEF Final
  <2>9. Truth(c)'
    BY <1>n, <2>4, <2>6, <2>7, <2>8, TruthStays
  <2> QED
    BY <1>k, <1>q, <2>6, <2>9
<1>6. CASE FlowRestart
  <2>1. ASSUME NEW c \in Pollers PROVE Truth(c)'
    <3>1. CASE call[c].pc = "polling"
      <4>1. call'[c] = End(c, "hangup") /\ "hangup" \in Outcome
        BY <1>6, <3>1 DEF FlowRestart, Outcome
      <4>2. call'[c].out = "hangup"
        BY <1>t, <4>1, EndFacts
      <4> QED
        BY <1>o, <4>2 DEF Final
    <3>2. CASE call[c].pc # "polling"
      BY <1>6, <1>k, <3>2 DEF FlowRestart
    <3> QED
      BY <3>1, <3>2
  <2> QED
    BY <1>q, <2>1
<1>7. CASE UNCHANGED call
  BY <1>7, <1>k, <1>q
<1>8. ASSUME NEW c \in Pollers, HangUp(c) PROVE ToldTheTruth'
  BY <1>2, <1>8 DEF HangUp
<1> QED
  BY <1>1, <1>3, <1>4, <1>5, <1>6, <1>7, <1>8 DEF FlowNext, HandlerStep, flowVars

\* At first nobody has asked for anything.
LEMMA FlowInitInv == FlowInit => FlowIInv
<1> SUFFICES ASSUME FlowInit PROVE FlowIInv
  OBVIOUS
<1>1. Init /\ call = [c \in Pollers |-> NoCall]
  BY DEF FlowInit
<1>2. IInv
  BY <1>1, InitInv
<1>3. NoCall \in CallState /\ NoCall.pc = "idle" /\ NoCall.out = "none"
  BY DEF NoCall, CallState, Outcome
<1>4. /\ \A c \in Pollers : poll[c].pc = "idle"
      /\ issued = {} /\ late = {}
  BY <1>1 DEF Init, IdlePoll
<1>5. CallInv
  BY <1>1, <1>3, <1>4 DEF CallInv
<1>6. SignerInv /\ BurnInv
  BY <1>4 DEF SignerInv, AtSigner, BurnInv
<1>7. ToldTheTruth
  BY <1>1, <1>3 DEF ToldTheTruth
<1> QED
  BY <1>2, <1>5, <1>6, <1>7 DEF FlowIInv

\* The invariant of the composition.
LEMMA FlowInvariance == FlowSpec => []FlowIInv
<1>1. FlowIInv /\ [FlowNext]_flowVars => FlowIInv'
  <2> SUFFICES ASSUME FlowIInv, [FlowNext]_flowVars PROVE FlowIInv'
    OBVIOUS
  <2>1. IInv /\ CallInv /\ SignerInv /\ BurnInv /\ TypeOK
    BY DEF FlowIInv, IInv
  <2>2. [Next]_vars
    BY <2>1, FlowSimulation
  <2>3. IInv' /\ BurnInv'
    BY <2>1, <2>2, InvStep, BurnStep
  <2>4. CallInv'
    BY <2>1, CallStep
  <2>5. SignerInv'
    BY <2>1, <2>4, SignerStep
  <2>6. ToldTheTruth'
    BY ToldStep
  <2> QED
    BY <2>3, <2>4, <2>5, <2>6 DEF FlowIInv
<1> QED
  BY <1>1, FlowInitInv, PTL DEF FlowSpec

\* With this broker the signer issues at most one certificate for an approval,
\* although the control plane releases the claim of a forward whose answer was lost.
THEOREM OneCertificatePerApproval == FlowSpec => []IssuedAtMostOnce
<1>1. FlowIInv => IssuedAtMostOnce
  BY DEF FlowIInv, SignerInv, AtSigner, IssuedAtMostOnce
<1> QED
  BY <1>1, FlowInvariance, PTL

\* A call returns a certificate only for an approval that is used up, and what it was
\* told of a request that is denied, expired, forgotten or used stays true.
THEOREM CallsAreToldTheTruth == FlowSpec => []ToldTheTruth
<1>1. FlowIInv => ToldTheTruth
  BY DEF FlowIInv
<1> QED
  BY <1>1, FlowInvariance, PTL
=============================================================================
