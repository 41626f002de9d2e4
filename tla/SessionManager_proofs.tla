----------------------- MODULE SessionManager_proofs -----------------------
(***************************************************************************)
(* The session manager's invariants hold for any number of sessions,       *)
(* callers and goroutines and for any limits: the busy counter counts, a   *)
(* command is cut off by nobody but its owner or the shutdown, the limits  *)
(* hold and no connection is forgotten.                                    *)
(***************************************************************************)
EXTENDS SessionManager, FiniteSetTheorems, TLAPS

-----------------------------------------------------------------------------
(* The inductive invariant.                                                *)

\* An OpenSession that has not given its connection away is the only one to
\* have it: nobody can find the session yet, let alone remove it.
DialedInv ==
    \A o \in Openers : opener[o].pc = "dialed" =>
        /\ live[opener[o].id].conn = "open"
        /\ opener[o].id \notin sessions \cup victims
        /\ removedBy[opener[o].id] = Nobody
        /\ \A p \in Openers :
              opener[p].pc = "dialed" /\ opener[p].id = opener[o].id => p = o

\* A goroutine that is not idle has a session.
BusyInv ==
    /\ \A o \in Openers : opener[o].pc # "idle" => opener[o].id \in Sids
    /\ \A x \in Execs : exec[x].pc # "idle" =>
          exec[x].id \in Sids /\ live[exec[x].id].conn # "none"

\* A session of the map is open, and nobody has removed it; an id that was never
\* dialled has nothing to remove.
MapInv ==
    /\ \A id \in sessions : live[id].conn = "open" /\ removedBy[id] = Nobody
    /\ \A id \in Sids : live[id].conn = "none" => id \notin victims /\ removedBy[id] = Nobody

SInv ==
    /\ TypeOK /\ DialedInv /\ BusyInv /\ MapInv
    /\ BusyCountsCommands /\ OnlyTheOwnerCutsOff /\ LimitsHold
    /\ EveryConnectionHasAnOwner

-----------------------------------------------------------------------------
(* What the operations do to one session, and the count of its commands.   *)

\* close ends the connection and leaves the owner and the count alone.
LEMMA CloseFacts ==
    ASSUME NEW s \in LiveSession
    PROVE  /\ close(s) \in LiveSession
           /\ close(s).conn = "closed"
           /\ close(s).caller = s.caller /\ close(s).busy = s.busy
BY DEF close, LiveSession

\* checkoutOwned counts the owner's command, and leaves connection and owner alone.
LEMMA CheckoutFacts ==
    ASSUME NEW s \in LiveSession, NEW caller, now \in Nat
    PROVE  /\ checkoutOwned(s, caller) \in LiveSession
           /\ checkoutOwned(s, caller).conn = s.conn
           /\ checkoutOwned(s, caller).caller = s.caller
           /\ checkoutOwned(s, caller).busy = IF s.caller = caller THEN s.busy + 1 ELSE s.busy
<1> DEFINE t == [conn |-> s.conn, recorder |-> s.recorder, caller |-> s.caller,
                 created |-> s.created, lastUsed |-> now, busy |-> s.busy + 1]
           u == [s EXCEPT !.lastUsed = now]
<1>1. u = [conn |-> s.conn, recorder |-> s.recorder, caller |-> s.caller,
           created |-> s.created, lastUsed |-> now, busy |-> s.busy]
  BY DEF LiveSession
<1>2. [u EXCEPT !.busy = s.busy + 1] = t
  <2> HIDE DEF u
  <2> QED
    BY <1>1
<1>3. [s EXCEPT !.lastUsed = now, !.busy = @ + 1] = t
  BY <1>2, Zenon
<1>4. t \in LiveSession
  BY DEF LiveSession
<1>5. checkoutOwned(s, caller) = IF s.caller = caller THEN t ELSE s
  BY <1>3 DEF checkoutOwned
<1> QED
  BY <1>4, <1>5

\* checkin takes one command off the count, never below zero.
LEMMA CheckinFacts ==
    ASSUME NEW s \in LiveSession, now \in Nat
    PROVE  /\ checkin(s) \in LiveSession
           /\ checkin(s).conn = s.conn /\ checkin(s).caller = s.caller
           /\ checkin(s).busy = IF s.busy > 0 THEN s.busy - 1 ELSE 0
<1> DEFINE b == IF s.busy > 0 THEN s.busy - 1 ELSE 0
           t == [conn |-> s.conn, recorder |-> s.recorder, caller |-> s.caller,
                 created |-> s.created, lastUsed |-> now, busy |-> b]
           u == [s EXCEPT !.busy = b]
<1>1. b \in Nat
  BY DEF LiveSession
<1>2. u = [conn |-> s.conn, recorder |-> s.recorder, caller |-> s.caller,
           created |-> s.created, lastUsed |-> s.lastUsed, busy |-> b]
  <2> HIDE DEF b
  <2> QED
    BY DEF LiveSession
<1>3. [u EXCEPT !.lastUsed = now] = t
  <2> HIDE DEF u, b
  <2> QED
    BY <1>2
<1>4. checkin(s) = t
  BY <1>3, Zenon DEF checkin
<1>5. t \in LiveSession
  <2> HIDE DEF b
  <2> QED
    BY <1>1 DEF LiveSession
<1> QED
  BY <1>4, <1>5

\* The commands in flight are finitely many.
LEMMA InFlightFinite ==
    ASSUME NEW id
    PROVE  IsFiniteSet(InFlight(id)) /\ Cardinality(InFlight(id)) \in Nat
<1>1. InFlight(id) \in SUBSET Execs
  BY DEF InFlight
<1>2. IsFiniteSet(InFlight(id))
  BY <1>1, FS_Subset, SessionNamesAssumption
<1> QED
  BY <1>2, FS_CardinalityType

\* So are the sessions of the map, and those of one caller.
LEMMA SessionsFinite ==
    ASSUME TypeOK
    PROVE  /\ IsFiniteSet(sessions) /\ Cardinality(sessions) \in Nat
           /\ \A caller : /\ IsFiniteSet(OfCaller(caller))
                          /\ Cardinality(OfCaller(caller)) \in Nat
<1>1. IsFiniteSet(sessions)
  BY FS_Subset, SessionNamesAssumption DEF TypeOK
<1>2. ASSUME NEW caller PROVE IsFiniteSet(OfCaller(caller))
  <2>1. OfCaller(caller) \in SUBSET sessions
    BY DEF OfCaller
  <2> QED
    BY <2>1, <1>1, FS_Subset
<1> QED
  BY <1>1, <1>2, FS_CardinalityType

\* A smaller map with the same owners keeps within the limits.
LEMMA LimitsOfASubset ==
    ASSUME TypeOK, LimitsHold, sessions' \in SUBSET sessions,
           \A id \in sessions' : live'[id].caller = live[id].caller
    PROVE  LimitsHold'
<1>1. Cardinality(sessions') <= Cardinality(sessions)
  BY SessionsFinite, FS_Subset
<1>2. ASSUME NEW caller \in Callers
      PROVE  Cardinality(OfCaller(caller)') <= Cardinality(OfCaller(caller))
  <2>1. OfCaller(caller)' \in SUBSET OfCaller(caller)
    BY DEF OfCaller
  <2> QED
    BY <2>1, SessionsFinite, FS_Subset
<1>3. Cardinality(sessions') \in Nat
  BY SessionsFinite, FS_Subset, FS_CardinalityType
<1>4. ASSUME NEW caller \in Callers PROVE Cardinality(OfCaller(caller)') \in Nat
  <2>1. OfCaller(caller)' \in SUBSET OfCaller(caller)
    BY DEF OfCaller
  <2> QED
    BY <2>1, SessionsFinite, FS_Subset, FS_CardinalityType
<1>5. Cardinality(sessions') <= maxSessionsGlobal
  BY <1>1, <1>3, SessionsFinite, SessionBoundsAssumption DEF LimitsHold
<1>6. ASSUME NEW caller \in Callers
      PROVE  Cardinality(OfCaller(caller)') <= maxSessionsPerCaller
  BY <1>2, <1>4, SessionsFinite, SessionBoundsAssumption DEF LimitsHold
<1> QED
  BY <1>5, <1>6 DEF LimitsHold

\* A session without commands in flight has none that count.
LEMMA IdleSession ==
    ASSUME BusyCountsCommands, NEW id \in Sids, live[id].busy = 0, NEW x \in Execs
    PROVE  exec[x].pc = "idle" \/ exec[x].id # id
<1>1. InFlight(id) = {}
  BY InFlightFinite, FS_EmptySet DEF BusyCountsCommands
<1> QED
  BY <1>1 DEF InFlight

-----------------------------------------------------------------------------
(* The steps.                                                              *)

\* Where the commands stay as they are, the counts stay right.
LEMMA SameCounts ==
    ASSUME BusyCountsCommands, exec' = exec,
           \A id \in Sids : live'[id].busy = live[id].busy
    PROVE  BusyCountsCommands'
<1>1. \A id : InFlight(id)' = InFlight(id)
  BY DEF InFlight
<1> QED
  BY <1>1 DEF BusyCountsCommands

\* Dial starts a session nobody knows.
LEMMA DialStep ==
    ASSUME SInv, NEW o \in Openers, NEW id \in Sids, NEW caller \in Callers,
           Dial(o, id, caller)
    PROVE  SInv'
<1> DEFINE s == [conn |-> "open", recorder |-> "nil", caller |-> caller,
                 created |-> now, lastUsed |-> now, busy |-> 0]
<1> USE DEF SInv
<1>1. live' = [live EXCEPT ![id] = s]
  BY DEF Dial
<1>2. s \in LiveSession
  BY DEF LiveSession, TypeOK
<1>3. /\ live \in [Sids -> LiveSession] /\ live'[id] = s
      /\ \A i \in Sids : i # id => live'[i] = live[i]
  BY <1>1 DEF TypeOK
<1>4. /\ live[id].conn = "none" /\ opener[o].pc = "idle"
      /\ opener' = [opener EXCEPT ![o] = [pc |-> "dialed", id |-> id]]
      /\ UNCHANGED <<sessions, victims, exec, known, stopped, removedBy, now>>
  BY DEF Dial
<1>5. /\ opener'[o].pc = "dialed" /\ opener'[o].id = id
      /\ \A p \in Openers : p # o => opener'[p] = opener[p]
  BY <1>4 DEF TypeOK
<1> HIDE DEF s
<1>6. TypeOK'
  BY <1>1, <1>2, <1>4 DEF TypeOK, OpenerState
<1>7. id \notin sessions /\ id \notin victims /\ removedBy[id] = Nobody
  BY <1>4 DEF MapInv
<1>8. s.conn = "open" /\ s.caller = caller /\ s.busy = 0
  BY DEF s
<1>9. DialedInv'
  BY <1>3, <1>4, <1>5, <1>7, <1>8 DEF DialedInv, BusyInv
<1>10. BusyInv'
  BY <1>3, <1>4, <1>5, <1>8 DEF BusyInv
<1>11. MapInv'
  BY <1>3, <1>4, <1>7, <1>8 DEF MapInv, TypeOK
<1>12. \A x \in Execs : exec[x].pc = "idle" \/ exec[x].id # id
  BY <1>4 DEF BusyInv
<1>13. live[id].busy = 0
  <2>1. InFlight(id) = {}
    BY <1>12 DEF InFlight
  <2> QED
    BY <2>1, FS_EmptySet DEF BusyCountsCommands
<1>14. BusyCountsCommands'
  BY <1>3, <1>4, <1>8, <1>13, SameCounts
<1>15. OnlyTheOwnerCutsOff'
  BY <1>3, <1>4, <1>12 DEF OnlyTheOwnerCutsOff, BusyInv
<1>16. LimitsHold'
  <2>1. \A i \in sessions' : live'[i].caller = live[i].caller
    BY <1>3, <1>4, <1>7 DEF TypeOK
  <2> QED
    BY <2>1, <1>4, LimitsOfASubset
<1>17. EveryConnectionHasAnOwner'
  BY <1>3, <1>4, <1>5 DEF EveryConnectionHasAnOwner
<1> QED
  BY <1>6, <1>9, <1>10, <1>11, <1>14, <1>15, <1>16, <1>17

\* A dialled connection that is given up is closed: nobody else has it.
LEMMA GiveUpStep ==
    ASSUME SInv, NEW o \in Openers, opener[o].pc = "dialed",
           live' = [live EXCEPT ![opener[o].id] = close(@)],
           opener' = [opener EXCEPT ![o] = IdleOpener],
           UNCHANGED <<sessions, victims, exec, known, stopped, removedBy, now>>
    PROVE  SInv'
<1> DEFINE id == opener[o].id
<1> USE DEF SInv
<1>1. id \in Sids /\ id \notin sessions /\ id \notin victims /\ removedBy[id] = Nobody
  BY DEF DialedInv, BusyInv
<1>2. /\ live'[id] = close(live[id])
      /\ \A i \in Sids : i # id => live'[i] = live[i]
  BY <1>1 DEF TypeOK
<1>3. /\ close(live[id]) \in LiveSession /\ live'[id].conn = "closed"
      /\ live'[id].caller = live[id].caller /\ live'[id].busy = live[id].busy
  BY <1>1, <1>2, CloseFacts DEF TypeOK
<1>4. opener'[o] = IdleOpener /\ \A p \in Openers : p # o => opener'[p] = opener[p]
  BY DEF TypeOK
<1>5. opener'[o].pc = "idle"
  BY <1>4 DEF IdleOpener
<1>6. TypeOK'
  BY <1>3 DEF TypeOK, OpenerState, IdleOpener
<1>7. \A p \in Openers : p # o /\ opener[p].pc = "dialed" => opener[p].id # id
  BY DEF DialedInv
<1> HIDE DEF id
<1>8. DialedInv'
  BY <1>2, <1>4, <1>5, <1>7 DEF DialedInv, BusyInv
<1>9. BusyInv'
  BY <1>2, <1>3, <1>4, <1>5 DEF BusyInv
<1>10. MapInv'
  BY <1>1, <1>2, <1>3 DEF MapInv, TypeOK
<1>11. BusyCountsCommands'
  BY <1>2, <1>3, SameCounts
<1>12. OnlyTheOwnerCutsOff'
  BY <1>2, <1>3 DEF OnlyTheOwnerCutsOff, BusyInv
<1>13. LimitsHold'
  <2>1. \A i \in sessions' : live'[i].caller = live[i].caller
    BY <1>2, <1>3 DEF TypeOK
  <2> QED
    BY <2>1, LimitsOfASubset
<1>14. EveryConnectionHasAnOwner'
  BY <1>2, <1>3, <1>4 DEF EveryConnectionHasAnOwner, id
<1> QED
  BY <1>6, <1>8, <1>9, <1>10, <1>11, <1>12, <1>13, <1>14

\* add: over a limit the session is closed, otherwise the map has one more.
LEMMA AddStep ==
    ASSUME SInv, NEW o \in Openers, add(o)
    PROVE  SInv'
<1> DEFINE id == opener[o].id
<1> USE DEF SInv
<1>1. CASE LimitReached(live[id].caller)
  BY <1>1, GiveUpStep DEF add
<1>2. CASE ~LimitReached(live[id].caller)
  <2>1. /\ opener[o].pc = "dialed"
        /\ sessions' = sessions \cup {id}
        /\ opener' = [opener EXCEPT ![o].pc = "added"]
        /\ UNCHANGED <<live, victims, exec, known, stopped, removedBy, now>>
    BY <1>2 DEF add
  <2>2. /\ id \in Sids /\ id \notin sessions /\ id \notin victims /\ removedBy[id] = Nobody
        /\ live[id].conn = "open"
    BY <2>1 DEF DialedInv, BusyInv
  <2>3. /\ opener'[o] = [pc |-> "added", id |-> id]
        /\ \A p \in Openers : p # o => opener'[p] = opener[p]
    BY <2>1 DEF TypeOK, OpenerState
  <2>4. opener'[o].pc = "added" /\ opener'[o].id = id
    BY <2>3
  <2>5. \A p \in Openers : p # o /\ opener[p].pc = "dialed" => opener[p].id # id
    BY <2>1 DEF DialedInv
  <2>6. TypeOK'
    <3>1. opener' \in [Openers -> OpenerState]
      BY <2>1, <2>2, <2>3 DEF TypeOK, OpenerState
    <3> QED
      BY <2>1, <2>2, <3>1 DEF TypeOK
  <2> HIDE DEF id
  <2>7. DialedInv'
    BY <2>1, <2>3, <2>4, <2>5 DEF DialedInv, BusyInv
  <2>8. BusyInv'
    BY <2>1, <2>2, <2>3, <2>4 DEF BusyInv
  <2>9. MapInv'
    BY <2>1, <2>2 DEF MapInv
  <2>10. BusyCountsCommands'
    BY <2>1, SameCounts
  <2>11. OnlyTheOwnerCutsOff'
    BY <2>1 DEF OnlyTheOwnerCutsOff
  <2>12. LimitsHold'
    <3>1. Cardinality(sessions') <= maxSessionsGlobal
      <4>1. Cardinality(sessions') = Cardinality(sessions) + 1
        BY <2>1, <2>2, SessionsFinite, FS_AddElement
      <4>2. ~(Cardinality(sessions) >= maxSessionsGlobal)
        BY <1>2 DEF LimitReached
      <4> QED
        BY <4>1, <4>2, SessionsFinite, SessionBoundsAssumption
    <3>2. ASSUME NEW caller \in Callers
          PROVE  Cardinality(OfCaller(caller)') <= maxSessionsPerCaller
      <4>1. CASE live[id].caller = caller
        <5>1. OfCaller(caller)' = OfCaller(caller) \cup {id}
          BY <2>1, <4>1 DEF OfCaller
        <5>2. id \notin OfCaller(caller)
          BY <2>2 DEF OfCaller
        <5>3. Cardinality(OfCaller(caller)') = Cardinality(OfCaller(caller)) + 1
          BY <5>1, <5>2, SessionsFinite, FS_AddElement
        <5>4. ~(Cardinality(OfCaller(caller)) >= maxSessionsPerCaller)
          BY <1>2, <4>1 DEF LimitReached
        <5> QED
          BY <5>3, <5>4, SessionsFinite, SessionBoundsAssumption
      <4>2. CASE live[id].caller # caller
        <5>1. OfCaller(caller)' = OfCaller(caller)
          BY <2>1, <4>2 DEF OfCaller
        <5> QED
          BY <5>1 DEF LimitsHold
      <4> QED
        BY <4>1, <4>2
    <3> QED
      BY <3>1, <3>2 DEF LimitsHold
  <2>13. EveryConnectionHasAnOwner'
    BY <2>1, <2>2, <2>3 DEF EveryConnectionHasAnOwner, id
  <2> QED
    BY <2>6, <2>7, <2>8, <2>9, <2>10, <2>11, <2>12, <2>13
<1> QED
  BY <1>1, <1>2

\* Record opens the recording, and changes nothing else about the session.
LEMMA RecordStep ==
    ASSUME SInv, NEW o \in Openers, NEW records \in BOOLEAN, Record(o, records)
    PROVE  SInv'
<1> DEFINE id == opener[o].id
<1> USE DEF SInv
<1>1. /\ opener[o].pc = "added"
      /\ live' = IF records THEN [live EXCEPT ![id].recorder = "open"] ELSE live
      /\ known' = known \cup {id}
      /\ opener' = [opener EXCEPT ![o] = IdleOpener]
      /\ UNCHANGED <<sessions, victims, exec, stopped, removedBy, now>>
  BY DEF Record
<1>2. id \in Sids
  BY <1>1 DEF BusyInv
<1>3. /\ live' \in [Sids -> LiveSession]
      /\ \A i \in Sids : /\ live'[i].conn = live[i].conn
                         /\ live'[i].caller = live[i].caller
                         /\ live'[i].busy = live[i].busy
  BY <1>1, <1>2 DEF TypeOK, LiveSession
<1>4. opener'[o] = IdleOpener /\ \A p \in Openers : p # o => opener'[p] = opener[p]
  BY <1>1 DEF TypeOK
<1>5. opener'[o].pc = "idle"
  BY <1>4 DEF IdleOpener
<1>6. TypeOK'
  BY <1>1, <1>2, <1>3 DEF TypeOK, OpenerState, IdleOpener
<1> HIDE DEF id
<1>7. DialedInv'
  BY <1>1, <1>3, <1>4, <1>5 DEF DialedInv, BusyInv
<1>8. BusyInv'
  BY <1>1, <1>3, <1>4, <1>5 DEF BusyInv
<1>9. MapInv'
  BY <1>1, <1>3 DEF MapInv, TypeOK
<1>10. BusyCountsCommands'
  BY <1>1, <1>3, SameCounts
<1>11. OnlyTheOwnerCutsOff'
  BY <1>1, <1>3 DEF OnlyTheOwnerCutsOff, BusyInv
<1>12. LimitsHold'
  <2>1. \A i \in sessions' : live'[i].caller = live[i].caller
    BY <1>1, <1>3 DEF TypeOK
  <2> QED
    BY <2>1, <1>1, LimitsOfASubset
<1>13. EveryConnectionHasAnOwner'
  BY <1>1, <1>3, <1>4 DEF EveryConnectionHasAnOwner
<1> QED
  BY <1>6, <1>7, <1>8, <1>9, <1>10, <1>11, <1>12, <1>13

\* Checkout counts one command more, of the owner, on a session nobody removed.
LEMMA CheckoutStep ==
    ASSUME SInv, NEW x \in Execs, NEW id \in Sids, NEW caller \in Callers,
           Checkout(x, id, caller)
    PROVE  SInv'
<1> DEFINE owned == live[id].caller = caller
<1> USE DEF SInv
<1>1. /\ exec[x].pc = "idle" /\ id \in sessions
      /\ live' = [live EXCEPT ![id] = checkoutOwned(@, caller)]
      /\ exec' = IF owned
                 THEN [exec EXCEPT ![x] = [pc |-> "preflight", id |-> id, caller |-> caller]]
                 ELSE exec
      /\ UNCHANGED <<sessions, victims, opener, known, stopped, removedBy, now>>
  BY DEF Checkout
<1>2. /\ live'[id] = checkoutOwned(live[id], caller)
      /\ \A i \in Sids : i # id => live'[i] = live[i]
  BY <1>1 DEF TypeOK
<1>3. /\ checkoutOwned(live[id], caller) \in LiveSession
      /\ live'[id].conn = live[id].conn /\ live'[id].caller = live[id].caller
      /\ live'[id].busy = IF owned THEN live[id].busy + 1 ELSE live[id].busy
  BY <1>2, CheckoutFacts DEF TypeOK
<1>4. /\ \A y \in Execs : y # x => exec'[y] = exec[y]
      /\ owned => exec'[x].pc = "preflight" /\ exec'[x].id = id /\ exec'[x].caller = caller
      /\ ~owned => exec'[x] = exec[x]
  BY <1>1 DEF TypeOK
<1>5. live[id].conn = "open" /\ removedBy[id] = Nobody
  BY <1>1 DEF MapInv
<1>6. TypeOK'
  <2>1. live' \in [Sids -> LiveSession]
    BY <1>1, <1>3 DEF TypeOK
  <2>2. exec' \in [Execs -> ExecState]
    BY <1>1 DEF TypeOK, ExecState
  <2> QED
    BY <1>1, <2>1, <2>2 DEF TypeOK
<1>7. DialedInv'
  BY <1>1, <1>2, <1>3 DEF DialedInv, BusyInv
<1>8. BusyInv'
  BY <1>1, <1>2, <1>3, <1>4, <1>5 DEF BusyInv
<1>9. MapInv'
  BY <1>1, <1>2, <1>3 DEF MapInv, TypeOK
<1>10. BusyCountsCommands'
  <2>1. CASE owned
    <3>1. InFlight(id)' = InFlight(id) \cup {x} /\ x \notin InFlight(id)
      BY <1>1, <1>4, <2>1 DEF InFlight
    <3>2. \A i \in Sids : i # id => InFlight(i)' = InFlight(i)
      BY <1>1, <1>4, <2>1 DEF InFlight
    <3>3. Cardinality(InFlight(id)') = Cardinality(InFlight(id)) + 1
      BY <3>1, InFlightFinite, FS_AddElement
    <3> QED
      BY <3>2, <3>3, <1>2, <1>3, <2>1 DEF BusyCountsCommands
  <2>2. CASE ~owned
    BY <1>1, <1>2, <1>3, <2>2, SameCounts
  <2> QED
    BY <2>1, <2>2
<1>11. OnlyTheOwnerCutsOff'
  BY <1>1, <1>2, <1>3, <1>4, <1>5 DEF OnlyTheOwnerCutsOff, BusyInv
<1>12. LimitsHold'
  <2>1. \A i \in sessions' : live'[i].caller = live[i].caller
    BY <1>1, <1>2, <1>3 DEF TypeOK
  <2> QED
    BY <2>1, <1>1, LimitsOfASubset
<1>13. EveryConnectionHasAnOwner'
  BY <1>1, <1>2, <1>3 DEF EveryConnectionHasAnOwner
<1> QED
  BY <1>6, <1>7, <1>8, <1>9, <1>10, <1>11, <1>12, <1>13

\* Checkin takes the command off the count of its session, wherever that is now.
LEMMA CheckinStep ==
    ASSUME SInv, NEW x \in Execs, Checkin(x)
    PROVE  SInv'
<1> DEFINE id == exec[x].id
<1> USE DEF SInv
<1>1. /\ exec[x].pc # "idle"
      /\ live' = [live EXCEPT ![id] = checkin(@)]
      /\ exec' = [exec EXCEPT ![x] = IdleExec]
      /\ UNCHANGED <<sessions, victims, opener, known, stopped, removedBy, now>>
  BY DEF Checkin
<1>2. id \in Sids
  BY <1>1 DEF BusyInv
<1>3. /\ live'[id] = checkin(live[id])
      /\ \A i \in Sids : i # id => live'[i] = live[i]
  BY <1>1, <1>2 DEF TypeOK
<1>4. /\ checkin(live[id]) \in LiveSession
      /\ live'[id].conn = live[id].conn /\ live'[id].caller = live[id].caller
      /\ live'[id].busy = IF live[id].busy > 0 THEN live[id].busy - 1 ELSE 0
  BY <1>2, <1>3, CheckinFacts DEF TypeOK
<1>5. exec'[x] = IdleExec /\ \A y \in Execs : y # x => exec'[y] = exec[y]
  BY <1>1 DEF TypeOK
<1>6. exec'[x].pc = "idle"
  BY <1>5 DEF IdleExec
<1>7. TypeOK'
  <2>1. live' \in [Sids -> LiveSession]
    BY <1>1, <1>2, <1>4 DEF TypeOK
  <2>2. exec' \in [Execs -> ExecState]
    BY <1>1 DEF TypeOK, ExecState, IdleExec
  <2> QED
    BY <1>1, <2>1, <2>2 DEF TypeOK
<1>8. BusyCountsCommands'
  <2>1. PICK i \in Sids : i = id
    BY <1>2
  <2>2. InFlight(i)' = InFlight(i) \ {x} /\ x \in InFlight(i)
    BY <1>1, <1>5, <1>6, <2>1 DEF InFlight
  <2>3. \A j \in Sids : j # i => InFlight(j)' = InFlight(j)
    BY <1>1, <1>5, <1>6, <2>1 DEF InFlight
  <2>4. Cardinality(InFlight(i)') = Cardinality(InFlight(i)) - 1
    BY <2>2, InFlightFinite, FS_RemoveElement
  <2>5. Cardinality(InFlight(i)) \in Nat /\ Cardinality(InFlight(i)) # 0
    BY <2>2, InFlightFinite, FS_EmptySet
  <2> HIDE DEF id
  <2> QED
    BY <2>1, <2>3, <2>4, <2>5, <1>3, <1>4 DEF BusyCountsCommands
<1> HIDE DEF id
<1>9. DialedInv'
  BY <1>1, <1>3, <1>4 DEF DialedInv, BusyInv
<1>10. BusyInv'
  BY <1>1, <1>3, <1>4, <1>5, <1>6 DEF BusyInv
<1>11. MapInv'
  BY <1>1, <1>3, <1>4 DEF MapInv, TypeOK
<1>12. OnlyTheOwnerCutsOff'
  BY <1>1, <1>3, <1>4, <1>5, <1>6 DEF OnlyTheOwnerCutsOff, BusyInv
<1>13. LimitsHold'
  <2>1. \A i \in sessions' : live'[i].caller = live[i].caller
    BY <1>1, <1>3, <1>4 DEF TypeOK
  <2> QED
    BY <2>1, <1>1, LimitsOfASubset
<1>14. EveryConnectionHasAnOwner'
  BY <1>1, <1>3, <1>4 DEF EveryConnectionHasAnOwner
<1> QED
  BY <1>7, <1>8, <1>9, <1>10, <1>11, <1>12, <1>13, <1>14

\* Authorized moves a command on; it was in flight before and is still.
LEMMA AuthorizedStep ==
    ASSUME SInv, NEW x \in Execs, Authorized(x)
    PROVE  SInv'
<1> USE DEF SInv
<1>1. /\ exec[x].pc = "preflight" /\ exec' = [exec EXCEPT ![x].pc = "running"]
      /\ UNCHANGED <<sessions, live, victims, opener, known, stopped, removedBy, now>>
  BY DEF Authorized
<1>2. /\ exec' \in [Execs -> ExecState]
      /\ \A y \in Execs : /\ exec'[y].id = exec[y].id /\ exec'[y].caller = exec[y].caller
                          /\ exec'[y].pc = "idle" <=> exec[y].pc = "idle"
  BY <1>1 DEF TypeOK, ExecState
<1>3. TypeOK'
  BY <1>1, <1>2 DEF TypeOK
<1>4. DialedInv' /\ MapInv' /\ EveryConnectionHasAnOwner'
  BY <1>1 DEF DialedInv, MapInv, EveryConnectionHasAnOwner
<1>5. BusyInv' /\ OnlyTheOwnerCutsOff'
  BY <1>1, <1>2 DEF BusyInv, OnlyTheOwnerCutsOff
<1>6. BusyCountsCommands'
  <2>1. \A i : InFlight(i)' = InFlight(i)
    BY <1>2 DEF InFlight
  <2> QED
    BY <1>1, <2>1 DEF BusyCountsCommands
<1>7. LimitsHold'
  BY <1>1, LimitsOfASubset
<1> QED
  BY <1>3, <1>4, <1>5, <1>6, <1>7

\* Whoever takes sessions R out of the map becomes responsible for closing them;
\* commands in flight there are the remover's own, if there are any.
LEMMA RemovalStep ==
    ASSUME SInv, NEW R \in SUBSET sessions, NEW who \in Remover,
           \A x \in Execs : exec[x].pc # "idle" /\ exec[x].id \in R =>
               who = live[exec[x].id].caller,
           sessions' = sessions \ R,
           victims' = victims \cup R,
           removedBy' = [id \in Sids |-> IF id \in R THEN who ELSE removedBy[id]],
           UNCHANGED <<live, opener, exec, known, stopped, now>>
    PROVE  SInv'
<1> USE DEF SInv
<1>1. R \subseteq Sids /\ sessions \subseteq Sids
  BY DEF TypeOK
<1>2. TypeOK'
  BY <1>1 DEF TypeOK
<1>3. \A id \in Sids : removedBy'[id] = IF id \in R THEN who ELSE removedBy[id]
  OBVIOUS
<1>4. DialedInv'
  BY <1>1, <1>3 DEF DialedInv, BusyInv
<1>5. BusyInv'
  BY DEF BusyInv
<1>6. MapInv'
  BY <1>1, <1>3 DEF MapInv
<1>7. BusyCountsCommands'
  BY SameCounts
<1>8. OnlyTheOwnerCutsOff'
  BY <1>3 DEF OnlyTheOwnerCutsOff, BusyInv
<1>9. LimitsHold'
  BY LimitsOfASubset
<1>10. EveryConnectionHasAnOwner'
  BY DEF EveryConnectionHasAnOwner
<1> QED
  BY <1>2, <1>4, <1>5, <1>6, <1>7, <1>8, <1>9, <1>10

\* removeOwned: commands in flight are the owner's, and so is the removal.
LEMMA RemoveOwnedStep ==
    ASSUME SInv, NEW id \in Sids, NEW caller \in Callers, removeOwned(id, caller)
    PROVE  SInv'
<1>1. {id} \in SUBSET sessions /\ caller \in Remover
  BY DEF removeOwned, Remover
<1>2. \A x \in Execs : exec[x].pc # "idle" /\ exec[x].id \in {id} =>
          caller = live[exec[x].id].caller
  BY DEF removeOwned
<1>3. removedBy' = [i \in Sids |-> IF i \in {id} THEN caller ELSE removedBy[i]]
  BY DEF removeOwned, SInv, TypeOK
<1> QED
  BY <1>1, <1>2, <1>3, RemovalStep DEF removeOwned

\* reapExpired: a session with a count of zero has no command in flight.
LEMMA ReapStep ==
    ASSUME SInv, reapExpired
    PROVE  SInv'
<1>1. Expired \in SUBSET sessions /\ "reaper" \in Remover
  BY DEF Expired, Remover
<1>2. \A x \in Execs : exec[x].pc # "idle" /\ exec[x].id \in Expired =>
          "reaper" = live[exec[x].id].caller
  BY IdleSession DEF Expired, SInv, TypeOK
<1> QED
  BY <1>1, <1>2, RemovalStep DEF reapExpired

\* CloseVictim closes a connection that is in no map and in no opener's hands.
LEMMA CloseVictimStep ==
    ASSUME SInv, NEW id \in Sids, CloseVictim(id)
    PROVE  SInv'
<1> USE DEF SInv
<1>1. /\ id \in victims /\ victims' = victims \ {id}
      /\ live' = [live EXCEPT ![id] = close(@)]
      /\ UNCHANGED <<sessions, opener, exec, known, stopped, removedBy, now>>
  BY DEF CloseVictim
<1>2. id \notin sessions
  BY <1>1 DEF EveryConnectionHasAnOwner
<1>3. /\ live'[id] = close(live[id])
      /\ \A i \in Sids : i # id => live'[i] = live[i]
  BY <1>1 DEF TypeOK
<1>4. /\ close(live[id]) \in LiveSession /\ live'[id].conn = "closed"
      /\ live'[id].caller = live[id].caller /\ live'[id].busy = live[id].busy
  BY <1>3, CloseFacts DEF TypeOK
<1>5. TypeOK'
  BY <1>1, <1>4 DEF TypeOK
<1>6. DialedInv'
  BY <1>1, <1>3 DEF DialedInv, BusyInv
<1>7. BusyInv'
  BY <1>1, <1>3, <1>4 DEF BusyInv
<1>8. MapInv'
  BY <1>1, <1>2, <1>3, <1>4 DEF MapInv, TypeOK
<1>9. BusyCountsCommands'
  BY <1>1, <1>3, <1>4, SameCounts
<1>10. OnlyTheOwnerCutsOff'
  BY <1>1, <1>3, <1>4 DEF OnlyTheOwnerCutsOff, BusyInv
<1>11. LimitsHold'
  <2>1. \A i \in sessions' : live'[i].caller = live[i].caller
    BY <1>1, <1>3, <1>4 DEF TypeOK
  <2> QED
    BY <2>1, <1>1, LimitsOfASubset
<1>12. EveryConnectionHasAnOwner'
  BY <1>1, <1>3, <1>4 DEF EveryConnectionHasAnOwner
<1> QED
  BY <1>5, <1>6, <1>7, <1>8, <1>9, <1>10, <1>11, <1>12

\* closeAll empties the map and closes what was in it; what an OpenSession has
\* dialled and not added yet is still that OpenSession's.
LEMMA CloseAllStep ==
    ASSUME SInv, closeAll
    PROVE  SInv'
<1> USE DEF SInv
<1>1. /\ stopped' = TRUE /\ sessions' = {}
      /\ live' = [id \in Sids |-> IF id \in sessions THEN close(live[id]) ELSE live[id]]
      /\ removedBy' = [id \in Sids |-> IF id \in sessions THEN "shutdown" ELSE removedBy[id]]
      /\ UNCHANGED <<victims, opener, exec, known, now>>
  BY DEF closeAll
<1>2. \A id \in Sids :
        /\ live'[id] \in LiveSession
        /\ live'[id].caller = live[id].caller /\ live'[id].busy = live[id].busy
        /\ live'[id].conn = IF id \in sessions THEN "closed" ELSE live[id].conn
  BY <1>1, CloseFacts DEF TypeOK
<1>3. \A id \in Sids : removedBy'[id] = IF id \in sessions THEN "shutdown" ELSE removedBy[id]
  BY <1>1
<1>4. TypeOK'
  <2>1. live' \in [Sids -> LiveSession]
    BY <1>1, <1>2
  <2>2. removedBy' \in [Sids -> Remover]
    BY <1>1 DEF TypeOK, Remover
  <2> QED
    BY <1>1, <2>1, <2>2 DEF TypeOK
<1>5. DialedInv'
  BY <1>1, <1>2, <1>3 DEF DialedInv, BusyInv
<1>6. BusyInv'
  BY <1>1, <1>2 DEF BusyInv
<1>7. MapInv'
  BY <1>1, <1>2, <1>3 DEF MapInv
<1>8. BusyCountsCommands'
  BY <1>1, <1>2, SameCounts
<1>9. OnlyTheOwnerCutsOff'
  BY <1>1, <1>2, <1>3 DEF OnlyTheOwnerCutsOff, BusyInv
<1>10. LimitsHold'
  BY <1>1, LimitsOfASubset
<1>11. EveryConnectionHasAnOwner'
  BY <1>1, <1>2 DEF EveryConnectionHasAnOwner
<1> QED
  BY <1>4, <1>5, <1>6, <1>7, <1>8, <1>9, <1>10, <1>11

\* The clock is nobody's business here.
LEMMA TickStep ==
    ASSUME SInv, UNCHANGED <<sessions, live, victims, opener, exec, known, stopped, removedBy>>,
           now' \in Nat
    PROVE  SInv'
<1> USE DEF SInv
<1>1. TypeOK'
  BY DEF TypeOK
<1>2. BusyCountsCommands' /\ LimitsHold'
  BY SameCounts, LimitsOfASubset
<1>3. DialedInv' /\ BusyInv' /\ MapInv' /\ OnlyTheOwnerCutsOff' /\ EveryConnectionHasAnOwner'
  BY DEF DialedInv, BusyInv, MapInv, OnlyTheOwnerCutsOff, EveryConnectionHasAnOwner
<1> QED
  BY <1>1, <1>2, <1>3

-----------------------------------------------------------------------------
(* The theorems.                                                           *)

\* Nothing is open and nobody is busy when the broker starts.
LEMMA SessionsInit == Init => SInv
<1> SUFFICES ASSUME Init PROVE SInv
  OBVIOUS
<1>1. TypeOK
  BY DEF Init, TypeOK, LiveSession, NoSession, OpenerState, IdleOpener, ExecState, IdleExec,
         Remover
<1>2. DialedInv /\ BusyInv /\ MapInv /\ OnlyTheOwnerCutsOff /\ EveryConnectionHasAnOwner
  BY DEF Init, DialedInv, BusyInv, MapInv, OnlyTheOwnerCutsOff, EveryConnectionHasAnOwner,
         NoSession, IdleOpener, IdleExec
<1>3. BusyCountsCommands
  <2>1. \A id : InFlight(id) = {}
    BY DEF Init, InFlight, IdleExec
  <2> QED
    BY <2>1, FS_EmptySet DEF Init, BusyCountsCommands, NoSession
<1>4. LimitsHold
  <2>1. sessions = {} /\ \A caller : OfCaller(caller) = {}
    BY DEF Init, OfCaller
  <2> QED
    BY <2>1, FS_EmptySet, SessionBoundsAssumption DEF LimitsHold
<1> QED
  BY <1>1, <1>2, <1>3, <1>4 DEF SInv

\* Every step of the manager keeps the invariant.
LEMMA SessionsNext == SInv /\ [Next]_vars => SInv'
<1> SUFFICES ASSUME SInv, [Next]_vars PROVE SInv'
  OBVIOUS
<1>1. ASSUME NEW o \in Openers, NEW id \in Sids, NEW caller \in Callers, Dial(o, id, caller)
      PROVE  SInv'
  BY <1>1, DialStep
<1>2. ASSUME NEW o \in Openers, OpenerStep(o)
      PROVE  SInv'
  BY <1>2, GiveUpStep, AddStep, RecordStep DEF OpenerStep, OpenShellFails
<1>3. ASSUME NEW x \in Execs, NEW id \in Sids, NEW caller \in Callers, Checkout(x, id, caller)
      PROVE  SInv'
  BY <1>3, CheckoutStep
<1>4. ASSUME NEW x \in Execs, Authorized(x) \/ Checkin(x)
      PROVE  SInv'
  BY <1>4, AuthorizedStep, CheckinStep
<1>5. ASSUME NEW id \in Sids, NEW caller \in Callers, removeOwned(id, caller)
      PROVE  SInv'
  BY <1>5, RemoveOwnedStep
<1>6. ASSUME NEW id \in victims, CloseVictim(id)
      PROVE  SInv'
  BY <1>6, CloseVictimStep DEF SInv, TypeOK
<1>7. CASE reapExpired
  BY <1>7, ReapStep
<1>8. CASE closeAll
  BY <1>8, CloseAllStep
<1>9. CASE Tick
  BY <1>9, TickStep DEF Tick, SInv, TypeOK
<1>10. CASE UNCHANGED vars
  BY <1>10, TickStep DEF vars, SInv, TypeOK
<1> QED
  BY <1>1, <1>2, <1>3, <1>4, <1>5, <1>6, <1>7, <1>8, <1>9, <1>10 DEF Next

\* The counter that keeps the reaper away is the number of commands in flight,
\* however many SessionExecs, denials, failures and removals interleave.
THEOREM BusyIsExact == Spec => []BusyCountsCommands
<1>1. SInv => BusyCountsCommands
  BY DEF SInv
<1> QED
  BY <1>1, SessionsInit, SessionsNext, PTL DEF Spec

\* A command in flight belongs to its session's owner, and nobody but that owner
\* or the shutdown has taken its session out of the map.
THEOREM CommandsAreTheOwners == Spec => []OnlyTheOwnerCutsOff
<1>1. SInv => OnlyTheOwnerCutsOff
  BY DEF SInv
<1> QED
  BY <1>1, SessionsInit, SessionsNext, PTL DEF Spec

\* The global and the per-caller limit hold for any number of OpenSessions that
\* dial at the same time.
THEOREM SessionLimits == Spec => [](TypeOK /\ LimitsHold)
<1>1. SInv => TypeOK /\ LimitsHold
  BY DEF SInv
<1> QED
  BY <1>1, SessionsInit, SessionsNext, PTL DEF Spec

\* Every open connection is in the map or in the hands of exactly one goroutine
\* that will close or add it.
THEOREM NoConnectionForgotten == Spec => []EveryConnectionHasAnOwner
<1>1. SInv => EveryConnectionHasAnOwner
  BY DEF SInv
<1> QED
  BY <1>1, SessionsInit, SessionsNext, PTL DEF Spec
=============================================================================
