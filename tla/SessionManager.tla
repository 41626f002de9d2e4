--------------------------- MODULE SessionManager ---------------------------
(***************************************************************************)
(* The broker's persistent SSH sessions (internal/broker/session.go): the  *)
(* session map with its limits, OpenSession, SessionExec and CloseSession, *)
(* the reaper and the shutdown.  The manager's mutex makes each access to  *)
(* the map one step.  Dialling, the signer's preflight, the remote command,*)
(* opening the recording and closing a connection happen outside it and    *)
(* interleave with everything else.                                        *)
(***************************************************************************)
EXTENDS Naturals, FiniteSets

CONSTANTS
    Sids,                  \* session identifiers, random and never reused
    Callers,               \* end users or client names
    Openers,               \* goroutines that run OpenSession
    Execs,                 \* goroutines that run SessionExec
    maxSessionsGlobal,
    maxSessionsPerCaller,
    idleTTL, maxLife,      \* in clock ticks
    Nobody,                \* no caller, no session
    MaxTime                \* bound on the clock

ASSUME SessionNamesAssumption ==
    /\ Nobody \notin Callers
    /\ Nobody \notin Sids
    /\ {"reaper", "shutdown"} \cap Callers = {}
    /\ IsFiniteSet(Sids)
    /\ IsFiniteSet(Execs)

ASSUME SessionBoundsAssumption ==
    /\ maxSessionsGlobal \in Nat
    /\ maxSessionsPerCaller \in Nat
    /\ idleTTL \in Nat
    /\ maxLife \in Nat
    /\ MaxTime \in Nat

VARIABLES
    sessions,   \* the keys of sessionManager.sessions
    live,       \* the liveSession object of each id
    victims,    \* removed from the map, close() not called yet
    opener,     \* the local state of each OpenSession
    exec,       \* the local state of each SessionExec
    known,      \* ids OpenSession has returned
    stopped,    \* closeAll has run: the reaper is gone
    removedBy,  \* history: who took the session out of the map
    now

vars == <<sessions, live, victims, opener, exec, known, stopped, removedBy, now>>

\* conn and recorder are resources that someone must close; the recorder field
\* is nil in sessions that are not recorded.
LiveSession ==
    [conn: {"none", "open", "closed"}, recorder: {"nil", "open", "closed"},
     caller: Callers \cup {Nobody}, created: Nat, lastUsed: Nat, busy: Nat]

NoSession == [conn |-> "none", recorder |-> "nil", caller |-> Nobody,
              created |-> 0, lastUsed |-> 0, busy |-> 0]

OpenerState == [pc: {"idle", "dialed", "added"}, id: Sids \cup {Nobody}]
IdleOpener == [pc |-> "idle", id |-> Nobody]

ExecState == [pc: {"idle", "preflight", "running"}, id: Sids \cup {Nobody},
              caller: Callers \cup {Nobody}]
IdleExec == [pc |-> "idle", id |-> Nobody, caller |-> Nobody]

Remover == Callers \cup {Nobody, "reaper", "shutdown"}

TypeOK ==
    /\ sessions \in SUBSET Sids
    /\ live \in [Sids -> LiveSession]
    /\ victims \in SUBSET Sids
    /\ opener \in [Openers -> OpenerState]
    /\ exec \in [Execs -> ExecState]
    /\ known \in SUBSET Sids
    /\ stopped \in BOOLEAN
    /\ removedBy \in [Sids -> Remover]
    /\ now \in Nat

Init ==
    /\ sessions = {}
    /\ live = [id \in Sids |-> NoSession]
    /\ victims = {}
    /\ opener = [o \in Openers |-> IdleOpener]
    /\ exec = [x \in Execs |-> IdleExec]
    /\ known = {}
    /\ stopped = FALSE
    /\ removedBy = [id \in Sids |-> Nobody]
    /\ now = 0

-----------------------------------------------------------------------------
(* What the manager's operations do to one session object.                 *)

close_LeavesConn(s) ==
    [s EXCEPT !.recorder = IF @ = "open" THEN "closed" ELSE @,
              !.conn = IF s.recorder = "open" THEN @ ELSE "closed"]

\* liveSession.close: the recorder if there is one, the shell and the connection.
close(s) == [s EXCEPT !.recorder = IF @ = "open" THEN "closed" ELSE @,
                      !.conn = "closed"]

\* The owner's command is counted as in flight; a probe changes nothing.
checkoutOwned(s, caller) ==
    IF s.caller # caller THEN s
    ELSE [s EXCEPT !.lastUsed = now, !.busy = @ + 1]

\* The command is over, and the idle clock restarts.
checkin(s) == [s EXCEPT !.busy = IF @ > 0 THEN @ - 1 ELSE 0, !.lastUsed = now]

OfCaller(caller) == {id \in sessions : live[id].caller = caller}

LimitReached_OffByOne(caller) ==
    \/ Cardinality(sessions) > maxSessionsGlobal
    \/ Cardinality(OfCaller(caller)) > maxSessionsPerCaller

\* The limits that add enforces, under the lock.
LimitReached(caller) ==
    \/ Cardinality(sessions) >= maxSessionsGlobal
    \/ Cardinality(OfCaller(caller)) >= maxSessionsPerCaller

Overdue(s) == now > s.lastUsed + idleTTL \/ now > s.created + maxLife

Expired_WhileBusy == {id \in sessions : Overdue(live[id])}

\* What reapExpired removes: never a session with a command in flight.
Expired == {id \in sessions : live[id].busy = 0 /\ Overdue(live[id])}

-----------------------------------------------------------------------------
(* OpenSession.                                                            *)

\* The host is known, the signer issued the certificates and the connection is
\* up; every earlier failure leaves nothing behind.
Dial(o, id, caller) ==
    /\ opener[o].pc = "idle"
    /\ live[id].conn = "none"
    /\ now + maxLife < MaxTime
    /\ live' = [live EXCEPT ![id] =
                   [conn |-> "open", recorder |-> "nil", caller |-> caller,
                    created |-> now, lastUsed |-> now, busy |-> 0]]
    /\ opener' = [opener EXCEPT ![o] = [pc |-> "dialed", id |-> id]]
    /\ UNCHANGED <<sessions, victims, exec, known, stopped, removedBy, now>>

\* The shell cannot be opened on the connection.
OpenShellFails(o) ==
    /\ opener[o].pc = "dialed"
    /\ live' = [live EXCEPT ![opener[o].id] = close(@)]
    /\ opener' = [opener EXCEPT ![o] = IdleOpener]
    /\ UNCHANGED <<sessions, victims, exec, known, stopped, removedBy, now>>

add_KeepsConn(o) ==
    LET id == opener[o].id IN
    /\ opener[o].pc = "dialed"
    /\ IF LimitReached(live[id].caller)
       THEN /\ opener' = [opener EXCEPT ![o] = IdleOpener]
            /\ UNCHANGED sessions
       ELSE /\ sessions' = sessions \cup {id}
            /\ opener' = [opener EXCEPT ![o].pc = "added"]
    /\ UNCHANGED <<live, victims, exec, known, stopped, removedBy, now>>

\* Over a limit the new session is closed and OpenSession fails.
add(o) ==
    LET id == opener[o].id IN
    /\ opener[o].pc = "dialed"
    /\ IF LimitReached(live[id].caller)
       THEN /\ live' = [live EXCEPT ![id] = close(@)]
            /\ opener' = [opener EXCEPT ![o] = IdleOpener]
            /\ UNCHANGED sessions
       ELSE /\ sessions' = sessions \cup {id}
            /\ opener' = [opener EXCEPT ![o].pc = "added"]
            /\ UNCHANGED live
    /\ UNCHANGED <<victims, exec, known, stopped, removedBy, now>>

\* The recording starts after the session is in the map (shell and pty sessions,
\* when a directory is configured and the file can be created); then the id is
\* returned.
Record(o, records) ==
    LET id == opener[o].id IN
    /\ opener[o].pc = "added"
    /\ live' = IF records THEN [live EXCEPT ![id].recorder = "open"] ELSE live
    /\ known' = known \cup {id}
    /\ opener' = [opener EXCEPT ![o] = IdleOpener]
    /\ UNCHANGED <<sessions, victims, exec, stopped, removedBy, now>>

-----------------------------------------------------------------------------
(* SessionExec and CloseSession.  Any caller may hold the id.              *)

Checkout(x, id, caller) ==
    LET owned == live[id].caller = caller IN
    /\ exec[x].pc = "idle"
    /\ id \in known \cap sessions
    /\ live' = [live EXCEPT ![id] = checkoutOwned(@, caller)]
    /\ exec' = IF owned
               THEN [exec EXCEPT ![x] = [pc |-> "preflight", id |-> id,
                                         caller |-> caller]]
               ELSE exec
    /\ UNCHANGED <<sessions, victims, opener, known, stopped, removedBy, now>>

\* The signer allows the command under the current policy and connectivity.
Authorized(x) ==
    /\ exec[x].pc = "preflight"
    /\ exec' = [exec EXCEPT ![x].pc = "running"]
    /\ UNCHANGED <<sessions, live, victims, opener, known, stopped, removedBy, now>>

Checkin_SkippedOnDenial(x) ==
    /\ exec[x].pc \in {"preflight", "running"}
    /\ live' = IF exec[x].pc = "preflight" THEN live
               ELSE [live EXCEPT ![exec[x].id] = checkin(@)]
    /\ exec' = [exec EXCEPT ![x] = IdleExec]
    /\ UNCHANGED <<sessions, victims, opener, known, stopped, removedBy, now>>

\* The deferred checkin, however the command ended: rejected before or by the
\* preflight, failed, or completed.
Checkin(x) ==
    /\ exec[x].pc \in {"preflight", "running"}
    /\ live' = [live EXCEPT ![exec[x].id] = checkin(@)]
    /\ exec' = [exec EXCEPT ![x] = IdleExec]
    /\ UNCHANGED <<sessions, victims, opener, known, stopped, removedBy, now>>

\* CloseSession takes the session out of the map, even under a running command.
removeOwned(id, caller) ==
    /\ id \in known \cap sessions
    /\ live[id].caller = caller
    /\ sessions' = sessions \ {id}
    /\ victims' = victims \cup {id}
    /\ removedBy' = [removedBy EXCEPT ![id] = caller]
    /\ UNCHANGED <<live, opener, exec, known, stopped, now>>

\* CloseSession and reapExpired close what they removed outside the lock.
CloseVictim(id) ==
    /\ id \in victims
    /\ victims' = victims \ {id}
    /\ live' = [live EXCEPT ![id] = close(@)]
    /\ UNCHANGED <<sessions, opener, exec, known, stopped, removedBy, now>>

-----------------------------------------------------------------------------
(* The reaper, the shutdown and the clock.                                 *)

reapExpired ==
    /\ ~stopped
    /\ Expired # {}
    /\ sessions' = sessions \ Expired
    /\ victims' = victims \cup Expired
    /\ removedBy' = [id \in Sids |-> IF id \in Expired THEN "reaper" ELSE removedBy[id]]
    /\ UNCHANGED <<live, opener, exec, known, stopped, now>>

\* closeAll closes every session of the map under the lock, and only once.
closeAll ==
    /\ ~stopped
    /\ stopped' = TRUE
    /\ live' = [id \in Sids |-> IF id \in sessions THEN close(live[id]) ELSE live[id]]
    /\ removedBy' = [id \in Sids |-> IF id \in sessions THEN "shutdown" ELSE removedBy[id]]
    /\ sessions' = {}
    /\ UNCHANGED <<victims, opener, exec, known, now>>

Tick ==
    /\ now < MaxTime
    /\ now' = now + 1
    /\ UNCHANGED <<sessions, live, victims, opener, exec, known, stopped, removedBy>>

OpenerStep(o) == OpenShellFails(o) \/ add(o) \/ \E records \in BOOLEAN : Record(o, records)

Next ==
    \/ \E o \in Openers, id \in Sids, caller \in Callers : Dial(o, id, caller)
    \/ \E o \in Openers : OpenerStep(o)
    \/ \E x \in Execs, id \in Sids, caller \in Callers : Checkout(x, id, caller)
    \/ \E x \in Execs : Authorized(x) \/ Checkin(x)
    \/ \E id \in Sids, caller \in Callers : removeOwned(id, caller)
    \/ \E id \in victims : CloseVictim(id)
    \/ reapExpired
    \/ closeAll
    \/ Tick

\* Removed sessions get closed, the reaper ticks and the clock moves.  Nothing is
\* assumed of the callers, nor of the hosts: setting up a shell or starting a command
\* has no deadline (internal/ssh/run.go:255), so an open or a command may hang.
Fairness ==
    /\ \A id \in Sids : WF_vars(CloseVictim(id))
    /\ WF_vars(reapExpired)
    /\ WF_vars(Tick)

Spec == Init /\ [][Next]_vars /\ Fairness

-----------------------------------------------------------------------------
(* Properties.                                                             *)

InFlight(id) == {x \in Execs : exec[x].pc # "idle" /\ exec[x].id = id}

\* The busy counter is the number of commands in flight, on every path out of
\* SessionExec and also after the session has been taken out of the map: a count
\* that is too high keeps the reaper away for ever, one that is too low lets it
\* close the connection under a command.
BusyCountsCommands ==
    \A id \in Sids : live[id].busy = Cardinality(InFlight(id))

\* A command in flight is its session's owner's, and only the owner and the shutdown end
\* the session under it.  Any caller may know the id, and the reaper chooses its victims
\* under the lock and closes them later: no command gets hold of one in between.
OnlyTheOwnerCutsOff ==
    \A x \in Execs : exec[x].pc # "idle" =>
        LET owner == live[exec[x].id].caller
        IN exec[x].caller = owner /\ removedBy[exec[x].id] \in {Nobody, "shutdown", owner}

\* The limits hold although every OpenSession dials before it asks for a place.
LimitsHold ==
    /\ Cardinality(sessions) <= maxSessionsGlobal
    /\ \A caller \in Callers : Cardinality(OfCaller(caller)) <= maxSessionsPerCaller

\* No connection is forgotten: an open one is in the map, or somebody who removed
\* it, or has yet to add it, is about to deal with it; and none is in two hands.
EveryConnectionHasAnOwner ==
    /\ \A id \in Sids : live[id].conn = "open" =>
          \/ id \in sessions
          \/ id \in victims
          \/ \E o \in Openers : opener[o].pc = "dialed" /\ opener[o].id = id
    /\ sessions \cap victims = {}

\* A session whose commands come to an end is closed in the end, whether or not
\* its caller remembers to: until the shutdown, the reaper's idle and lifetime
\* limits catch every session of the map.
AbandonedSessionsEnd ==
    \A id \in Sids :
        <>[](live[id].busy = 0 /\ ~stopped) => [](id \in sessions => <>(live[id].conn = "closed"))
=============================================================================
