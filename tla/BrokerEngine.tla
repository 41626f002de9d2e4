---------------------------- MODULE BrokerEngine ----------------------------
(***************************************************************************)
(* The broker's engine (internal/broker/engine.go) against a remote        *)
(* signer: the cached host list and the calls that refresh it and build    *)
(* SSH connections from it.  Every look-up in the cache takes the lock on  *)
(* its own, so a list stored by another call may come between any two of   *)
(* them; a list is fetched outside the lock and may be stored late.        *)
(*                                                                         *)
(* A call is a round of the periodic refresh, a SessionExec, or an Execute *)
(* or OpenSession, which build their connection in the same way and differ *)
(* in what they do with it.  It is dialled hop by hop (internal/ssh).      *)
(* Owners, limits and the life of sessions are in SessionManager; what the *)
(* signer answers is a free choice.                                        *)
(***************************************************************************)
EXTENDS Naturals, Sequences, FiniteSets

CONSTANTS
    Hosts,      \* names of hosts
    Targets,    \* the hosts that callers ask for
    Routes,     \* what addr, user and host_key of a host may be
    Tables,     \* the host lists the signer may serve
    Calls,      \* goroutines
    Sids,       \* sessions
    Nil,        \* no host, no session
    MaxLists    \* bound on the lists the signer serves over time

HostInfo == [route: Routes, jump: Hosts \cup {Nil}]

ASSUME EngineAssumption ==
    /\ Nil \notin Hosts
    /\ Targets \subseteq Hosts
    /\ Nil \notin Sids
    /\ Calls \cap Sids = {}
    /\ \A t \in Tables : /\ DOMAIN t \subseteq Hosts
                         /\ \A h \in DOMAIN t : t[h] \in HostInfo

VARIABLES
    lists,      \* the lists served so far, the last one is current
    cache,      \* Engine.hosts, as an index into lists
    call,       \* the local state of each call
    up,         \* the SSH clients that calls and sessions have open, by hop
    sessions    \* the connections of open sessions

vars == <<lists, cache, call, up, sessions>>

Kinds == {"refresh", "connect", "sexec"}
PCs == {"idle", "fetch", "fetched", "check", "chain", "hops", "dial", "handshake",
        "sig", "bchain", "preflight", "setup", "run"}

\* A hop as it was read: the name and the list that was in the cache.
Hop == [name: Hosts, list: Nat]
Session == [open: BOOLEAN, host: Hosts \cup {Nil}, hops: Seq(Hop), sig: Seq(Hop),
            conn: SUBSET Nat]
NoSession == [open |-> FALSE, host |-> Nil, hops |-> <<>>, sig |-> <<>>, conn |-> {}]

\* got: the list the signer answered with.  cur, chain: resolveChain.  session: what
\* SessionExec checked out.  conn: the clients that its Conn knows.  since and inflight
\* are history: the current list when the call began, and the lists that other calls had
\* been answered with by then and had still to store.
CallState == [pc: PCs, kind: Kinds, host: Hosts \cup {Nil}, got: Nat,
              cur: Hosts \cup {Nil}, chain: Seq(Hosts), hops: Seq(Hop),
              conn: SUBSET Nat, session: Session, since: Nat, inflight: SUBSET Nat]
Idle == [pc |-> "idle", kind |-> "refresh", host |-> Nil, got |-> 0, cur |-> Nil,
         chain |-> <<>>, hops |-> <<>>, conn |-> {}, session |-> NoSession,
         since |-> 0, inflight |-> {}]

Simple(seq) == \A i, j \in DOMAIN seq : seq[i] = seq[j] => i = j

\* Everything has its type, and no chain visits a host twice.
TypeOK ==
    /\ lists \in Seq(Tables)
    /\ cache \in 1..Len(lists)
    /\ call \in [Calls -> CallState]
    /\ up \in [Calls \cup Sids -> SUBSET Nat]
    /\ sessions \in [Sids -> Session]
    /\ \A c \in Calls : Simple(call[c].chain)

\* NewEngine has loaded the first list.
Init ==
    /\ \E t \in Tables : lists = <<t>>
    /\ cache = 1
    /\ call = [c \in Calls |-> Idle]
    /\ up = [x \in Calls \cup Sids |-> {}]
    /\ sessions = [s \in Sids |-> NoSession]

-----------------------------------------------------------------------------
(* The host list.                                                          *)

\* hostInfo: one look-up under the read lock.
Known(name) == name \in DOMAIN lists[cache]
hostInfo(name) == lists[cache][name]
InfoOf(hop) == lists[hop.list][hop.name]

\* The signer serves another list from now on.
Publish(t) ==
    /\ Len(lists) < MaxLists
    /\ lists' = Append(lists, t)
    /\ UNCHANGED <<cache, call, up, sessions>>

End(c) == call' = [call EXCEPT ![c] = Idle]

\* A call begins; SessionExec has checked its session out.
Begin(c, kind, host, session) ==
    /\ call[c].pc = "idle"
    /\ call' = [call EXCEPT ![c] =
                  [Idle EXCEPT !.pc = "fetch", !.kind = kind, !.host = host,
                               !.session = session, !.since = Len(lists),
                               !.inflight = {call[q].got : q \in
                                               {p \in Calls : call[p].pc = "fetched"}}]]
    /\ UNCHANGED <<lists, cache, up, sessions>>

Start(c) ==
    \/ Begin(c, "refresh", Nil, NoSession)
    \/ \E host \in Targets : Begin(c, "connect", host, NoSession)
    \/ \E s \in Sids : /\ sessions[s].open
                       /\ Begin(c, "sexec", sessions[s].host, sessions[s])

\* FetchHosts: the signer answers with its current list.
Fetch(c) ==
    /\ call[c].pc = "fetch"
    /\ call' = [call EXCEPT ![c].pc = "fetched", ![c].got = Len(lists)]
    /\ UNCHANGED <<lists, cache, up, sessions>>

FetchFails_UsesCache(c) ==
    /\ call[c].pc = "fetch"
    /\ IF call[c].kind = "refresh" THEN End(c)
       ELSE call' = [call EXCEPT ![c].pc = "check"]
    /\ UNCHANGED <<lists, cache, up, sessions>>

FetchFails_NoTimeout(c) ==
    /\ call[c].pc = "fetch"
    /\ call[c].kind = "refresh"
    /\ End(c)
    /\ UNCHANGED <<lists, cache, up, sessions>>

\* The signer cannot be reached, refuses or is too slow: the call fails closed, and
\* the periodic refresh keeps the cache.
FetchFails(c) ==
    /\ call[c].pc = "fetch"
    /\ End(c)
    /\ UNCHANGED <<lists, cache, up, sessions>>

\* The answer replaces the cache, whatever is in it by now.
Store(c) ==
    /\ call[c].pc = "fetched"
    /\ cache' = call[c].got
    /\ call' = [call EXCEPT ![c] =
                  CASE call[c].kind = "refresh" -> Idle
                    [] call[c].kind = "sexec" -> [call[c] EXCEPT !.pc = "chain",
                                                    !.cur = call[c].host, !.got = 0]
                    [] OTHER -> [call[c] EXCEPT !.pc = "check", !.got = 0]]
    /\ UNCHANGED <<lists, up, sessions>>

\* The host must be known and the request well-formed.
Check(c) ==
    /\ call[c].pc = "check"
    /\ \/ /\ Known(call[c].host)
          /\ call' = [call EXCEPT ![c].pc = "chain", ![c].cur = call[c].host]
       \/ End(c)
    /\ UNCHANGED <<lists, cache, up, sessions>>

-----------------------------------------------------------------------------
(* resolveChain, and reading the hops of the chain.                        *)

Visited(c, name) == \E i \in DOMAIN call[c].chain : call[c].chain[i] = name

\* What follows resolveChain: signing the hops, the signature of the current route,
\* or the preflight of its bastions.
AfterChain(c) ==
    CASE call[c].pc = "bchain" -> "preflight"
      [] call[c].kind = "sexec" -> "sig"
      [] OTHER -> "hops"

resolveChain_NoCycleCheck(c) ==
    LET cur == call[c].cur IN
    /\ call[c].pc \in {"chain", "bchain"}
    /\ IF ~Known(cur) THEN End(c)
       ELSE call' = [call EXCEPT ![c].chain = <<cur>> \o @,
                                 ![c].cur = hostInfo(cur).jump,
                                 ![c].pc = IF hostInfo(cur).jump = Nil
                                           THEN AfterChain(c) ELSE @]
    /\ UNCHANGED <<lists, cache, up, sessions>>

\* One round of the loop: follow jump, fail on a cycle or an unknown host.
resolveChain(c) ==
    LET cur == call[c].cur IN
    /\ call[c].pc \in {"chain", "bchain"}
    /\ IF Visited(c, cur) \/ ~Known(cur) THEN End(c)
       ELSE call' = [call EXCEPT ![c].chain = <<cur>> \o @,
                                 ![c].cur = hostInfo(cur).jump,
                                 ![c].pc = IF hostInfo(cur).jump = Nil
                                           THEN AfterChain(c) ELSE @]
    /\ UNCHANGED <<lists, cache, up, sessions>>

NextName(c) == call[c].chain[Len(call[c].hops) + 1]
LastHop(c) == Len(call[c].hops) + 1 = Len(call[c].chain)
ReadHop(c) == Append(call[c].hops, [name |-> NextName(c), list |-> cache])

\* buildHops, buildHopsWithPrefix: look the next hop up again and ask the signer for
\* its certificate; any failure ends the call.
buildHops(c) ==
    /\ call[c].pc = "hops"
    /\ \/ /\ Known(NextName(c))
          /\ call' = [call EXCEPT ![c].hops = ReadHop(c),
                                  ![c].chain = IF LastHop(c) THEN <<>> ELSE @,
                                  ![c].pc = IF LastHop(c) THEN "dial" ELSE "hops"]
       \/ End(c)
    /\ UNCHANGED <<lists, cache, up, sessions>>

\* Name, addr, user, host_key and jump of every hop, in order.
Signature(hops) == [i \in DOMAIN hops |-> <<hops[i].name, InfoOf(hops[i])>>]

\* connectivitySignature and the comparison: a session whose route has changed runs
\* nothing any more.  Then authorizeSessionBastions resolves the chain once more.
connectivitySignature(c) ==
    /\ call[c].pc = "sig"
    /\ IF ~Known(NextName(c)) THEN End(c)
       ELSE IF ~LastHop(c)
       THEN call' = [call EXCEPT ![c].hops = ReadHop(c)]
       ELSE IF Signature(ReadHop(c)) = Signature(call[c].session.sig)
       THEN call' = [call EXCEPT ![c].hops = <<>>, ![c].pc = "bchain",
                                 ![c].chain = <<>>, ![c].cur = call[c].host]
       ELSE End(c)
    /\ UNCHANGED <<lists, cache, up, sessions>>

\* The signer allows every bastion of that chain and the command, or the call ends.
Preflight(c) ==
    /\ call[c].pc = "preflight"
    /\ \/ call' = [call EXCEPT ![c].pc = "setup"]
       \/ End(c)
    /\ UNCHANGED <<lists, cache, up, sessions>>

-----------------------------------------------------------------------------
(* Connections.                                                            *)

\* Dial: the next hop accepts the TCP connection, or the one before opens a channel to
\* it.
DialHop(c) ==
    /\ call[c].pc = "dial"
    /\ call' = [call EXCEPT ![c].pc = "handshake"]
    /\ UNCHANGED <<lists, cache, up, sessions>>

Handshake_ForgetsHop(c) ==
    LET n == Cardinality(up[c]) + 1 IN
    /\ call[c].pc = "handshake"
    /\ up' = [up EXCEPT ![c] = @ \cup {n}]
    /\ call' = [call EXCEPT ![c].conn = {n},
                            ![c].pc = IF n = Len(call[c].hops) THEN "setup" ELSE "dial"]
    /\ UNCHANGED <<lists, cache, sessions>>

\* ssh.NewClientConn with that hop: the client before becomes one of the connection's
\* closers.
Handshake(c) ==
    LET n == Cardinality(up[c]) + 1 IN
    /\ call[c].pc = "handshake"
    /\ up' = [up EXCEPT ![c] = @ \cup {n}]
    /\ call' = [call EXCEPT ![c].conn = @ \cup {n},
                            ![c].pc = IF n = Len(call[c].hops) THEN "setup" ELSE "dial"]
    /\ UNCHANGED <<lists, cache, sessions>>

\* The target opens a session channel, with a PTY or a shell if the call asks for one.
SetUp(c) ==
    /\ call[c].pc = "setup"
    /\ call' = [call EXCEPT ![c].pc = "run"]
    /\ UNCHANGED <<lists, cache, up, sessions>>

\* Conn.Close and closeAll: the client of the target, then the closers.
Close(x, conn) == up' = [up EXCEPT ![x] = @ \ conn]

\* The hops have been read: the connection is being built, or used.
Connecting == {"dial", "handshake", "setup", "run"}

\* A dial, a handshake or the set-up fails; the command is over: completed, failed,
\* timed out or cancelled; or OpenSession is over a limit.  What the call holds is
\* closed.  A session keeps its own connection.
Finish(c) ==
    /\ call[c].pc \in Connecting
    /\ Close(c, call[c].conn)
    /\ End(c)
    /\ UNCHANGED <<lists, cache, sessions>>

Register_SignsLater(c, s) ==
    /\ call[c].pc = "run"
    /\ call[c].kind = "connect"
    /\ sessions[s] = NoSession
    /\ sessions' = [sessions EXCEPT ![s] =
                      [open |-> TRUE, host |-> call[c].host, hops |-> call[c].hops,
                       sig |-> [i \in DOMAIN call[c].hops |->
                                  IF call[c].hops[i].name \in DOMAIN lists[cache]
                                  THEN [call[c].hops[i] EXCEPT !.list = cache]
                                  ELSE call[c].hops[i]],
                       conn |-> call[c].conn]]
    /\ up' = [up EXCEPT ![s] = up[c], ![c] = {}]
    /\ End(c)
    /\ UNCHANGED <<lists, cache>>

\* OpenSession keeps the connection and the signature of the hops it was built from.
Register(c, s) ==
    /\ call[c].pc = "run"
    /\ call[c].kind = "connect"
    /\ sessions[s] = NoSession
    /\ sessions' = [sessions EXCEPT ![s] =
                      [open |-> TRUE, host |-> call[c].host, hops |-> call[c].hops,
                       sig |-> call[c].hops, conn |-> call[c].conn]]
    /\ up' = [up EXCEPT ![s] = up[c], ![c] = {}]
    /\ End(c)
    /\ UNCHANGED <<lists, cache>>

\* The session is closed, by its owner, the reaper or the shutdown, even under a
\* command.
CloseSession(s) ==
    /\ sessions[s].open
    /\ Close(s, sessions[s].conn)
    /\ sessions' = [sessions EXCEPT ![s] = NoSession]
    /\ UNCHANGED <<lists, cache, call>>

-----------------------------------------------------------------------------
Work(c) == \/ Store(c) \/ Check(c) \/ resolveChain(c) \/ buildHops(c)
           \/ connectivitySignature(c) \/ Preflight(c)

Next ==
    \/ \E t \in Tables : Publish(t)
    \/ \E c \in Calls : \/ Start(c) \/ Fetch(c) \/ FetchFails(c) \/ Work(c)
                        \/ DialHop(c) \/ Handshake(c) \/ SetUp(c) \/ Finish(c)
                        \/ \E s \in Sids : Register(c, s)
    \/ \E s \in Sids : CloseSession(s)

\* What the code waits for with a deadline: the TCP connection or the channel to the
\* next hop, 10 s, and the command, 10 min.  A handshake and the set-up of a session
\* have none.
TimesOut(c) == call[c].pc \in {"dial", "run"} /\ Finish(c)

\* Goroutines run, and the signer's client gives up after 10 s.  The signer and the
\* hosts need not answer, and callers need not call.
Fairness ==
    \A c \in Calls : WF_vars(FetchFails(c)) /\ WF_vars(Work(c)) /\ WF_vars(TimesOut(c))

Spec == Init /\ [][Next]_vars /\ Fairness

-----------------------------------------------------------------------------
(* Properties.                                                             *)

\* The list was current when the call began or later, or another call had been
\* answered with it by then and had not stored it yet.
Recent(c, list) == list >= call[c].since \/ list \in call[c].inflight

\* A new connection is never built from an older host list than the code can know:
\* every hop was read from a list that was current when the call began, or that was
\* on its way into the cache.  A failed refresh, or one that another call overtakes,
\* does not let older data through.
RoutesAreRecent ==
    \A c \in Calls : call[c].pc \in Connecting =>
        \A i \in DOMAIN call[c].hops : Recent(c, call[c].hops[i].list)

\* A session runs a command only if each hop that its connection really goes through
\* still has the name, address, user, host key and jump that a recent list gives it,
\* although the cache may change between any two look-ups, while the session was
\* opened and now.
SessionRouteIsRecent ==
    \A c \in Calls : call[c].kind = "sexec" /\ call[c].pc \in {"preflight", "setup", "run"} =>
        LET hops == call[c].session.hops IN
        \A i \in DOMAIN hops : \E v \in 1..Len(lists) :
            /\ Recent(c, v)
            /\ hops[i].name \in DOMAIN lists[v]
            /\ lists[v][hops[i].name] = InfoOf(hops[i])

\* No SSH client is left open: when a call is over and when a session is closed, so
\* are all the clients of the chain, however far the chain was dialled.
NoClientLeaks ==
    /\ \A c \in Calls : call[c].pc = "idle" => up[c] = {}
    /\ \A s \in Sids : ~sessions[s].open => up[s] = {}

\* A call ends, also if the signer is silent, no host can be reached and the host list
\* has a cycle; only one host that accepts the connection and then stays silent for ever,
\* in its SSH handshake or while a session is set up on it, can hold the call for ever.
OnlyAHostHoldsACall ==
    \A c \in Calls : \/ []<>(call[c].pc = "idle")
                     \/ <>[](call[c].pc = "handshake")
                     \/ <>[](call[c].pc = "setup")

\* "New ssh_execute and ssh_session_open calls refresh the host view immediately
\* before building SSH hops [...] so new connections do not silently use stale
\* addr/host_key/jump data" (docs/ARCHITECTURE.md:186-188): every hop is from a list
\* that was current when the call began, or a later one.
NewConnectionsAreCurrent ==
    \A c \in Calls : call[c].pc \in Connecting =>
        \A i \in DOMAIN call[c].hops : call[c].hops[i].list >= call[c].since
=============================================================================
