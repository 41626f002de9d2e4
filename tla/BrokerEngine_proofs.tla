------------------------ MODULE BrokerEngine_proofs ------------------------
(***************************************************************************)
(* Proofs about BrokerEngine for every set of hosts, host lists, calls and *)
(* sessions: what a call has read from the cache is never older than the   *)
(* lists that were current, or on their way into the cache, when the call  *)
(* began; a session's commands go the way that a recent list describes;    *)
(* and no SSH client is left open.                                         *)
(***************************************************************************)
EXTENDS BrokerEngine, FiniteSetTheorems, TLAPS

\* The clients that are up are finitely many, so that the next one has a number, and
\* a list that waits to be stored has been served.
TypeInv ==
    /\ TypeOK
    /\ \A x \in Calls \cup Sids : IsFiniteSet(up[x])
    /\ \A c \in Calls : call[c].pc = "fetched" => call[c].got \in 1..Len(lists)

\* What hostInfo returns for a known host is an entry of the kind the signer serves.
LEMMA HostInfoType ==
    ASSUME TypeInv, NEW name, Known(name)
    PROVE  name \in Hosts /\ name # Nil /\ hostInfo(name) \in HostInfo
  <1>1. lists[cache] \in Tables
    BY DEF TypeInv, TypeOK
  <1> QED BY <1>1, EngineAssumption DEF Known, hostInfo

\* A chain that is extended by a host that it does not visit yet stays simple.
LEMMA ExtendChain ==
    ASSUME NEW chain \in Seq(Hosts), NEW name \in Hosts, Simple(chain),
           ~\E i \in DOMAIN chain : chain[i] = name
    PROVE  <<name>> \o chain \in Seq(Hosts) /\ Simple(<<name>> \o chain)
  <1>1. /\ <<name>> \o chain \in Seq(Hosts)
        /\ Len(<<name>> \o chain) = 1 + Len(chain)
        /\ (<<name>> \o chain)[1] = name
        /\ \A i \in 2..(1 + Len(chain)) : (<<name>> \o chain)[i] = chain[i - 1]
    OBVIOUS
  <1> DEFINE new == <<name>> \o chain
  <1> HIDE DEF new
  <1>2. ASSUME NEW i \in DOMAIN new, NEW j \in DOMAIN new, new[i] = new[j]
        PROVE  i = j
    <2>1. DOMAIN new = 1..(1 + Len(chain)) /\ DOMAIN chain = 1..Len(chain)
      BY <1>1 DEF new
    <2>2. /\ new[1] = name
          /\ \A k \in 2..(1 + Len(chain)) : new[k] = chain[k - 1] /\ k - 1 \in DOMAIN chain
      BY <1>1, <2>1 DEF new
    <2> QED BY <1>2, <2>1, <2>2 DEF Simple
  <1> QED BY <1>1, <1>2 DEF Simple, new

\* The initial state has its types.
LEMMA InitTypes == Init => TypeInv
  <1> SUFFICES ASSUME Init PROVE TypeInv
    OBVIOUS
  <1>1. PICK t \in Tables : lists = <<t>>
    BY DEF Init
  <1>2. lists \in Seq(Tables) /\ cache \in 1..Len(lists)
    BY <1>1 DEF Init
  <1>3. call \in [Calls -> CallState] /\ \A c \in Calls : Simple(call[c].chain)
    BY DEF Init, Idle, CallState, NoSession, Session, PCs, Kinds, Simple
  <1>3a. \A c \in Calls : call[c].pc # "fetched"
    BY DEF Init, Idle
  <1>4. sessions \in [Sids -> Session]
    BY DEF Init, NoSession, Session
  <1>5. /\ up \in [Calls \cup Sids -> SUBSET Nat]
        /\ \A x \in Calls \cup Sids : IsFiniteSet(up[x])
    BY FS_EmptySet DEF Init
  <1> QED BY <1>2, <1>3, <1>3a, <1>4, <1>5 DEF TypeInv, TypeOK

\* A step that gives one call a well-formed state keeps the types of the calls.
LEMMA OneCall ==
    ASSUME TypeInv, NEW c \in Calls, NEW r \in CallState, Simple(r.chain),
           r.pc = "fetched" => r.got \in 1..Len(lists),
           call' = [call EXCEPT ![c] = r]
    PROVE  /\ call' \in [Calls -> CallState]
           /\ \A d \in Calls : /\ Simple(call'[d].chain)
                               /\ call'[d].pc = "fetched" => call'[d].got \in 1..Len(lists)
  BY DEF TypeInv, TypeOK

\* The state of a call that has ended.
LEMMA IdleType == Idle \in CallState /\ Simple(Idle.chain) /\ Idle.pc = "idle"
  BY DEF Idle, CallState, NoSession, Session, PCs, Kinds, Simple

\* Every step keeps the types.
LEMMA TypeStep == TypeInv /\ [Next]_vars => TypeInv'
  <1> SUFFICES ASSUME TypeInv, [Next]_vars PROVE TypeInv'
    OBVIOUS
  <1> DEFINE CallTypes == /\ call' \in [Calls -> CallState]
                          /\ \A d \in Calls :
                                /\ Simple(call'[d].chain)
                                /\ call'[d].pc = "fetched" => call'[d].got \in 1..Len(lists)
             Same == UNCHANGED <<lists, cache, up, sessions>>
  <1>1. ASSUME CallTypes, Same PROVE TypeInv'
    BY <1>1 DEF TypeInv, TypeOK
  <1>2. ASSUME NEW c \in Calls, End(c) PROVE CallTypes
    BY <1>2, OneCall, IdleType DEF End
  <1> HIDE DEF CallTypes, Same
  <1>3. CASE UNCHANGED vars
    BY <1>3 DEF vars, TypeInv, TypeOK, Simple
  <1>4. ASSUME NEW t \in Tables, Publish(t) PROVE TypeInv'
    <2>1. lists' \in Seq(Tables) /\ Len(lists') = Len(lists) + 1
      BY <1>4 DEF Publish, TypeInv, TypeOK
    <2> QED BY <1>4, <2>1 DEF Publish, TypeInv, TypeOK, Simple
  <1>5. ASSUME NEW c \in Calls, Start(c) PROVE TypeInv'
    <2>1. ASSUME NEW kind \in Kinds, NEW host \in Hosts \cup {Nil}, NEW session \in Session,
                 Begin(c, kind, host, session)
          PROVE  TypeInv'
      <3>1. \A q \in Calls : call[q].got \in Nat
        BY DEF TypeInv, TypeOK, CallState
      <3>2. {call[q].got : q \in {p \in Calls : call[p].pc = "fetched"}} \subseteq Nat
        BY <3>1
      <3>3. Len(lists) \in Nat
        BY DEF TypeInv, TypeOK
      <3> DEFINE r == [Idle EXCEPT !.pc = "fetch", !.kind = kind, !.host = host,
                          !.session = session, !.since = Len(lists),
                          !.inflight = {call[q].got : q \in
                                          {p \in Calls : call[p].pc = "fetched"}}]
      <3>4. r \in CallState /\ Simple(r.chain) /\ r.pc # "fetched"
        BY <3>2, <3>3, IdleType DEF CallState, PCs, Idle
      <3>5. CallTypes
        <4>1. call' = [call EXCEPT ![c] = r]
          BY <2>1 DEF Begin
        <4> HIDE DEF r
        <4> QED BY <3>4, <4>1, OneCall DEF CallTypes
      <3> QED BY <1>1, <2>1, <3>5 DEF Begin, Same
    <2>2. NoSession \in Session
      BY DEF NoSession, Session
    <2>3. \A s \in Sids : sessions[s] \in Session /\ sessions[s].host \in Hosts \cup {Nil}
      BY DEF TypeInv, TypeOK, Session
    <2> QED BY <1>5, <2>1, <2>2, <2>3, EngineAssumption DEF Start, Kinds
  <1>6. ASSUME NEW c \in Calls, Fetch(c) PROVE TypeInv'
    <2> DEFINE r == [call[c] EXCEPT !.pc = "fetched", !.got = Len(lists)]
    <2>0. Len(lists) \in Nat /\ Len(lists) \in 1..Len(lists)
      BY DEF TypeInv, TypeOK
    <2>1. r \in CallState /\ Simple(r.chain) /\ r.got \in 1..Len(lists)
      BY <2>0 DEF TypeInv, TypeOK, CallState, PCs
    <2>2. call' = [call EXCEPT ![c] = r]
      BY <1>6 DEF Fetch, TypeInv, TypeOK
    <2> HIDE DEF r
    <2> QED BY <1>1, <1>6, <2>1, <2>2, OneCall DEF Fetch, Same, CallTypes
  <1>7. ASSUME NEW c \in Calls, FetchFails(c) PROVE TypeInv'
    BY <1>1, <1>2, <1>7 DEF FetchFails, Same
  <1>8. ASSUME NEW c \in Calls, Store(c) PROVE TypeInv'
    <2> DEFINE r == CASE call[c].kind = "refresh" -> Idle
                      [] call[c].kind = "sexec" -> [call[c] EXCEPT !.pc = "chain",
                                                      !.cur = call[c].host, !.got = 0]
                      [] OTHER -> [call[c] EXCEPT !.pc = "check", !.got = 0]
    <2>1. r \in CallState /\ Simple(r.chain) /\ r.pc # "fetched"
      BY IdleType DEF TypeInv, TypeOK, CallState, PCs
    <2>2. call' = [call EXCEPT ![c] = r]
      BY <1>8 DEF Store
    <2> HIDE DEF r
    <2>3. CallTypes
      BY <2>1, <2>2, OneCall DEF CallTypes
    <2> QED BY <1>8, <2>3 DEF Store, TypeInv, TypeOK, CallTypes
  <1>9. ASSUME NEW c \in Calls, Check(c) PROVE TypeInv'
    <2> DEFINE r == [call[c] EXCEPT !.pc = "chain", !.cur = call[c].host]
    <2>1. r \in CallState /\ Simple(r.chain) /\ r.pc # "fetched"
      BY DEF TypeInv, TypeOK, CallState, PCs
    <2>2. call' = [call EXCEPT ![c] = r] \/ End(c)
      BY <1>9 DEF Check, TypeInv, TypeOK
    <2> HIDE DEF r
    <2> QED BY <1>1, <1>2, <1>9, <2>1, <2>2, OneCall DEF Check, Same, CallTypes
  <1>10. ASSUME NEW c \in Calls, resolveChain(c) PROVE TypeInv'
    <2> DEFINE cur == call[c].cur
               r == [call[c] EXCEPT !.chain = <<cur>> \o @, !.cur = hostInfo(cur).jump,
                                    !.pc = IF hostInfo(cur).jump = Nil
                                           THEN AfterChain(c) ELSE @]
    <2>1. CASE Visited(c, cur) \/ ~Known(cur)
      BY <1>1, <1>2, <1>10, <2>1 DEF resolveChain, Same
    <2>2. CASE ~Visited(c, cur) /\ Known(cur)
      <3>1. cur \in Hosts /\ hostInfo(cur).jump \in Hosts \cup {Nil}
        BY <2>2, HostInfoType DEF HostInfo
      <3>2. <<cur>> \o call[c].chain \in Seq(Hosts) /\ Simple(<<cur>> \o call[c].chain)
        <4>1. call[c].chain \in Seq(Hosts) /\ Simple(call[c].chain)
          BY DEF TypeInv, TypeOK, CallState
        <4> QED BY <2>2, <3>1, <4>1, ExtendChain DEF Visited
      <3>3. AfterChain(c) \in {"preflight", "sig", "hops"}
        BY DEF AfterChain
      <3>4. call[c].pc # "fetched" /\ call[c] \in CallState
        BY <1>10 DEF resolveChain, TypeInv, TypeOK
      <3>5. r \in CallState /\ Simple(r.chain) /\ r.pc # "fetched"
        BY <3>1, <3>2, <3>3, <3>4 DEF CallState, PCs
      <3>6. call' = [call EXCEPT ![c] = r]
        BY <1>10, <2>2 DEF resolveChain, TypeInv, TypeOK
      <3> HIDE DEF r
      <3> QED BY <1>1, <1>10, <3>5, <3>6, OneCall DEF resolveChain, Same, CallTypes
    <2> QED BY <2>1, <2>2
  <1>11. ASSUME NEW c \in Calls, Known(NextName(c)) PROVE ReadHop(c) \in Seq(Hop)
    <2>1. NextName(c) \in Hosts /\ cache \in Nat /\ call[c].hops \in Seq(Hop)
      BY <1>11, HostInfoType DEF TypeInv, TypeOK, CallState
    <2> QED BY <2>1 DEF ReadHop, Hop
  <1>12. ASSUME NEW c \in Calls, buildHops(c) PROVE TypeInv'
    <2> DEFINE r == [call[c] EXCEPT !.hops = ReadHop(c),
                                    !.chain = IF LastHop(c) THEN <<>> ELSE @,
                                    !.pc = IF LastHop(c) THEN "dial" ELSE "hops"]
    <2>1. CASE End(c)
      BY <1>1, <1>2, <1>12, <2>1 DEF buildHops, Same
    <2>2. CASE Known(NextName(c)) /\ call' = [call EXCEPT ![c] = r]
      <3>1. Simple(<<>>) /\ <<>> \in Seq(Hosts)
        BY DEF Simple
      <3>2. r \in CallState /\ Simple(r.chain) /\ r.pc # "fetched"
        BY <1>11, <2>2, <3>1 DEF TypeInv, TypeOK, CallState, PCs
      <3> HIDE DEF r
      <3> QED BY <1>1, <1>12, <2>2, <3>2, OneCall DEF buildHops, Same, CallTypes
    <2> QED BY <1>12, <2>1, <2>2 DEF buildHops, TypeInv, TypeOK
  <1>13. ASSUME NEW c \in Calls, connectivitySignature(c) PROVE TypeInv'
    <2> DEFINE r1 == [call[c] EXCEPT !.hops = ReadHop(c)]
               r2 == [call[c] EXCEPT !.hops = <<>>, !.pc = "bchain", !.chain = <<>>,
                                     !.cur = call[c].host]
    <2>1. \/ End(c)
          \/ Known(NextName(c)) /\ call' = [call EXCEPT ![c] = r1]
          \/ call' = [call EXCEPT ![c] = r2]
      BY <1>13 DEF connectivitySignature, TypeInv, TypeOK
    <2>2. Simple(<<>>) /\ <<>> \in Seq(Hosts) /\ <<>> \in Seq(Hop)
      BY DEF Simple
    <2>3. r2 \in CallState /\ Simple(r2.chain) /\ r2.pc # "fetched"
      <3>1. PICK r : r = call[c]
        OBVIOUS
      <3>2. r \in CallState
        BY <3>1 DEF TypeInv, TypeOK
      <3> DEFINE q == [r EXCEPT !.hops = <<>>, !.pc = "bchain", !.chain = <<>>,
                                !.cur = r.host]
      <3>3. q \in CallState
        BY <2>2, <3>2 DEF CallState, PCs
      <3>4. q.chain = <<>> /\ q.pc = "bchain"
        BY <3>2 DEF CallState
      <3>5. r2 = q
        BY <3>1
      <3> HIDE DEF q, r2
      <3> QED BY <2>2, <3>3, <3>4, <3>5
    <2>4. ASSUME Known(NextName(c))
          PROVE  r1 \in CallState /\ Simple(r1.chain) /\ r1.pc # "fetched"
      BY <1>11, <1>13, <2>4 DEF connectivitySignature, TypeInv, TypeOK, CallState
    <2> HIDE DEF r1, r2
    <2>5. CallTypes
      BY <1>2, <2>1, <2>3, <2>4, OneCall DEF CallTypes
    <2> QED BY <1>1, <1>13, <2>5 DEF connectivitySignature, Same
  <1>14. ASSUME NEW c \in Calls, Preflight(c) PROVE TypeInv'
    <2> DEFINE r == [call[c] EXCEPT !.pc = "setup"]
    <2>1. r \in CallState /\ Simple(r.chain) /\ r.pc # "fetched"
      BY DEF TypeInv, TypeOK, CallState, PCs
    <2>2. call' = [call EXCEPT ![c] = r] \/ End(c)
      BY <1>14 DEF Preflight, TypeInv, TypeOK
    <2> HIDE DEF r
    <2> QED BY <1>1, <1>2, <1>14, <2>1, <2>2, OneCall DEF Preflight, Same, CallTypes
  <1>14a. ASSUME NEW c \in Calls, NEW pc \in {"handshake", "run"},
                 call' = [call EXCEPT ![c].pc = pc], Same
          PROVE  TypeInv'
    <2> DEFINE r == [call[c] EXCEPT !.pc = pc]
    <2>1. r \in CallState /\ Simple(r.chain) /\ r.pc # "fetched"
      BY DEF TypeInv, TypeOK, CallState, PCs
    <2>2. call' = [call EXCEPT ![c] = r]
      BY <1>14a DEF TypeInv, TypeOK
    <2> HIDE DEF r
    <2> QED BY <1>1, <1>14a, <2>1, <2>2, OneCall DEF CallTypes
  <1>14b. ASSUME NEW c \in Calls, DialHop(c) \/ SetUp(c) PROVE TypeInv'
    BY <1>14a, <1>14b DEF DialHop, SetUp, Same
  <1>15. ASSUME NEW x \in Calls \cup Sids, NEW S \in SUBSET Nat, IsFiniteSet(S),
                up' = [up EXCEPT ![x] = S]
         PROVE  /\ up' \in [Calls \cup Sids -> SUBSET Nat]
                /\ \A y \in Calls \cup Sids : IsFiniteSet(up'[y])
    BY <1>15 DEF TypeInv, TypeOK
  <1>16. ASSUME NEW c \in Calls, Handshake(c) PROVE TypeInv'
    <2> DEFINE n == Cardinality(up[c]) + 1
               r == [call[c] EXCEPT !.conn = @ \cup {n},
                                    !.pc = IF n = Len(call[c].hops) THEN "setup" ELSE "dial"]
    <2>1. IsFiniteSet(up[c]) /\ up[c] \in SUBSET Nat
      BY DEF TypeInv, TypeOK
    <2>2. n \in Nat
      BY <2>1, FS_CardinalityType
    <2>3. up[c] \cup {n} \in SUBSET Nat /\ IsFiniteSet(up[c] \cup {n})
      BY <2>1, <2>2, FS_AddElement
    <2>4. r \in CallState /\ Simple(r.chain) /\ r.pc # "fetched"
      <3>1. PICK o : o = call[c]
        OBVIOUS
      <3>2. o \in CallState /\ Simple(o.chain)
        BY <3>1 DEF TypeInv, TypeOK
      <3>3. PICK to \in {"setup", "dial"} :
               to = IF n = Len(call[c].hops) THEN "setup" ELSE "dial"
        OBVIOUS
      <3> DEFINE q == [o EXCEPT !.conn = @ \cup {n}, !.pc = to]
      <3>4. r = q
        BY <3>1, <3>3
      <3> HIDE DEF n, r
      <3>5. q \in CallState
        BY <2>2, <3>2 DEF CallState, PCs
      <3>6. q.chain = o.chain /\ q.pc = to
        BY <3>2 DEF CallState
      <3> HIDE DEF q
      <3> QED BY <3>2, <3>3, <3>4, <3>5, <3>6
    <2>5. call' = [call EXCEPT ![c] = r] /\ up' = [up EXCEPT ![c] = up[c] \cup {n}]
      BY <1>16 DEF Handshake, TypeInv, TypeOK
    <2> HIDE DEF n, r
    <2>6. CallTypes
      BY <2>4, <2>5, OneCall DEF CallTypes
    <2> QED BY <1>15, <1>16, <2>3, <2>5, <2>6 DEF Handshake, TypeInv, TypeOK, CallTypes
  <1>17. ASSUME NEW x \in Calls \cup Sids, NEW conn, Close(x, conn)
         PROVE  /\ up' \in [Calls \cup Sids -> SUBSET Nat]
                /\ \A y \in Calls \cup Sids : IsFiniteSet(up'[y])
    <2>1. up[x] \ conn \in SUBSET Nat /\ IsFiniteSet(up[x] \ conn)
      BY FS_Difference DEF TypeInv, TypeOK
    <2> QED BY <1>15, <1>17, <2>1 DEF Close
  <1>18. ASSUME NEW c \in Calls, Finish(c) PROVE TypeInv'
    BY <1>2, <1>17, <1>18 DEF Finish, TypeInv, TypeOK, CallTypes
  <1>19. ASSUME NEW c \in Calls, NEW s \in Sids, Register(c, s) PROVE TypeInv'
    <2> DEFINE new == [open |-> TRUE, host |-> call[c].host, hops |-> call[c].hops,
                       sig |-> call[c].hops, conn |-> call[c].conn]
    <2>1. new \in Session
      BY DEF TypeInv, TypeOK, CallState, Session
    <2>2. sessions' = [sessions EXCEPT ![s] = new]
      BY <1>19 DEF Register
    <2> HIDE DEF new
    <2>3. sessions' \in [Sids -> Session]
      BY <2>1, <2>2 DEF TypeInv, TypeOK
    <2>4. CallTypes
      BY <1>2, <1>19 DEF Register
    <2>5. /\ up' \in [Calls \cup Sids -> SUBSET Nat]
          /\ \A y \in Calls \cup Sids : IsFiniteSet(up'[y])
      BY <1>19, FS_EmptySet DEF Register, TypeInv, TypeOK
    <2> QED BY <1>19, <2>3, <2>4, <2>5 DEF Register, TypeInv, TypeOK, CallTypes
  <1>20. ASSUME NEW s \in Sids, CloseSession(s) PROVE TypeInv'
    <2>1. NoSession \in Session
      BY DEF NoSession, Session
    <2>2. sessions' \in [Sids -> Session]
      BY <1>20, <2>1 DEF CloseSession, TypeInv, TypeOK
    <2> QED BY <1>17, <1>20, <2>2 DEF CloseSession, TypeInv, TypeOK
  <1> QED BY <1>3, <1>4, <1>5, <1>6, <1>7, <1>8, <1>9, <1>10, <1>12, <1>13, <1>14, <1>14b,
             <1>16, <1>18, <1>19, <1>20 DEF Next, Work

\* The engine's state keeps its types, and no chain that a call follows visits a host
\* twice, although the host list may change between two look-ups (resolveChain).
THEOREM TypeCorrect == Spec => []TypeOK
  <1>1. TypeInv => TypeOK
    BY DEF TypeInv
  <1> QED BY <1>1, InitTypes, TypeStep, PTL DEF Spec

-----------------------------------------------------------------------------
(* The age of what a call reads.                                           *)

\* The call has refreshed the cache and goes on to use it.
Past(c) == call[c].pc \notin {"idle", "fetch", "fetched"}

\* Whatever is stored or still on its way into the cache is recent for every running
\* call, and so is every hop that a call has read.
RouteInv ==
    /\ \A c \in Calls : call[c].pc # "idle" =>
          /\ call[c].since <= Len(lists)
          /\ call[c].pc = "fetched" => call[c].got >= call[c].since
          /\ \A q \in Calls : call[q].pc = "fetched" => Recent(c, call[q].got)
          /\ \A i \in DOMAIN call[c].hops : Recent(c, call[c].hops[i].list)
    /\ \A c \in Calls : Past(c) => Recent(c, cache)

\* A step that leaves the lists and the cache alone, and in which a call ends or goes
\* on with what it has or reads in the cache after its refresh, keeps RouteInv.
LEMMA RouteFrame ==
    ASSUME RouteInv, lists' = lists, cache' = cache,
           \A d \in Calls :
              \/ call'[d].pc = "idle"
              \/ /\ call[d].pc # "idle"
                 /\ call'[d].since = call[d].since
                 /\ call'[d].inflight = call[d].inflight
                 /\ call'[d].pc = "fetched" => call[d].pc = "fetched" /\ call'[d].got = call[d].got
                 /\ Past(d)' => Past(d)
                 /\ \A i \in DOMAIN call'[d].hops :
                       \/ Past(d) /\ call'[d].hops[i].list = cache
                       \/ \E j \in DOMAIN call[d].hops : call'[d].hops[i] = call[d].hops[j]
    PROVE  RouteInv'
  <1>1. ASSUME NEW c \in Calls, call'[c].pc # "idle"
        PROVE  /\ call'[c].since <= Len(lists)
               /\ call'[c].pc = "fetched" => call'[c].got >= call'[c].since
               /\ \A q \in Calls : call'[q].pc = "fetched" => Recent(c, call[q].got)'
               /\ \A i \in DOMAIN call'[c].hops : Recent(c, call[c].hops[i].list)'
               /\ Past(c)' => Recent(c, cache)'
    <2>1. /\ call[c].pc # "idle"
          /\ call'[c].since = call[c].since
          /\ call'[c].inflight = call[c].inflight
      BY <1>1
    <2>3. ASSUME NEW q \in Calls, call'[q].pc = "fetched" PROVE Recent(c, call[q].got)'
      <3>1. call[q].pc = "fetched" /\ call'[q].got = call[q].got
        BY <2>3
      <3> QED BY <2>1, <3>1 DEF Recent, RouteInv
    <2>4. ASSUME NEW i \in DOMAIN call'[c].hops PROVE Recent(c, call[c].hops[i].list)'
      <3>1. CASE Past(c) /\ call'[c].hops[i].list = cache
        BY <2>1, <3>1 DEF Recent, RouteInv
      <3>2. ASSUME NEW j \in DOMAIN call[c].hops, call'[c].hops[i] = call[c].hops[j]
            PROVE  Recent(c, call[c].hops[i].list)'
        BY <2>1, <3>2 DEF Recent, RouteInv
      <3> QED BY <1>1, <3>1, <3>2
    <2>5. Past(c)' => Recent(c, cache)'
      BY <1>1, <2>1 DEF Recent, RouteInv
    <2>6. /\ call'[c].since <= Len(lists)
          /\ call'[c].pc = "fetched" => call'[c].got >= call'[c].since
      BY <1>1, <2>1 DEF RouteInv
    <2> QED BY <2>3, <2>4, <2>5, <2>6
  <1>2. \A c \in Calls : Past(c)' => call'[c].pc # "idle"
    BY DEF Past
  <1> QED BY <1>1, <1>2 DEF RouteInv

\* Nothing runs in the initial state.
LEMMA InitRoute == Init => RouteInv
  BY DEF Init, Idle, RouteInv, Past

\* Every step keeps RouteInv.
LEMMA RouteStep == TypeInv /\ RouteInv /\ [Next]_vars => RouteInv'
  <1> SUFFICES ASSUME TypeInv, RouteInv, [Next]_vars PROVE RouteInv'
    OBVIOUS
  <1>1. CASE UNCHANGED vars
    BY <1>1 DEF vars, RouteInv, Past, Recent
  <1>2. ASSUME NEW t \in Tables, Publish(t) PROVE RouteInv'
    <2>1. Len(lists') = Len(lists) + 1 /\ Len(lists) \in Nat
      BY <1>2 DEF Publish, TypeInv, TypeOK
    <2>2. \A c \in Calls : call[c].since \in Nat
      BY DEF TypeInv, TypeOK, CallState
    <2> QED BY <1>2, <2>1, <2>2 DEF Publish, RouteInv, Past, Recent
  <1>3. ASSUME NEW c \in Calls, Start(c) PROVE RouteInv'
    <2>1. /\ lists' = lists /\ cache' = cache
          /\ \A d \in Calls \ {c} : call'[d] = call[d]
          /\ call'[c].pc = "fetch" /\ call'[c].since = Len(lists) /\ call'[c].hops = <<>>
          /\ call'[c].inflight = {call[q].got : q \in {p \in Calls : call[p].pc = "fetched"}}
      <3>1. PICK kind, host, session : Begin(c, kind, host, session)
        BY <1>3 DEF Start
      <3> QED BY <3>1 DEF Begin, Idle, TypeInv, TypeOK
    <2>2. ASSUME NEW q \in Calls, call'[q].pc = "fetched"
          PROVE  call[q].pc = "fetched" /\ call'[q].got \in call'[c].inflight
      BY <2>1, <2>2
    <2>3. Len(lists) \in Nat
      BY DEF TypeInv, TypeOK
    <2>4. ASSUME NEW d \in Calls, d # c
          PROVE  /\ call'[d] = call[d]
                 /\ \A q \in Calls : call'[q].pc = "fetched" => call'[q] = call[q]
      BY <2>1, <2>4
    <2> QED BY <2>1, <2>2, <2>3, <2>4 DEF RouteInv, Past, Recent
  <1>4. ASSUME NEW c \in Calls, Fetch(c) PROVE RouteInv'
    <2>1. /\ lists' = lists /\ cache' = cache
          /\ \A d \in Calls \ {c} : call'[d] = call[d]
          /\ call[c].pc = "fetch" /\ call'[c].pc = "fetched" /\ call'[c].got = Len(lists)
          /\ call'[c].since = call[c].since /\ call'[c].inflight = call[c].inflight
          /\ call'[c].hops = call[c].hops
      BY <1>4 DEF Fetch, TypeInv, TypeOK, CallState
    <2>2. Len(lists) \in Nat /\ \A d \in Calls : call[d].since \in Nat
      BY DEF TypeInv, TypeOK, CallState
    <2> QED BY <2>1, <2>2 DEF RouteInv, Past, Recent
  <1>5. ASSUME NEW c \in Calls, Store(c) PROVE RouteInv'
    <2>1. /\ lists' = lists /\ cache' = call[c].got
          /\ \A d \in Calls \ {c} : call'[d] = call[d]
          /\ call[c].pc = "fetched" /\ call'[c].pc \in {"idle", "chain", "check"}
          /\ call'[c].pc # "idle" => /\ call'[c].since = call[c].since
                                     /\ call'[c].inflight = call[c].inflight
                                     /\ call'[c].hops = call[c].hops
      BY <1>5 DEF Store, Idle, TypeInv, TypeOK, CallState
    <2> QED BY <2>1 DEF RouteInv, Past, Recent
  <1>6. ASSUME NEW c \in Calls, lists' = lists, cache' = cache, End(c) PROVE RouteInv'
    <2>1. call'[c].pc = "idle" /\ \A d \in Calls \ {c} : call'[d] = call[d]
      BY <1>6 DEF End, Idle, TypeInv, TypeOK
    <2> QED BY <1>6, <2>1, RouteFrame DEF Past
  <1>7. ASSUME NEW c \in Calls, FetchFails(c) PROVE RouteInv'
    BY <1>6, <1>7 DEF FetchFails
  <1>8. ASSUME NEW c \in Calls, Check(c) \/ Preflight(c) \/ DialHop(c) \/ Handshake(c) \/ SetUp(c)
        PROVE  RouteInv'
    <2>1. \/ End(c)
          \/ /\ \A d \in Calls \ {c} : call'[d] = call[d]
             /\ call'[c].since = call[c].since /\ call'[c].inflight = call[c].inflight
             /\ call'[c].hops = call[c].hops /\ call'[c].pc # "fetched"
      BY <1>8 DEF Check, Preflight, DialHop, Handshake, SetUp, TypeInv, TypeOK, CallState
    <2>2. Past(c) /\ lists' = lists /\ cache' = cache
      BY <1>8 DEF Check, Preflight, DialHop, Handshake, SetUp, Past
    <2> QED BY <1>6, <2>1, <2>2, RouteFrame DEF Past
  <1>9. ASSUME NEW c \in Calls, resolveChain(c) PROVE RouteInv'
    <2>1. \/ End(c)
          \/ /\ \A d \in Calls \ {c} : call'[d] = call[d]
             /\ call'[c].since = call[c].since /\ call'[c].inflight = call[c].inflight
             /\ call'[c].hops = call[c].hops /\ call'[c].pc # "fetched"
      BY <1>9 DEF resolveChain, AfterChain, TypeInv, TypeOK, CallState
    <2>2. Past(c) /\ lists' = lists /\ cache' = cache
      BY <1>9 DEF resolveChain, Past
    <2> QED BY <1>6, <2>1, <2>2, RouteFrame DEF Past
  <1>10. ASSUME NEW c \in Calls PROVE
            \A i \in DOMAIN ReadHop(c) :
               \/ ReadHop(c)[i].list = cache
               \/ \E j \in DOMAIN call[c].hops : ReadHop(c)[i] = call[c].hops[j]
    <2> DEFINE hop == [name |-> NextName(c), list |-> cache]
    <2>1. call[c].hops \in Seq(Hop)
      BY DEF TypeInv, TypeOK, CallState
    <2>2. ReadHop(c) = Append(call[c].hops, hop) /\ hop.list = cache
      BY DEF ReadHop
    <2> HIDE DEF hop
    <2>3. ASSUME NEW i \in DOMAIN Append(call[c].hops, hop)
          PROVE  \/ Append(call[c].hops, hop)[i] = hop
                 \/ i \in DOMAIN call[c].hops /\ Append(call[c].hops, hop)[i] = call[c].hops[i]
      BY <2>1, <2>3
    <2> QED BY <2>2, <2>3
  <1>11. ASSUME NEW c \in Calls, buildHops(c) PROVE RouteInv'
    <2>1. \/ End(c)
          \/ /\ \A d \in Calls \ {c} : call'[d] = call[d]
             /\ call'[c].since = call[c].since /\ call'[c].inflight = call[c].inflight
             /\ call'[c].hops = ReadHop(c) /\ call'[c].pc # "fetched"
      BY <1>11 DEF buildHops, TypeInv, TypeOK, CallState
    <2>2. Past(c) /\ lists' = lists /\ cache' = cache
      BY <1>11 DEF buildHops, Past
    <2> QED BY <1>6, <1>10, <2>1, <2>2, RouteFrame DEF Past
  <1>12. ASSUME NEW c \in Calls, connectivitySignature(c) PROVE RouteInv'
    <2>1. \/ End(c)
          \/ /\ \A d \in Calls \ {c} : call'[d] = call[d]
             /\ call'[c].since = call[c].since /\ call'[c].inflight = call[c].inflight
             /\ call'[c].hops = ReadHop(c) \/ call'[c].hops = <<>>
             /\ call'[c].pc # "fetched"
      BY <1>12 DEF connectivitySignature, TypeInv, TypeOK, CallState
    <2>2. Past(c) /\ lists' = lists /\ cache' = cache
      BY <1>12 DEF connectivitySignature, Past
    <2> QED BY <1>6, <1>10, <2>1, <2>2, RouteFrame DEF Past
  <1>13. ASSUME NEW c \in Calls, Finish(c) PROVE RouteInv'
    BY <1>6, <1>13 DEF Finish
  <1>14. ASSUME NEW c \in Calls, NEW s \in Sids, Register(c, s) PROVE RouteInv'
    BY <1>6, <1>14 DEF Register
  <1>15. ASSUME NEW s \in Sids, CloseSession(s) PROVE RouteInv'
    BY <1>15 DEF CloseSession, RouteInv, Past, Recent
  <1> QED BY <1>1, <1>2, <1>3, <1>4, <1>5, <1>7, <1>8, <1>9, <1>11, <1>12, <1>13, <1>14,
             <1>15 DEF Next, Work

\* However other calls refresh the shared cache, a new connection is built from hops
\* that were current when its call began, or that another call had been answered with
\* by then (refreshHostsForNewConnection, buildHops).
THEOREM RoutesRecent == Spec => []RoutesAreRecent
  <1>1. RouteInv => RoutesAreRecent
    BY DEF RouteInv, RoutesAreRecent, Connecting
  <1> QED BY <1>1, InitTypes, TypeStep, InitRoute, RouteStep, PTL DEF Spec

-----------------------------------------------------------------------------
(* The clients that are open.                                              *)

\* A connection knows every client that is up for it, and only a call that dials or
\* runs, or an open session, has one.
ConnInv ==
    /\ \A c \in Calls : /\ up[c] = call[c].conn
                        /\ call[c].pc \notin Connecting => call[c].conn = {}
    /\ \A s \in Sids : /\ up[s] = sessions[s].conn
                       /\ ~sessions[s].open => sessions[s].conn = {}

\* Every step keeps ConnInv.
LEMMA ConnStep == TypeInv /\ ConnInv /\ [Next]_vars => ConnInv'
  <1> SUFFICES ASSUME TypeInv, ConnInv, [Next]_vars PROVE ConnInv'
    OBVIOUS
  <1> USE EngineAssumption DEF Connecting
  <1>1. CASE UNCHANGED vars
    BY <1>1 DEF vars, ConnInv
  <1>2. ASSUME NEW t \in Tables, Publish(t) PROVE ConnInv'
    BY <1>2 DEF Publish, ConnInv
  <1>3. ASSUME NEW c \in Calls, up' = up, sessions' = sessions,
               \A d \in Calls \ {c} : call'[d] = call[d],
               call'[c].conn = call[c].conn,
               call'[c].pc \in Connecting \/ call[c].pc \notin Connecting
        PROVE  ConnInv'
    BY <1>3 DEF ConnInv
  <1>4. ASSUME NEW c \in Calls, End(c), call[c].pc \notin Connecting,
               up' = up, sessions' = sessions
        PROVE  ConnInv'
    <2>1. /\ \A d \in Calls \ {c} : call'[d] = call[d]
          /\ call'[c].conn = {}
      BY <1>4 DEF End, Idle, TypeInv, TypeOK
    <2>2. call[c].conn = {}
      BY <1>4 DEF ConnInv
    <2> QED BY <1>3, <1>4, <2>1, <2>2
  <1>5. ASSUME NEW c \in Calls, Start(c) PROVE ConnInv'
    <2>1. PICK kind, host, session : Begin(c, kind, host, session)
      BY <1>5 DEF Start
    <2>2. /\ \A d \in Calls \ {c} : call'[d] = call[d]
          /\ call'[c].conn = {} /\ call[c].pc = "idle" /\ up' = up /\ sessions' = sessions
      BY <2>1 DEF Begin, Idle, TypeInv, TypeOK
    <2>3. call[c].conn = {}
      BY <2>2 DEF ConnInv
    <2> QED BY <1>3, <2>2, <2>3
  <1>6. ASSUME NEW c \in Calls, Fetch(c) PROVE ConnInv'
    BY <1>3, <1>6 DEF Fetch, TypeInv, TypeOK, CallState
  <1>7. ASSUME NEW c \in Calls, FetchFails(c) PROVE ConnInv'
    BY <1>4, <1>7 DEF FetchFails
  <1>8. ASSUME NEW c \in Calls, Store(c) PROVE ConnInv'
    <2>1. /\ \A d \in Calls \ {c} : call'[d] = call[d]
          /\ call'[c].conn = {} \/ call'[c].conn = call[c].conn
          /\ call[c].pc = "fetched" /\ up' = up /\ sessions' = sessions
      BY <1>8 DEF Store, Idle, TypeInv, TypeOK, CallState
    <2>2. call[c].conn = {}
      BY <2>1 DEF ConnInv
    <2> QED BY <1>3, <2>1, <2>2
  <1>9. ASSUME NEW c \in Calls,
               Check(c) \/ resolveChain(c) \/ buildHops(c) \/ connectivitySignature(c)
                        \/ Preflight(c)
        PROVE  ConnInv'
    <2>1. /\ call[c].pc \in {"check", "chain", "bchain", "hops", "sig", "preflight"}
          /\ up' = up /\ sessions' = sessions
      BY <1>9 DEF Check, resolveChain, buildHops, connectivitySignature, Preflight
    <2>2. \/ End(c)
          \/ call'[c].conn = call[c].conn /\ \A d \in Calls \ {c} : call'[d] = call[d]
      <3> USE DEF TypeInv, TypeOK, CallState
      <3>1. CASE Check(c) \/ Preflight(c)
        BY <3>1 DEF Check, Preflight
      <3>2. CASE resolveChain(c)
        BY <3>2 DEF resolveChain
      <3>3. CASE buildHops(c)
        BY <3>3 DEF buildHops
      <3>4. CASE connectivitySignature(c)
        BY <3>4 DEF connectivitySignature
      <3> QED BY <1>9, <3>1, <3>2, <3>3, <3>4
    <2> QED BY <1>3, <1>4, <2>1, <2>2
  <1>9a. ASSUME NEW c \in Calls, DialHop(c) \/ SetUp(c) PROVE ConnInv'
    <2>1. /\ \A d \in Calls \ {c} : call'[d] = call[d]
          /\ call'[c].conn = call[c].conn /\ call'[c].pc \in Connecting
          /\ up' = up /\ sessions' = sessions
      BY <1>9a DEF DialHop, SetUp, TypeInv, TypeOK, CallState
    <2> QED BY <1>3, <2>1
  <1>10. ASSUME NEW c \in Calls, Handshake(c) PROVE ConnInv'
    <2> DEFINE n == Cardinality(up[c]) + 1
    <2>1. /\ \A d \in Calls \ {c} : call'[d] = call[d]
          /\ call'[c].conn = call[c].conn \cup {n}
          /\ call'[c].pc \in Connecting
          /\ up'[c] = up[c] \cup {n} /\ sessions' = sessions
          /\ \A x \in (Calls \cup Sids) \ {c} : up'[x] = up[x]
      BY <1>10 DEF Handshake, TypeInv, TypeOK, CallState
    <2> HIDE DEF n
    <2> QED BY <2>1 DEF ConnInv
  <1>11. ASSUME NEW c \in Calls, Finish(c) PROVE ConnInv'
    <2>1. /\ \A d \in Calls \ {c} : call'[d] = call[d]
          /\ call'[c].conn = {} /\ call'[c].pc = "idle"
          /\ up'[c] = up[c] \ call[c].conn /\ sessions' = sessions
          /\ \A x \in (Calls \cup Sids) \ {c} : up'[x] = up[x]
      BY <1>11 DEF Finish, Close, End, Idle, TypeInv, TypeOK
    <2>2. up'[c] = {}
      BY <2>1 DEF ConnInv
    <2>3. \A s \in Sids : up'[s] = up[s]
      BY <2>1
    <2>4. ASSUME NEW d \in Calls \ {c} PROVE up'[d] = up[d] /\ call'[d] = call[d]
      BY <2>1
    <2>5. ASSUME NEW d \in Calls
          PROVE  /\ up'[d] = call'[d].conn
                 /\ call'[d].pc \notin Connecting => call'[d].conn = {}
      <3>1. CASE d = c
        BY <2>1, <2>2, <3>1
      <3>2. CASE d # c
        BY <2>4, <3>2 DEF ConnInv
      <3> QED BY <3>1, <3>2
    <2>6. ASSUME NEW s \in Sids
          PROVE  /\ up'[s] = sessions'[s].conn
                 /\ ~sessions'[s].open => sessions'[s].conn = {}
      BY <2>1, <2>3 DEF ConnInv
    <2> QED BY <2>5, <2>6 DEF ConnInv
  <1>12. ASSUME NEW c \in Calls, NEW s \in Sids, Register(c, s) PROVE ConnInv'
    <2>1. /\ \A d \in Calls \ {c} : call'[d] = call[d]
          /\ call'[c].conn = {} /\ call'[c].pc = "idle"
          /\ sessions'[s].open /\ sessions'[s].conn = call[c].conn
          /\ \A r \in Sids \ {s} : sessions'[r] = sessions[r]
          /\ up'[c] = {} /\ up'[s] = up[c]
          /\ \A x \in (Calls \cup Sids) \ {c, s} : up'[x] = up[x]
      BY <1>12 DEF Register, End, Idle, TypeInv, TypeOK
    <2>2. ASSUME NEW d \in Calls
          PROVE  /\ up'[d] = call'[d].conn
                 /\ call'[d].pc \notin Connecting => call'[d].conn = {}
      <3>1. CASE d = c
        BY <2>1, <3>1
      <3>2. CASE d # c
        <4>1. call'[d] = call[d] /\ up'[d] = up[d]
          BY <2>1, <3>2
        <4> QED BY <4>1 DEF ConnInv
      <3> QED BY <3>1, <3>2
    <2>3. ASSUME NEW r \in Sids
          PROVE  /\ up'[r] = sessions'[r].conn
                 /\ ~sessions'[r].open => sessions'[r].conn = {}
      <3>1. CASE r = s
        BY <2>1, <3>1 DEF ConnInv
      <3>2. CASE r # s
        <4>1. sessions'[r] = sessions[r] /\ up'[r] = up[r]
          BY <2>1, <3>2
        <4> QED BY <4>1 DEF ConnInv
      <3> QED BY <3>1, <3>2
    <2> QED BY <2>2, <2>3 DEF ConnInv
  <1>13. ASSUME NEW s \in Sids, CloseSession(s) PROVE ConnInv'
    <2>1. /\ call' = call
          /\ sessions'[s].conn = {}
          /\ \A r \in Sids \ {s} : sessions'[r] = sessions[r]
          /\ up'[s] = up[s] \ sessions[s].conn
          /\ \A x \in (Calls \cup Sids) \ {s} : up'[x] = up[x]
      BY <1>13 DEF CloseSession, Close, NoSession, TypeInv, TypeOK
    <2>2. up'[s] = {}
      BY <2>1 DEF ConnInv
    <2> QED BY <2>1, <2>2 DEF ConnInv
  <1> QED BY <1>1, <1>2, <1>5, <1>6, <1>7, <1>8, <1>9, <1>9a, <1>10, <1>11, <1>12,
             <1>13 DEF Next, Work

\* However far a chain was dialled, and whoever closes a session, no SSH client stays
\* open behind (Dial, Conn.Close, closeAll).
THEOREM NoLeaks == Spec => []NoClientLeaks
  <1>1. Init => ConnInv
    BY DEF Init, ConnInv, Idle, NoSession
  <1>2. ConnInv => NoClientLeaks
    BY DEF ConnInv, NoClientLeaks, Connecting
  <1> QED BY <1>1, <1>2, InitTypes, TypeStep, ConnStep, PTL DEF Spec

-----------------------------------------------------------------------------
(* The route of a session.                                                 *)

\* The hop was read from a list that was served and has its name.
Served(hop) == hop.list \in 1..Len(lists) /\ hop.name \in DOMAIN lists[hop.list]
AllServed(hops) == \A i \in DOMAIN hops : Served(hops[i])

\* Each hop of the session of call c is as a recent list describes it.
RouteHolds(c) ==
    \A i \in DOMAIN call[c].session.hops : \E v \in 1..Len(lists) :
        /\ Recent(c, v)
        /\ call[c].session.hops[i].name \in DOMAIN lists[v]
        /\ lists[v][call[c].session.hops[i].name] = InfoOf(call[c].session.hops[i])

\* The command has compared the session's signature with the current route's.
Checked == {"bchain", "preflight", "setup", "run"}

\* A session's signature is that of the hops its connection goes through, and a
\* command that has compared the two finds its route in recent lists from then on.
PathInv ==
    /\ \A s \in Sids : /\ sessions[s].sig = sessions[s].hops
                       /\ AllServed(sessions[s].hops)
    /\ \A c \in Calls : /\ call[c].session.sig = call[c].session.hops
                        /\ AllServed(call[c].session.hops)
                        /\ AllServed(call[c].hops)
                        /\ call[c].kind = "sexec" =>
                              /\ call[c].pc \notin {"check", "hops", "dial", "handshake"}
                              /\ call[c].pc \in Checked => RouteHolds(c)

\* A hop that is read from the cache was served.
LEMMA ReadHopServed ==
    ASSUME TypeInv, PathInv, NEW c \in Calls, Known(NextName(c))
    PROVE  AllServed(ReadHop(c))
  <1> DEFINE hop == [name |-> NextName(c), list |-> cache]
  <1>1. call[c].hops \in Seq(Hop) /\ AllServed(call[c].hops)
    BY DEF TypeInv, TypeOK, CallState, PathInv
  <1>2. Served(hop)
    BY DEF Served, Known, TypeInv, TypeOK
  <1> HIDE DEF hop
  <1>3. ASSUME NEW i \in DOMAIN Append(call[c].hops, hop)
        PROVE  \/ Append(call[c].hops, hop)[i] = hop
               \/ i \in DOMAIN call[c].hops /\ Append(call[c].hops, hop)[i] = call[c].hops[i]
    BY <1>1
  <1>4. ReadHop(c) = Append(call[c].hops, hop)
    BY DEF ReadHop, hop
  <1> QED BY <1>1, <1>2, <1>3, <1>4 DEF AllServed

\* A hop that a call has read, the last one included, is from a recent list.
LEMMA ReadHopRecent ==
    ASSUME TypeInv, RouteInv, NEW c \in Calls, Past(c), NEW i \in DOMAIN ReadHop(c)
    PROVE  Recent(c, ReadHop(c)[i].list)
  <1> DEFINE hop == [name |-> NextName(c), list |-> cache]
  <1>1. call[c].hops \in Seq(Hop)
    BY DEF TypeInv, TypeOK, CallState
  <1>2. hop.list = cache /\ ReadHop(c) = Append(call[c].hops, hop)
    BY DEF ReadHop
  <1> HIDE DEF hop
  <1>3. \/ ReadHop(c)[i] = hop
        \/ i \in DOMAIN call[c].hops /\ ReadHop(c)[i] = call[c].hops[i]
    BY <1>1, <1>2
  <1> QED BY <1>2, <1>3 DEF RouteInv, Past

\* The comparison of the signatures shows that the session's route holds.
LEMMA SameSignature ==
    ASSUME TypeInv, RouteInv, PathInv, NEW c \in Calls, Past(c), Known(NextName(c)),
           Signature(ReadHop(c)) = Signature(call[c].session.sig)
    PROVE  RouteHolds(c)
  <1> DEFINE new == ReadHop(c)
             old == call[c].session.hops
  <1>1. Signature(new) = Signature(old)
    BY DEF PathInv
  <1>2. AllServed(new) /\ \A i \in DOMAIN new : Recent(c, new[i].list)
    BY ReadHopServed, ReadHopRecent
  <1> HIDE DEF new, old
  <1>3. DOMAIN new = DOMAIN old
    BY <1>1 DEF Signature
  <1>4. ASSUME NEW i \in DOMAIN old
        PROVE  new[i].name = old[i].name /\ InfoOf(new[i]) = InfoOf(old[i])
    <2>1. Signature(new)[i] = <<new[i].name, InfoOf(new[i])>>
      BY <1>3 DEF Signature
    <2>2. Signature(old)[i] = <<old[i].name, InfoOf(old[i])>>
      BY DEF Signature
    <2> QED BY <1>1, <2>1, <2>2
  <1>5. ASSUME NEW i \in DOMAIN old
        PROVE  \E v \in 1..Len(lists) : /\ Recent(c, v)
                                        /\ old[i].name \in DOMAIN lists[v]
                                        /\ lists[v][old[i].name] = InfoOf(old[i])
    <2>1. new[i].list \in 1..Len(lists) /\ new[i].name \in DOMAIN lists[new[i].list]
      BY <1>2, <1>3 DEF AllServed, Served
    <2>2. lists[new[i].list][new[i].name] = InfoOf(old[i])
      BY <1>4 DEF InfoOf
    <2> QED BY <1>2, <1>3, <1>4, <2>1, <2>2
  <1> QED BY <1>5 DEF RouteHolds, old

\* The lists that were served are kept.
LEMMA ListsGrow ==
    ASSUME TypeInv, [Next]_vars
    PROVE  /\ Len(lists) \in Nat /\ Len(lists') \in Nat /\ Len(lists) <= Len(lists')
           /\ \A v \in 1..Len(lists) : lists'[v] = lists[v]
  <1>1. lists \in Seq(Tables) /\ Len(lists) \in Nat
    BY DEF TypeInv, TypeOK
  <1>2. lists' = lists \/ \E t \in Tables : lists' = Append(lists, t)
    BY DEF Next, vars, Publish, Start, Begin, Fetch, FetchFails, Work, Store, Check,
           resolveChain, buildHops, connectivitySignature, Preflight, Finish, DialHop,
           Handshake, SetUp, Register, CloseSession
  <1> QED BY <1>1, <1>2

\* What was served, or holds by a recent list, does so after every step.
LEMMA PathFrame ==
    ASSUME TypeInv, PathInv, [Next]_vars,
           \A s \in Sids : /\ sessions'[s].sig = sessions'[s].hops
                           /\ AllServed(sessions'[s].hops),
           \A c \in Calls :
              /\ call'[c].session.sig = call'[c].session.hops
              /\ AllServed(call'[c].session.hops)
              /\ AllServed(call'[c].hops)
              /\ call'[c].kind = "sexec" =>
                    /\ call'[c].pc \notin {"check", "hops", "dial", "handshake"}
                    /\ call'[c].pc \in Checked =>
                          /\ RouteHolds(c)
                          /\ call'[c].session = call[c].session
                          /\ call'[c].since = call[c].since
                          /\ call'[c].inflight = call[c].inflight
    PROVE  PathInv'
  <1>0. /\ Len(lists) \in Nat /\ Len(lists') \in Nat /\ Len(lists) <= Len(lists')
        /\ \A v \in 1..Len(lists) : lists'[v] = lists[v]
    BY ListsGrow
  <1>1. ASSUME NEW hops, AllServed(hops)
        PROVE  \A i \in DOMAIN hops :
                  /\ hops[i].list \in 1..Len(lists')
                  /\ hops[i].name \in DOMAIN lists'[hops[i].list]
                  /\ lists'[hops[i].list] = lists[hops[i].list]
    BY <1>0, <1>1 DEF AllServed, Served
  <1>2. ASSUME NEW s \in Sids PROVE AllServed(sessions[s].hops)'
    BY <1>1 DEF AllServed, Served
  <1>3. ASSUME NEW c \in Calls
        PROVE  AllServed(call[c].session.hops)' /\ AllServed(call[c].hops)'
    <2>1. AllServed(call[c].session.hops)'
      BY <1>1 DEF AllServed, Served
    <2>2. AllServed(call[c].hops)'
      BY <1>1 DEF AllServed, Served
    <2> QED BY <2>1, <2>2
  <1>4. ASSUME NEW c \in Calls, call'[c].kind = "sexec",
               call'[c].pc \in Checked
        PROVE  RouteHolds(c)'
    <2> DEFINE hops == call[c].session.hops
    <2>1. /\ RouteHolds(c)
          /\ call'[c].session.hops = hops
          /\ call'[c].since = call[c].since
          /\ call'[c].inflight = call[c].inflight
      BY <1>4
    <2>2. ASSUME NEW i \in DOMAIN hops
          PROVE  \E v \in 1..Len(lists') :
                    /\ v >= call[c].since \/ v \in call[c].inflight
                    /\ hops[i].name \in DOMAIN lists'[v]
                    /\ lists'[v][hops[i].name] = lists'[hops[i].list][hops[i].name]
      <3>1. PICK v \in 1..Len(lists) : /\ Recent(c, v)
                                       /\ hops[i].name \in DOMAIN lists[v]
                                       /\ lists[v][hops[i].name] = InfoOf(hops[i])
        BY <2>1, <2>2 DEF RouteHolds
      <3>2. v \in 1..Len(lists') /\ lists'[v] = lists[v]
        BY <1>0
      <3>3. lists'[hops[i].list] = lists[hops[i].list]
        BY <1>1, <2>2 DEF PathInv
      <3>4. v >= call[c].since \/ v \in call[c].inflight
        BY <3>1 DEF Recent
      <3>5. lists[v][hops[i].name] = lists[hops[i].list][hops[i].name]
        BY <3>1 DEF InfoOf
      <3>6. /\ hops[i].name \in DOMAIN lists'[v]
            /\ lists'[v][hops[i].name] = lists'[hops[i].list][hops[i].name]
        BY <3>1, <3>2, <3>3, <3>5, Zenon
      <3> HIDE DEF hops
      <3>7. v \in 1..Len(lists')
        BY <3>2
      <3> WITNESS v \in 1..Len(lists')
      <3> QED BY <3>4, <3>6
    <2>3. ASSUME NEW i \in DOMAIN call'[c].session.hops
          PROVE  \E v \in 1..Len(lists') :
                    /\ Recent(c, v)'
                    /\ call'[c].session.hops[i].name \in DOMAIN lists'[v]
                    /\ lists'[v][call'[c].session.hops[i].name]
                         = InfoOf(call[c].session.hops[i])'
      <3>1. i \in DOMAIN hops
        BY <2>1, <2>3
      <3>2. PICK v \in 1..Len(lists') :
                    /\ v >= call[c].since \/ v \in call[c].inflight
                    /\ hops[i].name \in DOMAIN lists'[v]
                    /\ lists'[v][hops[i].name] = lists'[hops[i].list][hops[i].name]
        BY <2>2, <3>1
      <3>3. Recent(c, v)'
        BY <2>1, <3>2 DEF Recent
      <3>4. /\ call'[c].session.hops[i].name \in DOMAIN lists'[v]
            /\ lists'[v][call'[c].session.hops[i].name]
                 = InfoOf(call[c].session.hops[i])'
        BY <2>1, <3>2 DEF InfoOf
      <3> WITNESS v \in 1..Len(lists')
      <3> QED BY <3>3, <3>4
    <2> QED BY <2>3, Zenon DEF RouteHolds
  <1> QED BY <1>2, <1>3, <1>4 DEF PathInv

\* Every step keeps PathInv.
LEMMA PathStep == TypeInv /\ RouteInv /\ PathInv /\ [Next]_vars => PathInv'
  <1> SUFFICES ASSUME TypeInv, RouteInv, PathInv, [Next]_vars PROVE PathInv'
    OBVIOUS
  <1> DEFINE Good(c) ==
              /\ call'[c].session.sig = call'[c].session.hops
              /\ AllServed(call'[c].session.hops)
              /\ AllServed(call'[c].hops)
              /\ call'[c].kind = "sexec" =>
                    /\ call'[c].pc \notin {"check", "hops", "dial", "handshake"}
                    /\ call'[c].pc \in Checked =>
                          /\ RouteHolds(c)
                          /\ call'[c].session = call[c].session
                          /\ call'[c].since = call[c].since
                          /\ call'[c].inflight = call[c].inflight
  <1>0. AllServed(<<>>)
    BY DEF AllServed
  <1>1. ASSUME NEW c \in Calls, call'[c] = call[c] PROVE Good(c)
    BY <1>1 DEF PathInv
  <1>2. ASSUME NEW c \in Calls, call'[c] = Idle PROVE Good(c)
    BY <1>0, <1>2 DEF Idle, NoSession
  <1>3. ASSUME sessions' = sessions, \A c \in Calls : Good(c) PROVE PathInv'
    BY <1>3, PathFrame DEF PathInv
  <1>4. ASSUME NEW c \in Calls, Good(c), sessions' = sessions,
               \A d \in Calls \ {c} : call'[d] = call[d]
        PROVE  PathInv'
    BY <1>1, <1>3, <1>4
  <1>5. ASSUME NEW c \in Calls, End(c) PROVE \A d \in Calls : Good(d)
    <2>1. call'[c] = Idle /\ \A d \in Calls \ {c} : call'[d] = call[d]
      BY <1>5 DEF End, TypeInv, TypeOK
    <2> QED BY <1>1, <1>2, <2>1
  \* A call that goes on without reading anything, with the session it has.
  <1>6. ASSUME NEW c \in Calls,
               call'[c].session = call[c].session, call'[c].kind = call[c].kind,
               call'[c].since = call[c].since, call'[c].inflight = call[c].inflight,
               AllServed(call'[c].hops),
               call[c].kind = "sexec" =>
                  /\ call'[c].pc \notin {"check", "hops", "dial", "handshake"}
                  /\ call'[c].pc \in Checked => RouteHolds(c)
        PROVE  Good(c)
    BY <1>6 DEF PathInv
  <1> HIDE DEF Good
  <1>7. CASE UNCHANGED vars
    BY <1>1, <1>3, <1>7 DEF vars
  <1>8. ASSUME NEW t \in Tables, Publish(t) PROVE PathInv'
    BY <1>1, <1>3, <1>8 DEF Publish
  <1>9. ASSUME NEW c \in Calls, Start(c) PROVE PathInv'
    <2>1. PICK kind, host, session :
             /\ Begin(c, kind, host, session)
             /\ session = NoSession \/ \E s \in Sids : session = sessions[s]
      BY <1>9 DEF Start
    <2>2. session.sig = session.hops /\ AllServed(session.hops)
      BY <1>0, <2>1 DEF PathInv, NoSession
    <2>3. /\ \A d \in Calls \ {c} : call'[d] = call[d]
          /\ call'[c].session = session /\ call'[c].hops = <<>> /\ call'[c].pc = "fetch"
          /\ sessions' = sessions
      BY <2>1 DEF Begin, Idle, TypeInv, TypeOK
    <2>4. Good(c)
      BY <1>0, <2>2, <2>3 DEF Good, Checked
    <2> QED BY <1>4, <2>3, <2>4
  <1>10. ASSUME NEW c \in Calls, Fetch(c) PROVE PathInv'
    <2>1. /\ \A d \in Calls \ {c} : call'[d] = call[d]
          /\ call'[c].session = call[c].session /\ call'[c].kind = call[c].kind
          /\ call'[c].since = call[c].since /\ call'[c].inflight = call[c].inflight
          /\ call'[c].hops = call[c].hops /\ call'[c].pc = "fetched"
          /\ sessions' = sessions
      BY <1>10 DEF Fetch, TypeInv, TypeOK, CallState
    <2>2. AllServed(call'[c].hops)
      BY <2>1 DEF PathInv
    <2> QED BY <1>4, <1>6, <2>1, <2>2 DEF Checked
  <1>11. ASSUME NEW c \in Calls, FetchFails(c) PROVE PathInv'
    BY <1>3, <1>5, <1>11 DEF FetchFails
  <1>12. ASSUME NEW c \in Calls, Store(c) PROVE PathInv'
    <2>1. /\ \A d \in Calls \ {c} : call'[d] = call[d]
          /\ sessions' = sessions
      BY <1>12 DEF Store, TypeInv, TypeOK
    <2>2. CASE call[c].kind = "refresh"
      BY <1>2, <1>4, <1>12, <2>1, <2>2 DEF Store, TypeInv, TypeOK
    <2>3. CASE call[c].kind # "refresh"
      <3>1. /\ call'[c].session = call[c].session /\ call'[c].kind = call[c].kind
            /\ call'[c].since = call[c].since /\ call'[c].inflight = call[c].inflight
            /\ call'[c].hops = call[c].hops
            /\ call'[c].pc = IF call[c].kind = "sexec" THEN "chain" ELSE "check"
        BY <1>12, <2>3 DEF Store, TypeInv, TypeOK, CallState
      <3>2. AllServed(call'[c].hops)
        BY <3>1 DEF PathInv
      <3> QED BY <1>4, <1>6, <2>1, <3>1, <3>2 DEF Checked
    <2> QED BY <2>2, <2>3
  <1>13. ASSUME NEW c \in Calls,
                Check(c) \/ resolveChain(c) \/ Preflight(c) \/ DialHop(c) \/ Handshake(c)
                         \/ SetUp(c)
         PROVE  PathInv'
    <2>1. sessions' = sessions
      BY <1>13 DEF Check, resolveChain, Preflight, DialHop, Handshake, SetUp
    <2>2. \/ End(c)
          \/ /\ \A d \in Calls \ {c} : call'[d] = call[d]
             /\ call'[c].session = call[c].session /\ call'[c].kind = call[c].kind
             /\ call'[c].since = call[c].since /\ call'[c].inflight = call[c].inflight
             /\ call'[c].hops = call[c].hops
             /\ call[c].kind = "sexec" =>
                   \/ call[c].pc \in {"check", "dial", "handshake"}
                   \/ call'[c].pc \in {"chain", "sig"}
                   \/ /\ call[c].pc \in {"bchain", "preflight", "setup"}
                      /\ call'[c].pc \in Checked
      <3> USE DEF TypeInv, TypeOK, CallState
      <3>1. CASE Check(c) \/ Preflight(c) \/ DialHop(c) \/ Handshake(c) \/ SetUp(c)
        BY <3>1 DEF Check, Preflight, DialHop, Handshake, SetUp, Checked
      <3>2. CASE resolveChain(c)
        BY <3>2 DEF resolveChain, AfterChain, Checked
      <3> QED BY <1>13, <3>1, <3>2
    <2>3. AllServed(call[c].hops)
      BY DEF PathInv
    <2>4. CASE ~End(c)
      <3>1. call[c].kind = "sexec" =>
               /\ call'[c].pc \notin {"check", "hops", "dial", "handshake"}
               /\ call'[c].pc \in Checked => RouteHolds(c)
        BY <2>2, <2>4 DEF PathInv, Checked
      <3> QED BY <1>4, <1>6, <2>1, <2>2, <2>3, <2>4, <3>1
    <2> QED BY <1>3, <1>5, <2>1, <2>4
  <1>14. ASSUME NEW c \in Calls, buildHops(c) PROVE PathInv'
    <2>1. CASE End(c)
      BY <1>3, <1>5, <1>14, <2>1 DEF buildHops
    <2>2. CASE ~End(c)
      <3>1. /\ Known(NextName(c)) /\ call[c].pc = "hops" /\ sessions' = sessions
            /\ \A d \in Calls \ {c} : call'[d] = call[d]
            /\ call'[c].session = call[c].session /\ call'[c].kind = call[c].kind
            /\ call'[c].since = call[c].since /\ call'[c].inflight = call[c].inflight
            /\ call'[c].hops = ReadHop(c)
        BY <1>14, <2>2 DEF buildHops, TypeInv, TypeOK, CallState
      <3>2. AllServed(call'[c].hops) /\ call[c].kind # "sexec"
        BY <3>1, ReadHopServed DEF PathInv
      <3> QED BY <1>4, <1>6, <3>1, <3>2
    <2> QED BY <2>1, <2>2
  <1>15. ASSUME NEW c \in Calls, connectivitySignature(c) PROVE PathInv'
    <2>1. CASE End(c)
      BY <1>3, <1>5, <1>15, <2>1 DEF connectivitySignature
    <2>2. CASE ~End(c)
      <3>1. /\ Known(NextName(c)) /\ call[c].pc = "sig" /\ sessions' = sessions
            /\ \A d \in Calls \ {c} : call'[d] = call[d]
            /\ call'[c].session = call[c].session /\ call'[c].kind = call[c].kind
            /\ call'[c].since = call[c].since /\ call'[c].inflight = call[c].inflight
            /\ \/ call'[c].hops = ReadHop(c) /\ call'[c].pc = "sig"
               \/ /\ call'[c].hops = <<>> /\ call'[c].pc = "bchain"
                  /\ Signature(ReadHop(c)) = Signature(call[c].session.sig)
        BY <1>15, <2>2 DEF connectivitySignature, TypeInv, TypeOK, CallState
      <3>2. AllServed(call'[c].hops)
        BY <1>0, <3>1, ReadHopServed
      <3>3. call'[c].pc = "bchain" => RouteHolds(c)
        BY <3>1, SameSignature DEF Past
      <3> QED BY <1>4, <1>6, <3>1, <3>2, <3>3 DEF Checked
    <2> QED BY <2>1, <2>2
  <1>16. ASSUME NEW c \in Calls, Finish(c) PROVE PathInv'
    BY <1>3, <1>5, <1>16 DEF Finish
  <1>17. ASSUME NEW c \in Calls, NEW s \in Sids, Register(c, s) PROVE PathInv'
    <2>1. /\ sessions'[s].hops = call[c].hops /\ sessions'[s].sig = call[c].hops
          /\ \A r \in Sids \ {s} : sessions'[r] = sessions[r]
          /\ End(c)
      BY <1>17 DEF Register, TypeInv, TypeOK
    <2>2. \A r \in Sids : /\ sessions'[r].sig = sessions'[r].hops
                          /\ AllServed(sessions'[r].hops)
      BY <2>1 DEF PathInv
    <2>3. \A d \in Calls : Good(d)
      BY <1>5, <2>1
    <2> QED BY <2>2, <2>3, PathFrame DEF Good
  <1>18. ASSUME NEW s \in Sids, CloseSession(s) PROVE PathInv'
    <2>1. /\ sessions'[s].hops = <<>> /\ sessions'[s].sig = <<>>
          /\ \A r \in Sids \ {s} : sessions'[r] = sessions[r]
          /\ call' = call
      BY <1>18 DEF CloseSession, NoSession, TypeInv, TypeOK
    <2>2. \A r \in Sids : /\ sessions'[r].sig = sessions'[r].hops
                          /\ AllServed(sessions'[r].hops)
      BY <1>0, <2>1 DEF PathInv
    <2>3. \A d \in Calls : Good(d)
      BY <1>1, <2>1
    <2> QED BY <2>2, <2>3, PathFrame DEF Good
  <1> QED BY <1>7, <1>8, <1>9, <1>10, <1>11, <1>12, <1>13, <1>14, <1>15, <1>16, <1>17,
             <1>18 DEF Next, Work

\* A session runs a command only over a route that recent lists still describe, hop by
\* hop, although its connection was opened earlier and the cache may have changed
\* between any two look-ups (currentConnectivitySignature, OpenSession).
THEOREM SessionRouteRecent == Spec => []SessionRouteIsRecent
  <1>1. Init => PathInv
    BY DEF Init, Idle, NoSession, PathInv, AllServed
  <1>2. PathInv => SessionRouteIsRecent
    BY DEF PathInv, Checked, RouteHolds, SessionRouteIsRecent
  <1> QED BY <1>1, <1>2, InitTypes, TypeStep, InitRoute, RouteStep, PathStep, PTL DEF Spec
=============================================================================
