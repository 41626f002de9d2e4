----------------------------- MODULE Guardrails -----------------------------
(***************************************************************************)
(* The control plane's behaviour guardrails (internal/control/behavior.go) *)
(* in front of the signer and its rate limit: POST /v1/sign is checked     *)
(* against what its subject has done before, is forwarded or put before a  *)
(* human, and an approved anomaly is learned once the signer has answered  *)
(* (cmd/control-plane/main.go).  To the signer all of that is one client,  *)
(* the control plane; other clients ask it directly.                       *)
(***************************************************************************)
EXTENDS RateLimiter, Sequences

CONSTANTS
    Brokers, EndUsers, NoUser,
    TrustedForwarders,      \* brokers whose end_user is believed
    Hosts,
    Commands,               \* commands, as sequences of words
    ControlPlane,           \* the control plane's client name at the signer
    Modes,                  \* the modes the control plane may be started in
    RateLimitPerMin, maxSubjects, subjectTTL, maxDistinct,
    Asks,                   \* what brokers ask for
    Reqs,                   \* requests of brokers under way at a time
    NoReq,
    MaxRequests,            \* bound: requests of brokers
    MaxRestarts             \* bound: restarts of the control plane

\* What a request says; a dry run is executed by nobody, a preflight is one of a session.
WireRequest == [broker: Brokers, user: EndUsers \cup {NoUser}, host: Hosts,
                command: Commands, kind: {"sign", "preflight", "dry run"}]

\* A request under way, the rule it waits for approval under, and where it is.
Asked == [req: WireRequest, rule: {"none", "policy", "behavior"},
          pc: {"forward", "screen", "pending", "approved", "answered"}]

ASSUME GuardrailsAssumption ==
    /\ NoReq \notin Asked
    /\ NoUser \notin EndUsers
    /\ TrustedForwarders \subseteq Brokers
    /\ IsFiniteSet(Brokers) /\ IsFiniteSet(EndUsers)
    /\ ControlPlane \in Keys
    /\ Modes \subseteq {"off", "observe", "enforce"}
    /\ RateLimitPerMin \in Nat
    /\ maxSubjects \in Nat \ {0} /\ maxDistinct \in Nat \ {0}
    /\ subjectTTL \in Nat \ {0}
    /\ Asks \subseteq WireRequest
    /\ MaxRequests \in Nat /\ MaxRestarts \in Nat

VARIABLES
    mode,
    subjects,       \* what the tracker remembers
    reqs,           \* requests and approvals under way
    signRateMin,    \* the signer's limit in force
    past,           \* history, with each record of subjects: its first request, and when
                    \* requests of the last minute were not rate-limited
    vouched,        \* history: what a human approved and the signer then answered
    requests, restarts

guardVars == <<mode, subjects, past, vouched, reqs>>
vars == <<now, buckets, window, mode, subjects, reqs, signRateMin, past, vouched, requests,
          restarts>>

\* The program's name stands for the command; an empty one has none.
firstToken(command) == IF command = <<>> THEN "" ELSE Head(command)
Tokens == {firstToken(c) : c \in Commands}

\* An end user counts only if a trusted forwarder names it.
guardrailSubject(broker, user) ==
    IF broker \in TrustedForwarders THEN <<broker, user>> ELSE <<broker, NoUser>>
Subjects == Brokers \X (EndUsers \cup {NoUser})
SubjectOf(q) == guardrailSubject(q.broker, q.user)
WhoAndWhat(q) == <<SubjectOf(q), q.host, firstToken(q.command)>>

\* A timestamp, with the number of the request that left it: the order of a window's
\* timestamps does not matter, but two may be equal.
Stamps == [n: 0..MaxRequests, at: 0..MaxTime]

SubjectStates == [events: SUBSET Stamps, hosts: SUBSET Hosts, cmds: SUBSET (Tokens \ {""}),
                  lastSeen: 0..MaxTime]
FreshSubject == [events |-> {}, hosts |-> {}, cmds |-> {}, lastSeen |-> now]

TypeOK ==
    /\ LimiterTypeOK
    /\ mode \in Modes
    /\ DOMAIN subjects \subseteq Subjects
    /\ \A s \in DOMAIN subjects : subjects[s] \in SubjectStates
    /\ reqs \in [Reqs -> Asked \cup {NoReq}]
    /\ signRateMin \in Limits
    /\ DOMAIN past = DOMAIN subjects
    /\ vouched \subseteq Subjects \X Hosts \X Tokens
    /\ requests \in 0..MaxRequests
    /\ restarts \in 0..MaxRestarts

Init ==
    /\ LimiterInit
    /\ mode \in Modes
    /\ subjects = [s \in {} |-> FreshSubject]
    /\ reqs = [r \in Reqs |-> NoReq]
    /\ signRateMin \in Limits
    /\ past = [s \in {} |-> FreshSubject]
    /\ vouched = {}
    /\ requests = 0
    /\ restarts = 0

-----------------------------------------------------------------------------
(* The tracker.                                                            *)

\* evictLocked: the sets of subjects that may be left when one is to be added.
evictLocked ==
    LET live == {s \in DOMAIN subjects : subjects[s].lastSeen >= now - subjectTTL}
        oldest == {s \in live : \A x \in live : subjects[s].lastSeen <= subjects[x].lastSeen}
    IN IF Cardinality(DOMAIN subjects) < maxSubjects THEN {DOMAIN subjects}
       ELSE IF Cardinality(live) < maxSubjects THEN {live}
       ELSE {live \ {s} : s \in oldest}

\* Variant: a subject that is not known is added without making room.
Remaining_Unbounded(s) == {DOMAIN subjects}

Remaining(s) == IF s \in DOMAIN subjects THEN {DOMAIN subjects} ELSE evictLocked

Put(f, D, s, v) == [x \in D \cup {s} |-> IF x = s THEN v ELSE f[x]]

\* A set at its limit grows no more.
WithRoom(known, new) == IF Cardinality(known) < maxDistinct THEN known \cup new ELSE known

learnLocked(st, host, fp) ==
    [events |-> st.events,
     hosts |-> WithRoom(st.hosts, {host}),
     cmds |-> WithRoom(st.cmds, {fp} \ {""}),
     lastSeen |-> st.lastSeen]

\* New-host and new-command; at its limit a history has seen everything.
Novel(st, host, fp) ==
    \/ host \notin st.hosts /\ Cardinality(st.hosts) < maxDistinct
    \/ fp # "" /\ fp \notin st.cmds /\ Cardinality(st.cmds) < maxDistinct

Recent(events) == {e \in events : e.at > now - Minute}
Stamped(events) == Recent(events) \cup {[n |-> requests, at |-> now]}

\* Variant: the window starts again once it is full.
Events_StartsAgain(st) ==
    IF Cardinality(st.events) >= RateLimitPerMin THEN Stamped({}) ELSE Stamped(st.events)

\* The window of a minute, blocked attempts included.
Events(st) == IF RateLimitPerMin = 0 THEN st.events ELSE Stamped(st.events)

\* With enforcement, what is anomalous is not learned.
Learns(flagged) == mode # "enforce" \/ ~flagged

\* Check: what it finds novel and whether the rate is exceeded.
Check(s, host, fp, novel, exceeded) ==
    LET seen == s \in DOMAIN subjects
        old == IF seen THEN subjects[s] ELSE FreshSubject
        st == [events |-> Events(old), hosts |-> old.hosts, cmds |-> old.cmds, lastSeen |-> now]
    IN /\ exceeded = (RateLimitPerMin > 0 /\ Cardinality(st.events) > RateLimitPerMin)
       /\ novel = (seen /\ Novel(st, host, fp))
       /\ \E D \in Remaining(s) :
             /\ subjects' = Put(subjects, D, s, IF Learns(novel \/ exceeded)
                                                THEN learnLocked(st, host, fp) ELSE st)
             /\ past' = Put(past, D, s,
                   LET p == IF seen THEN past[s] ELSE [host |-> host, cmd |-> fp, passed |-> {}]
                   IN [host |-> p.host, cmd |-> p.cmd,
                       passed |-> IF exceeded THEN Recent(p.passed)
                                  ELSE Stamped(p.passed)])

\* Learn: no check, and no event.
Learn(s, host, fp) ==
    LET seen == s \in DOMAIN subjects
        old == IF seen THEN subjects[s] ELSE FreshSubject
        st == [events |-> old.events, hosts |-> old.hosts, cmds |-> old.cmds, lastSeen |-> now]
    IN \E D \in Remaining(s) :
          /\ subjects' = Put(subjects, D, s, learnLocked(st, host, fp))
          /\ past' = Put(past, D, s, IF seen THEN past[s]
                                    ELSE [host |-> NoReq, cmd |-> NoReq, passed |-> {}])

-----------------------------------------------------------------------------
(* The control plane.                                                      *)

Begin(r, q, pc) == reqs' = [reqs EXCEPT ![r] = [req |-> q, rule |-> "none", pc |-> pc]]
End(r) == reqs' = [reqs EXCEPT ![r] = NoReq]
Move(r, pc) == reqs' = [reqs EXCEPT ![r].pc = pc]

\* handleSign up to its call of the signer, with checkBehaviorGuardrails.  A pure dry run
\* is not checked.
handleSign(r) ==
    /\ reqs[r] = NoReq
    /\ requests < MaxRequests
    /\ requests' = requests + 1
    /\ \E q \in Asks :
          \/ /\ q.kind = "dry run" \/ mode = "off"
             /\ Begin(r, q, "forward")
             /\ UNCHANGED <<subjects, past>>
          \/ /\ q.kind # "dry run" /\ mode # "off"
             /\ \E novel, exceeded \in BOOLEAN :
                  /\ Check(SubjectOf(q), q.host, firstToken(q.command), novel, exceeded)
                  /\ CASE mode = "observe" -> Begin(r, q, "forward")
                       [] mode = "enforce" /\ exceeded -> UNCHANGED reqs
                       [] mode = "enforce" /\ ~exceeded ->
                             Begin(r, q, IF novel THEN "screen" ELSE "forward")
    /\ UNCHANGED <<now, buckets, window, mode, signRateMin, vouched, restarts>>

\* requireApproval; nobody but a trusted forwarder has an end user recorded.
requireApproval(r, rule) ==
    reqs' = [reqs EXCEPT ![r].pc = "pending", ![r].rule = rule,
                         ![r].req.user = IF reqs[r].req.broker \in TrustedForwarders THEN @
                                         ELSE NoUser]

\* SignIntent at the signer: its rate limit first, then what it decides.
AskSigner(ok) == Allow(ControlPlane, signRateMin, ok)

\* intentFrom refuses the public key, and the signer is not asked.
BadKey(r) == End(r) /\ UNCHANGED <<buckets, window>>

\* The dry run of an anomalous request: a human is asked only about what is allowed.
screen(r) ==
    /\ reqs[r] # NoReq /\ reqs[r].pc = "screen"
    /\ \/ BadKey(r)
       \/ \E ok \in BOOLEAN : /\ AskSigner(ok)
                              /\ End(r) \/ (ok /\ requireApproval(r, "behavior"))
    /\ UNCHANGED <<now, mode, subjects, signRateMin, past, vouched, requests, restarts>>

\* The rest of handleSign, and forwardSignResult.
forward(r) ==
    /\ reqs[r] # NoReq /\ reqs[r].pc = "forward"
    /\ \/ BadKey(r)
       \/ \E ok \in BOOLEAN :
             /\ AskSigner(ok)
             /\ End(r) \/ (ok /\ reqs[r].req.kind = "sign" /\ requireApproval(r, "policy"))
    /\ UNCHANGED <<now, mode, subjects, signRateMin, past, vouched, requests, restarts>>

\* A human decides, or nobody does in time.
decide(r) ==
    /\ reqs[r] # NoReq
    /\ \/ reqs[r].pc = "pending" /\ (Move(r, "approved") \/ End(r))
       \/ reqs[r].pc = "approved" /\ End(r)
    /\ UNCHANGED <<now, buckets, window, mode, subjects, signRateMin, past, vouched, requests,
                   restarts>>

\* Variant: what was approved counts as answered when the signer is asked.
handleResult_AnsweredAnyway(r) ==
    /\ reqs[r] # NoReq /\ reqs[r].pc = "approved"
    /\ \E ok \in BOOLEAN :
          /\ AskSigner(ok)
          /\ Move(r, "answered")
          /\ vouched' = IF ok THEN vouched \cup {WhoAndWhat(reqs[r].req)} ELSE vouched
    /\ UNCHANGED <<now, mode, subjects, signRateMin, past, requests, restarts>>

\* handleResult of an approved request: a failure releases the approval for another poll.
handleResult(r) ==
    /\ reqs[r] # NoReq /\ reqs[r].pc = "approved"
    /\ \E ok \in BOOLEAN :
          /\ AskSigner(ok)
          /\ \/ /\ ok
                /\ Move(r, "answered")
                /\ vouched' = vouched \cup {WhoAndWhat(reqs[r].req)}
             \/ UNCHANGED <<reqs, vouched>>
    /\ UNCHANGED <<now, mode, subjects, signRateMin, past, requests, restarts>>

\* Only what the guardrails put before the human is learned.
learnBehaviorApproval(r) ==
    /\ reqs[r] # NoReq /\ reqs[r].pc = "answered"
    /\ End(r)
    /\ IF reqs[r].rule = "behavior" /\ mode # "off"
       THEN Learn(SubjectOf(reqs[r].req), reqs[r].req.host, firstToken(reqs[r].req.command))
       ELSE UNCHANGED <<subjects, past>>
    /\ UNCHANGED <<now, buckets, window, mode, signRateMin, vouched, requests, restarts>>

\* The control plane restarts, perhaps in another mode: it has forgotten everything.
Restart ==
    /\ restarts < MaxRestarts
    /\ restarts' = restarts + 1
    /\ mode' \in Modes
    /\ subjects' = [s \in {} |-> FreshSubject]
    /\ past' = [s \in {} |-> FreshSubject]
    /\ reqs' = [r \in Reqs |-> NoReq]
    /\ UNCHANGED <<now, buckets, window, signRateMin, vouched, requests>>

-----------------------------------------------------------------------------
(* The rest of the signer's world.                                         *)

\* A client other than the control plane.
DirectSign(key) ==
    /\ key # ControlPlane
    /\ \E ok \in BOOLEAN : Allow(key, signRateMin, ok)
    /\ UNCHANGED <<now, signRateMin, requests, restarts>> /\ UNCHANGED guardVars

ReloadRate ==
    /\ signRateMin' \in Limits \ {signRateMin}
    /\ UNCHANGED <<now, buckets, window, requests, restarts>> /\ UNCHANGED guardVars

Clock ==
    /\ Tick
    /\ UNCHANGED <<signRateMin, requests, restarts>> /\ UNCHANGED guardVars

Next ==
    \/ \E r \in Reqs : \/ handleSign(r) \/ screen(r) \/ forward(r) \/ decide(r)
                       \/ handleResult(r) \/ learnBehaviorApproval(r)
    \/ Restart
    \/ \E key \in Keys : DirectSign(key)
    \/ ReloadRate
    \/ Clock

Spec == Init /\ [][Next]_vars

-----------------------------------------------------------------------------
(* Properties.                                                             *)

\* "A repeated unapproved anomaly remains anomalous": with enforcement, what a subject is
\* known for is its first request and what a human approved and the signer then answered.
KnownIsVouchedFor ==
    mode = "enforce" =>
        \A s \in DOMAIN subjects :
            /\ \A h \in subjects[s].hosts : \/ h = past[s].host
                                             \/ \E v \in vouched : v[1] = s /\ v[2] = h
            /\ \A c \in subjects[s].cmds : \/ c = past[s].cmd
                                            \/ \E v \in vouched : v[1] = s /\ v[3] = c

\* With enforcement, in no minute more than RateLimitPerMin requests of a subject get past
\* the guardrails, as long as the tracker does not forget the subject.
RatePerMinuteHolds ==
    mode = "enforce" /\ RateLimitPerMin > 0 =>
        \A s \in DOMAIN subjects : Cardinality(Recent(past[s].passed)) <= RateLimitPerMin

\* Neither the tracker nor the limiter outgrows its tables.
TablesBounded ==
    /\ BucketsBounded
    /\ Cardinality(DOMAIN subjects) <= maxSubjects
    /\ \A s \in DOMAIN subjects : /\ Cardinality(subjects[s].hosts) <= maxDistinct
                                  /\ Cardinality(subjects[s].cmds) <= maxDistinct
=============================================================================
