---------------------------- MODULE ControlPlane ----------------------------
(***************************************************************************)
(* The control plane's approval gate: the in-memory Registry               *)
(* (internal/control/approval.go) and the HTTP handlers that drive it      *)
(* (cmd/control-plane/main.go).  Handlers run concurrently; the registry's *)
(* mutex makes each registry call one step, and everything between two     *)
(* registry calls (the RPC to the signer above all) interleaves freely.    *)
(*                                                                         *)
(* A poll of GET /v1/sign/result/{id} is a handler in Pollers; a decision  *)
(* POST /v1/approvals/{id} is a handler in Deciders.  handleSign reaches   *)
(* the registry only through requireApproval, so it is that action.        *)
(***************************************************************************)
EXTENDS Naturals, FiniteSets

CONSTANTS
    Ids,         \* 128-bit random identifiers: never reused
    CNs,         \* common names of the mTLS client certificates
    approveCN,   \* approval.callers
    signCN,      \* sign_callers; {} = any CN that is not an approver
    Pollers,     \* goroutines that serve polls
    Deciders,    \* goroutines that serve decisions
    Nil,         \* the empty string where a CN or an id is expected
    TTL,         \* approval.timeout_seconds, in clock ticks
    MaxTime,     \* bound on the clock
    MaxRPCs      \* an approval is polled until this many forwards were sent

ASSUME NamesAssumption ==
    /\ approveCN \subseteq CNs
    /\ signCN \subseteq CNs
    /\ Nil \notin CNs
    /\ Nil \notin Ids

ASSUME BoundsAssumption ==
    /\ TTL \in Nat
    /\ MaxTime \in Nat
    /\ MaxRPCs \in Nat

VARIABLES
    items,      \* Registry.items: what the map holds under each id
    used,       \* ids newID() has returned so far
    poll,       \* the local state of each poll handler
    decide,     \* the local state of each decision handler
    now,        \* the clock
    sentRPCs,   \* approved forwards sent to the signer, per id
    late,       \* forwards the control plane gave up on and the signer may
                \* still execute
    issued,     \* the forwards the signer has issued a certificate for
    granted,    \* the 200 answers that carried a certificate
    requester,  \* history: who asked for id
    approver    \* history: who approved id

registryVars == <<items, used>>
signerVars == <<sentRPCs, late, issued>>
historyVars == <<requester, approver>>
vars == <<items, used, poll, decide, now, sentRPCs, late, issued, granted,
          requester, approver>>

Status == {"absent", "pending", "approved", "denied", "expired"}

Approval ==
    [status: Status, caller: CNs \cup {Nil}, createdAt: Nat,
     decidedBy: CNs \cup {Nil}, decidedAt: Nat, learn: BOOLEAN,
     consumed: BOOLEAN, issuing: BOOLEAN]

\* No entry in the map.
NoApproval ==
    [status |-> "absent", caller |-> Nil, createdAt |-> 0,
     decidedBy |-> Nil, decidedAt |-> 0, learn |-> FALSE,
     consumed |-> FALSE, issuing |-> FALSE]

\* A poll ends in the deferred FinishConsume: "burn" with consumeOK, "release"
\* without.
PollPC == {"idle", "got", "claimed", "sent", "signed", "release", "burn"}

\* cn, by and learn (LearnTTL > 0) are the handler's copy of the approval, n the
\* number of its forward.
PollState == [pc: PollPC, id: Ids \cup {Nil}, cn: CNs \cup {Nil},
              by: CNs \cup {Nil}, learn: BOOLEAN, n: Nat]

IdlePoll == [pc |-> "idle", id |-> Nil, cn |-> Nil, by |-> Nil,
             learn |-> FALSE, n |-> 0]

\* A forward with approved=true: the n-th of its id.  learn asks the signer to
\* mint a waiver beside the certificate.
Forward == [id: Ids, n: Nat, learn: BOOLEAN]
ForwardOf(p) == [id |-> poll[p].id, n |-> poll[p].n, learn |-> poll[p].learn]

Grant == [id: Ids, n: Nat, to: CNs, by: CNs]

DecideState == [pc: {"idle", "checked"}, id: Ids \cup {Nil},
                cn: CNs \cup {Nil}, approve: BOOLEAN, learn: BOOLEAN]

IdleDecide == [pc |-> "idle", id |-> Nil, cn |-> Nil, approve |-> FALSE,
               learn |-> FALSE]

TypeOK ==
    /\ items \in [Ids -> Approval]
    /\ used \in SUBSET Ids
    /\ poll \in [Pollers -> PollState]
    /\ decide \in [Deciders -> DecideState]
    /\ now \in Nat
    /\ sentRPCs \in [Ids -> Nat]
    /\ late \in SUBSET Forward
    /\ issued \in SUBSET Forward
    /\ granted \in SUBSET Grant
    /\ requester \in [Ids -> CNs \cup {Nil}]
    /\ approver \in [Ids -> CNs \cup {Nil}]

Init ==
    /\ items = [id \in Ids |-> NoApproval]
    /\ used = {}
    /\ poll = [p \in Pollers |-> IdlePoll]
    /\ decide = [d \in Deciders |-> IdleDecide]
    /\ now = 0
    /\ sentRPCs = [id \in Ids |-> 0]
    /\ late = {}
    /\ issued = {}
    /\ granted = {}
    /\ requester = [id \in Ids |-> Nil]
    /\ approver = [id \in Ids |-> Nil]

-----------------------------------------------------------------------------
(* The registry: what each of its critical sections does to the map.       *)

isSignCaller(cn) == IF signCN # {} THEN cn \in signCN ELSE cn \notin approveCN

\* The usable window has elapsed: from creation while pending, from the
\* decision once approved; a claimed or consumed approval no longer expires.
Lapsed(a) ==
    \/ a.status = "pending" /\ now > a.createdAt + TTL
    \/ /\ a.status = "approved"
       /\ ~a.consumed
       /\ ~a.issuing
       /\ now > a.decidedAt + TTL

expireLocked_Mislabels(a) ==
    IF Lapsed(a) THEN [a EXCEPT !.status = "timeout"] ELSE a

expireLocked(a) == IF Lapsed(a) THEN [a EXCEPT !.status = "expired"] ELSE a

purgeLocked(a) == IF a.status # "absent" /\ now > a.createdAt + 2 * TTL
                  THEN NoApproval ELSE a

Claimable(a) == a.status = "approved" /\ ~a.consumed /\ ~a.issuing

BeginConsume_NoExpiry(a) ==
    IF Claimable(a) THEN [a EXCEPT !.issuing = TRUE] ELSE a

\* BeginConsume's effect on the entry it is asked for.
BeginConsume(a) ==
    LET e == expireLocked(a)
    IN IF Claimable(e) THEN [e EXCEPT !.issuing = TRUE] ELSE e

FinishConsume_KeepsApproval(a, success) ==
    IF a.status = "absent" THEN a ELSE [a EXCEPT !.issuing = FALSE]

FinishConsume_OnlyOnSuccess(a, success) ==
    IF a.status = "absent" \/ ~success THEN a
    ELSE [a EXCEPT !.consumed = TRUE, !.issuing = FALSE]

\* Burn on success, release on failure; nothing if the entry was purged.
FinishConsume(a, success) ==
    IF a.status = "absent" THEN a
    ELSE [a EXCEPT !.consumed = @ \/ success, !.issuing = FALSE]

NewApproval(cn) == [NoApproval EXCEPT !.status = "pending", !.caller = cn,
                                      !.createdAt = now]

Decidable_Reopens(a) == a.status \in {"pending", "expired"}

Decidable(a) == a.status = "pending"

Decided_Swapped(a, by, approve, learn) ==
    [a EXCEPT !.status = IF approve THEN "denied" ELSE "approved",
              !.learn = approve /\ learn,
              !.decidedBy = by,
              !.decidedAt = now]

\* Decide on an entry that is still pending once expiry has been applied.
Decided(a, by, approve, learn) ==
    [a EXCEPT !.status = IF approve THEN "approved" ELSE "denied",
              !.learn = approve /\ learn,
              !.decidedBy = by,
              !.decidedAt = now]

SelfApproval_Unchecked(a, cn) == a.status = "absent" /\ a.caller = cn

\* The originator of a request must not decide it, even as an approver.
SelfApproval(a, cn) == a.status # "absent" /\ a.caller = cn

-----------------------------------------------------------------------------
(* handleSign: a signature that needs a human.  The signer asked for an    *)
(* approval, or the behaviour guardrails escalated; every other outcome of *)
(* handleSign leaves the registry alone.                                   *)

requireApproval(cn, id) ==
    /\ isSignCaller(cn)
    /\ id \notin used
    /\ items' = [i \in Ids |-> IF i = id THEN NewApproval(cn)
                                         ELSE purgeLocked(items[i])]
    /\ used' = used \cup {id}
    /\ requester' = [requester EXCEPT ![id] = cn]
    /\ UNCHANGED <<poll, decide, now, signerVars, granted, approver>>

-----------------------------------------------------------------------------
(* handleResult: one poll, from Get to the deferred FinishConsume.         *)

\* The answer to a poll that stops at Get; "none" when it goes on to the claim.
GetReply(a, cn) ==
    IF a.status = "absent" THEN "unknown"
    ELSE IF a.caller # cn THEN "forbidden"
    ELSE IF a.status # "approved" THEN a.status
    ELSE "none"

\* Get, with lazy expiry, and the ownership check.  An approved request goes on
\* with the copy it just read; every other one is answered here.
PollGet(p, cn, id) ==
    LET a == expireLocked(items[id]) IN
    /\ poll[p].pc = "idle"
    /\ isSignCaller(cn)
    /\ id \in used
    /\ sentRPCs[id] < MaxRPCs
    /\ items' = [items EXCEPT ![id] = a]
    /\ poll' = [poll EXCEPT ![p] =
                  IF GetReply(a, cn) = "none"
                  THEN [pc |-> "got", id |-> id, cn |-> cn, by |-> a.decidedBy,
                        learn |-> a.learn, n |-> 0]
                  ELSE IdlePoll]
    /\ UNCHANGED <<used, decide, now, signerVars, granted, historyVars>>

\* The answer of a poll that claims a; "none" when it holds the claim and goes on.
\* Otherwise another poller is issuing, or the approval is used up or expired.
ClaimReply(a) ==
    LET b == BeginConsume(a) IN
    IF b.issuing /\ ~a.issuing THEN "none"
    ELSE IF b.status = "approved" /\ ~b.consumed THEN "issuing" ELSE "gone"

\* BeginConsume: the claim that keeps a second poller out.
PollClaim(p) ==
    LET id == poll[p].id IN
    /\ poll[p].pc = "got"
    /\ items' = [items EXCEPT ![id] = BeginConsume(items[id])]
    /\ poll' = [poll EXCEPT ![p] =
                  IF ClaimReply(items[id]) = "none"
                  THEN [@ EXCEPT !.pc = "claimed"] ELSE IdlePoll]
    /\ UNCHANGED <<used, decide, now, signerVars, granted, historyVars>>

\* Registry.Request and the start of SignIntent.  An entry purged since the
\* claim yields an empty request, which has no public key to parse.
PollForward(p) ==
    LET id == poll[p].id IN
    /\ poll[p].pc = "claimed"
    /\ IF items[id].status = "absent"
       THEN /\ poll' = [poll EXCEPT ![p].pc = "release"]
            /\ UNCHANGED sentRPCs
       ELSE /\ poll' = [poll EXCEPT ![p].pc = "sent",
                                    ![p].n = sentRPCs[id] + 1]
            /\ sentRPCs' = [sentRPCs EXCEPT ![id] = @ + 1]
    /\ UNCHANGED <<registryVars, decide, now, late, issued, granted,
                   historyVars>>

\* SignIntent returned an error, or an answer without a certificate.
PollSignerFails(p) ==
    /\ poll[p].pc = "sent"
    /\ poll' = [poll EXCEPT ![p].pc = "release"]
    /\ UNCHANGED <<registryVars, decide, now, signerVars, granted, historyVars>>

\* The signer's side of an approved forward.
PollSignerIssues(p) ==
    /\ poll[p].pc = "sent"
    /\ poll' = [poll EXCEPT ![p].pc = "signed"]
    /\ issued' = issued \cup {ForwardOf(p)}
    /\ UNCHANGED <<registryVars, decide, now, sentRPCs, late, granted,
                   historyVars>>

\* The RPC times out, its answer is lost or the broker hangs up (the request's
\* context is cancelled).  What the signer makes of the request is unknown.
PollLosesAnswer(p) ==
    /\ poll[p].pc \in {"sent", "signed"}
    /\ poll' = [poll EXCEPT ![p].pc = "release"]
    /\ late' = IF poll[p].pc = "sent" THEN late \cup {ForwardOf(p)} ELSE late
    /\ UNCHANGED <<registryVars, decide, now, sentRPCs, issued, granted,
                   historyVars>>

\* The signer executes a forward nobody waits for any more.
SignerLate(f) ==
    /\ f \in late
    /\ late' = late \ {f}
    /\ issued' = issued \cup {f}
    /\ UNCHANGED <<registryVars, poll, decide, now, sentRPCs, granted,
                   historyVars>>

\* consumeOK = true and the 200 answer (the certificate, or the decision when the
\* approved request was an executable preflight), before the deferred FinishConsume.
PollGrant(p) ==
    /\ poll[p].pc = "signed"
    /\ poll' = [poll EXCEPT ![p].pc = "burn"]
    /\ granted' = granted \cup {[id |-> poll[p].id, n |-> poll[p].n,
                                 to |-> poll[p].cn, by |-> poll[p].by]}
    /\ UNCHANGED <<registryVars, decide, now, signerVars, historyVars>>

PollFinish(p) ==
    LET id == poll[p].id IN
    /\ poll[p].pc \in {"release", "burn"}
    /\ items' = [items EXCEPT ![id] =
                   FinishConsume(items[id], poll[p].pc = "burn")]
    /\ poll' = [poll EXCEPT ![p] = IdlePoll]
    /\ UNCHANGED <<used, decide, now, signerVars, granted, historyVars>>

-----------------------------------------------------------------------------
(* handleApprovalDecide, handleApprovalsList, the clock and a restart.     *)

\* Get and the self-approval guard.
DecideCheck(d, cn, id, approve, learn) ==
    LET a == expireLocked(items[id]) IN
    /\ decide[d].pc = "idle"
    /\ cn \in approveCN
    /\ id \in used
    /\ learn => approve
    /\ items' = [items EXCEPT ![id] = a]
    /\ decide' = [decide EXCEPT ![d] =
                    IF SelfApproval(a, cn) THEN IdleDecide
                    ELSE [pc |-> "checked", id |-> id, cn |-> cn,
                          approve |-> approve, learn |-> learn]]
    /\ UNCHANGED <<used, poll, now, signerVars, granted, historyVars>>

\* Registry.Decide: 409 unless the request is still pending.
DecideApply(d) ==
    LET id == decide[d].id
        e  == expireLocked(items[id])
        r  == decide[d] IN
    /\ decide[d].pc = "checked"
    /\ decide' = [decide EXCEPT ![d] = IdleDecide]
    /\ IF Decidable(e)
       THEN /\ items' = [items EXCEPT ![id] =
                           Decided(e, r.cn, r.approve, r.learn)]
            /\ approver' = IF r.approve
                           THEN [approver EXCEPT ![id] = r.cn] ELSE approver
       ELSE /\ items' = [items EXCEPT ![id] = e]
            /\ UNCHANGED approver
    /\ UNCHANGED <<used, poll, now, signerVars, granted, requester>>

\* Registry.List, from the approvals listing, the UI and the pending gauge.
List ==
    /\ items' = [id \in Ids |-> expireLocked(purgeLocked(items[id]))]
    /\ UNCHANGED <<used, poll, decide, now, signerVars, granted, historyVars>>

Tick ==
    /\ now < MaxTime
    /\ now' = now + 1
    /\ UNCHANGED <<registryVars, poll, decide, signerVars, granted, historyVars>>

\* The process dies and starts again: nothing of the registry is persisted.
Restart ==
    /\ items' = [id \in Ids |-> NoApproval]
    /\ poll' = [p \in Pollers |-> IdlePoll]
    /\ decide' = [d \in Deciders |-> IdleDecide]
    /\ late' = late \cup {ForwardOf(p) : p \in {q \in Pollers : poll[q].pc = "sent"}}
    /\ UNCHANGED <<used, now, sentRPCs, issued, granted, historyVars>>

-----------------------------------------------------------------------------
PollStep(p) ==
    \/ PollClaim(p)
    \/ PollForward(p)
    \/ PollSignerFails(p)
    \/ PollSignerIssues(p)
    \/ PollLosesAnswer(p)
    \/ PollGrant(p)
    \/ PollFinish(p)

Next ==
    \/ \E cn \in CNs, id \in Ids : requireApproval(cn, id)
    \/ \E p \in Pollers, cn \in CNs, id \in Ids : PollGet(p, cn, id)
    \/ \E p \in Pollers : PollStep(p)
    \/ \E f \in late : SignerLate(f)
    \/ \E d \in Deciders, cn \in CNs, id \in Ids, approve, learn \in BOOLEAN :
          DecideCheck(d, cn, id, approve, learn)
    \/ \E d \in Deciders : DecideApply(d)
    \/ List
    \/ Tick
    \/ Restart

\* A handler that was started runs to its end: goroutines are scheduled, the
\* registry's mutex is held for a bounded time and the signer RPC has a timeout.
\* Nothing is assumed of brokers, approvers or the signer.
Fairness == \A p \in Pollers : WF_vars(PollStep(p))

Spec == Init /\ [][Next]_vars /\ Fairness

-----------------------------------------------------------------------------
(* Properties.                                                             *)

\* An approval pays out once: however many pollers race for it, and whatever the
\* signer, the clock and the purge do meanwhile, at most one poll of an id is
\* answered 200 with a certificate (handleResult, "served once").
GrantedAtMostOnce ==
    \A g, h \in granted : g.id = h.id => g = h

\* Four eyes, end to end: a certificate handed out after approval goes to the
\* client that asked, and was approved by an approver who is somebody else,
\* although the self-approval guard and Decide are separate critical sections.
FourEyes ==
    \A g \in granted :
        /\ g.to = requester[g.id]
        /\ isSignCaller(g.to)
        /\ g.by = approver[g.id]
        /\ g.by \in approveCN
        /\ g.by # g.to

\* A waiver is minted, and a certificate issued, only for a request that was
\* approved: not even a forward the control plane gave up on, or that outlived
\* a restart, reaches the signer with approved=true for anything else.
IssuedOnlyIfApproved ==
    \A f \in issued \cup late : approver[f.id] \in approveCN

\* "consumed prevents a single approval from issuing more than one certificate"
\* (the comment on the field, internal/control/approval.go): the signer issues at
\* most one certificate for an approval.  A forward whose answer is lost releases
\* the claim although the signer may have executed it, or still will.
IssuedAtMostOnce ==
    \A f, g \in issued : f.id = g.id => f = g

\* An approval is claimed only inside its window: the status read by Get may be
\* stale by the time of the claim, so BeginConsume applies expiry again.
ClaimsAreFresh ==
    [][\A id \in Ids :
         items'[id].issuing /\ ~items[id].issuing =>
            now <= items[id].decidedAt + TTL]_vars

\* A claim is always released or burned: no failure of the signer, of the RPC or
\* of the broker leaves an approval stuck in "issuing" (the deferred
\* FinishConsume).
ClaimsEnd ==
    \A id \in Ids : items[id].issuing ~> ~items[id].issuing

\* The approval gate as ApprovalSpec sees it.  A claimed approval counts as
\* approved until the poll that claimed it ends, even if its entry was purged.
Claimed(id) ==
    \E p \in Pollers : /\ poll[p].id = id
                       /\ poll[p].pc \in {"claimed", "sent", "signed"}

phaseOf(id) ==
    IF \E g \in granted : g.id = id THEN "used"
    ELSE IF id \notin used THEN "none"
    ELSE IF Claimed(id) THEN "approved"
    ELSE IF items[id].status = "absent" THEN "gone"
    ELSE items[id].status

Abstract == INSTANCE ApprovalSpec WITH
    Brokers <- {cn \in CNs : isSignCaller(cn)},
    Approvers <- approveCN,
    Nobody <- Nil,
    phase <- [id \in Ids |-> phaseOf(id)],
    paid <- granted

\* The registry and its handlers implement the approval gate: every step of
\* theirs is a step of ApprovalSpec or leaves its state alone.
ImplementsApprovalSpec == Abstract!Spec
=============================================================================
