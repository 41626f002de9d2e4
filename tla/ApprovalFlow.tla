---------------------------- MODULE ApprovalFlow ----------------------------
(***************************************************************************)
(* The broker's side of an approval (Remote.SignIntent and pollApproval,   *)
(* internal/signer/remote.go) composed with the control plane.  A broker   *)
(* call posts one signature request, is told 202 and then polls, one       *)
(* request at a time, until it is answered, gives up or runs out of time.  *)
(* The handler that serves the polls of call c is poller c; when the call  *)
(* and its last poll have ended the broker may make another one.           *)
(***************************************************************************)
EXTENDS ControlPlane

CONSTANT approvalWaits  \* how long brokers are configured to wait for a human,
                        \* in clock ticks

ASSUME WaitAssumption == approvalWaits \subseteq Nat

VARIABLE call           \* the state of each broker call

flowVars == <<vars, call>>

\* Why a call ended: with the certificate, with the answer of Get or of the claim
\* that stopped it, because forwarding failed (502 or 400), because the broker
\* lost the connection or was cancelled, or because it waited long enough.
Outcome == {"none", "granted", "denied", "expired", "unknown", "forbidden",
            "gone", "failed", "hangup", "deadline", "nowait"}

CallState == [pc: {"idle", "waiting", "polling", "done"}, cn: CNs \cup {Nil},
              id: Ids \cup {Nil}, deadline: Nat, out: Outcome]

NoCall == [pc |-> "idle", cn |-> Nil, id |-> Nil, deadline |-> 0, out |-> "none"]

FlowInit ==
    /\ Init
    /\ call = [c \in Pollers |-> NoCall]

End(c, out) == [call[c] EXCEPT !.pc = "done", !.out = out]

-----------------------------------------------------------------------------
AfterAnswer_Retries(c, answer) ==
    CASE answer \in {"pending", "issuing", "failed"} -> [call[c] EXCEPT !.pc = "waiting"]
      [] answer = "none" -> [call[c] EXCEPT !.pc = "polling"]
      [] OTHER -> End(c, answer)

\* pollApproval's switch on the status code: 202 means ask again; any other
\* answer ends the call, the 502 of a failed forward included.  A poll that is
\* not answered yet keeps the call waiting for it.
AfterAnswer(c, answer) ==
    CASE answer \in {"pending", "issuing"} -> [call[c] EXCEPT !.pc = "waiting"]
      [] answer = "none" -> [call[c] EXCEPT !.pc = "polling"]
      [] OTHER -> End(c, answer)

\* The handler of a call that hung up answers nobody.
Answer(c, answer) ==
    call' = IF call[c].pc = "done" THEN call
            ELSE [call EXCEPT ![c] = AfterAnswer(c, answer)]

\* POST /v1/sign is answered 202, or the answer is lost; a broker that is not
\* configured to wait gives up at once.
StartCall(c, cn, id, wait, arrives) ==
    /\ call[c].pc \in {"idle", "done"}
    /\ poll[c].pc = "idle"
    /\ now + wait < MaxTime
    /\ requireApproval(cn, id)
    /\ call' = [call EXCEPT ![c] =
                  [pc |-> IF arrives /\ wait > 0 THEN "waiting" ELSE "done",
                   cn |-> cn, id |-> id, deadline |-> now + wait,
                   out |-> IF ~arrives THEN "hangup"
                           ELSE IF wait > 0 THEN "none" ELSE "nowait"]]

Wake_NoDeadline(c) ==
    LET id == call[c].id
        cn == call[c].cn
    IN /\ call[c].pc = "waiting"
       /\ PollGet(c, cn, id)
       /\ Answer(c, GetReply(expireLocked(items[id]), cn))

\* Two seconds after the last answer: the call gives up past its deadline, and
\* sends the next poll before it.
Wake(c) ==
    LET id == call[c].id
        cn == call[c].cn
    IN /\ call[c].pc = "waiting"
       /\ \/ /\ now > call[c].deadline
             /\ call' = [call EXCEPT ![c] = End(c, "deadline")]
             /\ UNCHANGED vars
          \/ /\ now <= call[c].deadline
             /\ PollGet(c, cn, id)
             /\ Answer(c, GetReply(expireLocked(items[id]), cn))

\* The caller's context ends, or the connection to the control plane fails: the
\* call returns an error and never asks again.
HangUp(c) ==
    /\ call[c].pc \in {"waiting", "polling"}
    /\ call' = [call EXCEPT ![c] = End(c, "hangup")]
    /\ UNCHANGED vars

FlowClaim(c) ==
    /\ PollClaim(c)
    /\ Answer(c, ClaimReply(items[poll[c].id]))

FlowFinish_AlwaysGranted(c) ==
    /\ PollFinish(c)
    /\ Answer(c, "granted")

\* The handler's answer leaves it when it returns, after the deferred
\* FinishConsume.
FlowFinish(c) ==
    /\ PollFinish(c)
    /\ Answer(c, IF poll[c].pc = "burn" THEN "granted" ELSE "failed")

HandlerStep(c) ==
    \/ FlowClaim(c)
    \/ FlowFinish(c)
    \/ /\ \/ PollForward(c)
          \/ PollSignerFails(c)
          \/ PollSignerIssues(c)
          \/ PollLosesAnswer(c)
          \/ PollGrant(c)
       /\ UNCHANGED call

\* A restart breaks the connections of the polls in progress.
FlowRestart ==
    /\ Restart
    /\ call' = [c \in Pollers |-> IF call[c].pc = "polling" THEN End(c, "hangup")
                                  ELSE call[c]]

Human ==
    \/ \E d \in Deciders, cn \in CNs, id \in Ids, approve \in BOOLEAN :
          DecideCheck(d, cn, id, approve, FALSE)
    \/ \E d \in Deciders : DecideApply(d)

FlowNext ==
    \/ \E c \in Pollers, cn \in CNs, id \in Ids, wait \in approvalWaits,
          arrives \in BOOLEAN : StartCall(c, cn, id, wait, arrives)
    \/ \E c \in Pollers : Wake(c) \/ HangUp(c) \/ HandlerStep(c)
    \/ FlowRestart
    \/ /\ \/ Human
          \/ List
          \/ Tick
          \/ \E f \in late : SignerLate(f)
       /\ UNCHANGED call

\* Handlers run to their end, the broker's loop wakes up every interval and the
\* clock moves.  Nothing is assumed of the human or of the signer.
FlowFairness ==
    /\ \A c \in Pollers : /\ WF_flowVars(HandlerStep(c))
                          /\ WF_flowVars(Wake(c))
    /\ WF_flowVars(Tick /\ UNCHANGED call)

FlowSpec == FlowInit /\ [][FlowNext]_flowVars /\ FlowFairness

-----------------------------------------------------------------------------
\* A call that waits for a human returns, whatever the human, the signer and the
\* control plane do: pollApproval cannot wait past its deadline for an answer
\* that never comes, and "issuing" keeps it asking, not waiting.
EveryCallReturns ==
    \A c \in Pollers : call[c].pc \in {"waiting", "polling"} ~> call[c].pc = "done"

\* IssuedAtMostOnce (ControlPlane) holds with this broker: a forward whose answer
\* was lost is released in the registry, but the call that polled it has ended,
\* so nobody forwards it again.

\* What the call was told and what the registry did agree: a call returns a
\* certificate only for an approval that is used up, and one told that its
\* approval was denied, expired or used will find it so for good.
Usable(a) == a.status \in {"pending", "approved"} /\ ~a.consumed /\ ~Lapsed(a)

ToldTheTruth ==
    \A c \in Pollers :
        /\ call[c].out = "granted" => \E g \in granted : g.id = call[c].id
        /\ call[c].out \in {"granted", "denied", "expired", "unknown", "gone"} =>
              ~Usable(items[call[c].id])
=============================================================================
