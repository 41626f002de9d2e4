# Verification of ssh-broker

TLA+ models of ssh-broker, the TLC runs that check them on small instances, and
TLAPS proofs of what matters most for every value of the constants. The models
are written from the Go source under `src/`; `PROJECT.json` maps every
definition to the lines it stands for.

## 1. The system

An agent (over MCP or HTTP) asks a **broker** to run a command on a host. The
broker holds no long-lived SSH keys: for each connection it generates a key pair
and asks the **signer** for a short-lived certificate that is bound, where a
command policy applies, to that one command. Between the two may stand a
**control plane**, which asks a human when a command needs approval. Every
component writes a hash-chained **audit log**.

    agent --> broker (engine, sessions, shells) --sign--> control plane --sign--> signer
                 |                                            ^
                 +--ssh--> hosts                    approver -+  (decides)

### Inventory

| Part | Source | State | Operations | Correct when |
|---|---|---|---|---|
| Control plane: approvals | `internal/control/approval.go`, `cmd/control-plane/main.go` | `Registry.items`: status, decision, `issuing`, `consumed` | requireApproval, poll (Get, BeginConsume, forward, FinishConsume), decide, list, purge | an approval pays out once, inside its window, to the requester, on another person's word; no claim gets stuck |
| Broker: waiting for approval | `internal/signer/remote.go` | one polling loop per call | SignIntent, pollApproval | every call returns, and what it reports is true |
| Broker: session manager | `internal/broker/session.go` | session map, busy counters, limits | OpenSession, SessionExec, CloseSession, reaper, closeAll | commands are counted, the reaper spares them, only owners act, limits hold, no connection is forgotten |
| Persistent shell | `internal/ssh/shell.go` | mutex, `broken`, `done`, two reader goroutines, captured stderr | OpenShell, Exec, Close | a result is its own command's; a session out of step is not reused; nothing hangs or leaks |
| Audit log | `internal/audit/log.go`, `cmd/broker-ctl` (verify) | files, chain head, `needsNewline`, handle | Open, Append (rotate, write, sync), verify | the chain verifies, acknowledged entries stay, the log recovers |
| Signer: command policy | `internal/signer/cmdpolicy.go`, `policyset.go` | none (pure) | Decide over a set of policies | no part of a command escapes a list |
| Signer: host policy and intents | `internal/signer/signer.go`, `cmd/signer/main.go` | compiled policies | resolve, SignIntent | gates are applied in order, the certificate carries what was decided |
| Signer: grants and waivers | `internal/signer/grants.go`, `cmd/signer/grants.go` | `GrantStore` | add, revoke, purge, list, learn | grants only widen; a waiver covers what was approved |
| Signer: running configuration | `cmd/signer/main.go`, `policy.go` | the policy in force, the file, the modification time last seen | reload, watchConfig, mutateAllow | the last good configuration stays; an edit is not lost; the policy in force follows the file |
| Operator's client | `cmd/broker-ctl` | none of its own; edits `signer.json` in another process | host, ca-keys and callers commands, policy, reload, audit verify | what it leaves behind never takes the signer down |
| Signer: rate limiter | `internal/signer/ratelimit.go` | token buckets | Allow, prune, evictOldest | the rate holds per caller; memory is bounded |
| Control plane: guardrails | `internal/control/behavior.go`, `cmd/control-plane/main.go` | baselines, windows | Check, Learn, and handleSign, learnBehaviorApproval around them | what nobody approved stays anomalous, the rate holds, baselines are bounded |
| Broker: engine, host cache, one-shot execution | `internal/broker/engine.go`, `internal/ssh/run.go` | the cached host list, connections under construction | refresh, resolveChain, buildHops, connectivity signature, Dial, Close | connections are built from current data, a session's route is the one it was opened on, every client is closed, a call waits without end for nothing but a silent host |
| File transfer, recording, redaction, CA keys, authentication, notifications, UI, MCP/HTTP front ends, monitoring | several | little or none | | see section 8 |

Components interact by HTTP requests with timeouts (broker, control plane and
signer: an answer may be lost after the request was executed), by goroutines
that share maps under a mutex (registry, sessions, grants), by channels (shell
readers), and through files (the audit log, the signer's configuration).

What is hard: polls that race for one approval; the answer of the signer lost
after it issued; expiry and purge between two critical sections of one handler;
the reaper against a command; opens that dial before they ask for a place; a
shell whose timed-out command still prints; crashes inside an append or a
rotation; a configuration reloaded between the snapshot and the decision; a host
list replaced between two look-ups of one connection; four writers of one
configuration file that share a temporary name and no lock; a baseline that is
taught long after it was asked. The full list, line by line and with the property that would catch each, is under
`hazards` in `PROJECT.json`.

## 2. Modules

| Module | Models | Builds on |
|---|---|---|
| `ApprovalSpec` | what the approval gate promises: a request is asked for once, decided once by somebody else, paid out once, and never comes back | |
| `ControlPlane` | the registry and its handlers, one step per critical section | implements `ApprovalSpec` |
| `ApprovalFlow` | the broker's polling loop | composes with `ControlPlane` (EXTENDS) |
| `SessionManager` | the broker's session map, its users, reaper, shutdown | |
| `ShellSession` | one persistent shell: Exec, Close, readers, the remote shell | |
| `AuditLog` | the log, its faults and crashes, and the verifier | |
| `CommandPolicy` | the decision of a set of command policies, as operators | |
| `HostPolicy` | resolve, compiling, host sets and certificates, as operators | `CommandPolicy` |
| `Signer` | sign handlers, grant store, admin API, learning, reloads | `HostPolicy` |
| `MCSigner` | the instance of `Signer` that TLC checks | `Signer` |
| `BrokerEngine` | the host cache and the calls that refresh it and connect from it | |
| `MCBrokerEngine` | the instance of `BrokerEngine` that TLC checks | `BrokerEngine` |
| `ConfigFile` | the contents of `signer.json` and the edits made to it, as operators | |
| `SignerConfig` | the file, the policy in force, and everybody who writes the one or loads the other | `ConfigFile` |
| `MCSignerConfig` | the instance of `SignerConfig` that TLC checks | `SignerConfig` |
| `RateLimiter` | the signer's token buckets | |
| `Guardrails` | behaviour guardrails, approval, learning, and the signer's rate limit behind them | `RateLimiter` |
| `MCGuardrails` | the instance of `Guardrails` that TLC checks | `Guardrails` |
| `ControlPlane_proofs` | theorems about the registry, its refinement of `ApprovalSpec`, and its composition with the broker's calls | `ApprovalFlow` |
| `Guardrails_proofs` | theorems about the guardrails and the rate limiter | `Guardrails` |
| `SessionManager_proofs`, `ShellSession_proofs`, `AuditLog_proofs`, `Signer_proofs`, `BrokerEngine_proofs`, `SignerConfig_proofs` | theorems | the module they name |

Names follow the source where TLA+ allows it (`BeginConsume`, `expireLocked`,
`checkoutOwned`, `restoreChain`, `resolve`...). A definition with an underscore
suffix (`BeginConsume_NoExpiry`) is a *mutant*: the definition after it, with a
plausible bug. No specification uses them; `PROJECT.json` names for each the
property that notices it.

### How the models correspond to the code

*ControlPlane.* `items` is `Registry.items` with one record per id; an id that
is not in the map has status `absent`. Each method of the registry holds its
mutex from start to end and is one step; a handler is a `poll` or `decide`
record that remembers where it is and what it copied. `handleResult` is
`PollGet` (Get, ownership), `PollClaim` (BeginConsume), `PollForward` (Request
and the RPC), the outcomes of the RPC, `PollGrant` (the 200) and `PollFinish`
(the deferred FinishConsume). The signer may execute a forward after the
control plane gave up on it (`late`). A restart empties the registry.
`handleSign` is one step, `requireApproval`: its other outcomes leave the
registry alone. `sentRPCs`, `issued`, `granted`, `requester` and `approver` are
history.

*ApprovalFlow.* A call is answered 202, polls every interval through the
handler of the same name, and ends as `pollApproval` does. The answer reaches it
in the same step in which the handler ends; the call may hang up at any time.

*SessionManager.* `sessions` is the map, `live` the objects. OpenSession is
`Dial` (everything up to the connection), `add` under the lock, and `Record`,
which attaches the recorder after the session is in the map. SessionExec is
`Checkout`, `Authorized` (the preflight) and the deferred `Checkin`. Removal and
closing are two steps, as in the code, except in closeAll, which closes under
the lock.

*ShellSession.* A line is the number of the command that printed it and a kind:
text, a line over the limit, the marker, a marker glued to unfinished output,
the end of the stream. Output is limited to `maxOutput` lines. Exec's select is
`Receive`, `Deadline` and `Cancel`; the reader goroutine is a line it holds
until somebody takes it or `done` is closed. Its stream ends with the shell, or
with our side of the channel. What sshd does with a shell whose channel was
closed is left open (`HangUp` may happen, the shell may also run on).

*AuditLog.* A file is its physical lines and whether it ends with a newline;
bytes are abstracted to entries and junk, and a line may be long: over the 256
KiB that the scanners of restoreChain and of the verifier accept (`Scans`). doAppend is `maybeRotate`, `Write` and
`Sync` and their failures; a crash may strike between any two of them and keeps
any prefix of the unsynced lines, so that it may also leave an empty file behind
a rotated one. Open succeeds only on a file that scans and parses.
`verifyAuditSegments` are the segments that `broker-ctl audit verify --all`
reports. `anew` is history: the segments in which Open found an empty file.

*CommandPolicy, HostPolicy, Signer.* Regular expressions and the shell parser
are constants: an arbitrary relation `matches` and an arbitrary function
`extractCommands`. The sign handler takes its snapshot (`handleSign`), reads the
grants (`Widen`), reads the waivers and decides (`SignIntent`), and learns in
two critical sections (`SupersedeWaiver`, `AddWaiver`). `cert` holds the
certificate of the last step together with the snapshot it was decided on.

*BrokerEngine.* `lists` is everything the signer has served, `cache` is
`Engine.hosts` as an index into it. A call is a goroutine in Execute,
OpenSession, SessionExec or one round of the periodic refresh. Fetching a list
and storing it are two steps (`Fetch`, `Store`), and so is every look-up that
takes the read lock: each round of `resolveChain`, each hop of `buildHops` and
of `connectivitySignature`. A hop remembers the list it was read from. `Dial` is
one `DialHop` (the TCP connection, or the channel through the hop before) and one
`Handshake` per hop, and `SetUp` opens the session on the target, each of which
may fail (`Finish`) or, for the last two, never end; `up` are the clients that are really open, `conn` those
that the connection object knows and will close. Execute and OpenSession build
their connection in the same way and are one kind of call; `Register` hands the
connection over to a session. `since` and `inflight` are history. Sessions are
only what the engine compares: the route and the connection; their owners and
limits are in SessionManager.

*ConfigFile, SignerConfig.* A configuration is its tables of hosts (bastion,
jump, mode and allow rules), CA keys and callers, who may reload, and the sign
rate. The file system is `file`, `tmp` (the one temporary name that both
programs use) and, for each writer, where the file it has open is now: opening
truncates, a rename takes open files along, and writing over another's text may
leave a mixture (`Torn`). mutateAllow holds `writeMu` from `mutateAllowRead` to
`mutateAllowSwap`; reload is `reloadRead` and `reloadSwap` and takes no such
lock. `changed` stands for the comparison of modification times. broker-ctl is
a process of its own that reads, edits without validating, and writes; an
editor saves in place. `behind` and `want` are history: why the policy in force
may differ from the file for good, and what the edits made so far add up to.

*RateLimiter.* A token is `Minute` units of credit, so that the refill of
perMin/60 tokens per second is whole. Allow is one step (it holds the mutex);
which of several equally old buckets is evicted is left open, as in Go's map
order. `window` is history: the requests let through for one key since a moment
that `Observe` picks.

*Guardrails.* A request is a slot that goes from handleSign (with Check, under
the tracker's mutex, in the same step) through `screen` or `forward` to the
signer, where it meets the rate limiter under the one name of the control
plane, then perhaps through an approval. `handleResult` and
`learnBehaviorApproval` are two steps, since others may call Check in between.
The window of timestamps is a set: their order does not matter, and each carries
the number of its request so that equal times still count separately.
The approvals' own protocol is in ControlPlane; here an approval is decided or
lapses. What the signer decides is a free choice. `past` and `vouched` are
history: a record's first request and when its requests passed, and what was
approved and answered.

## 3. Runs

| Run | Shows | Bounds |
|---|---|---|
| `control_plane` | `GrantedAtMostOnce`, `FourEyes`, `IssuedOnlyIfApproved`, `ClaimsAreFresh`, `ClaimsEnd`, and `ImplementsApprovalSpec` under racing polls, decisions, expiry, purge, lost answers and restarts | one id; a broker, an approver and a client that is both; two pollers, one decider; window 1 tick, clock 3, so that an approval expires (after 1) and is purged (after 2); two forwards |
| `approval_flow` | `EveryCallReturns`, `ToldTheTruth`, and `IssuedAtMostOnce` with this broker | one call slot that may be used again, two deciders, window 2, waits 0, 1 and 3: none, shorter and longer than the window |
| `sessions` | `BusyCountsCommands`, `OnlyTheOwnerCutsOff`, `LimitsHold`, `EveryConnectionHasAnOwner`, `AbandonedSessionsEnd` | two sessions, two callers, two openers, two commands; idle limit 1, lifetime 2, clock 3 |
| `shell_session` | `OutputIsOwn`, `IdleMeansInStep`, `StderrNotLostSilently`, `NothingRunsAfterFailure`, `EveryExecReturns`, `ReaderIsReleased` | the opening no-op and two commands of two callers; up to two lines each with a limit of one, so that output is below, at and above it; with and without a pty |
| `audit_log` | `ChainVerifies`, `AcknowledgedSurvives`, `AppendHeals` | six appends, each of a record that scans or one that is too long, in files of two lines (two rotations), four faults, crashes right after a rotation included |
| `audit_short` | **violation**, finding 1 | four appends, one fault |
| `signer` | `FirewallHolds`, `ApprovalUnavoidable`, `GrantsNeverNarrow` | six configurations (two do not compile), fourteen requests, one of them an approval to be learned that names no end user, one sign and one grant handler, two grants, clock 1 |
| `broker_engine` | `RoutesAreRecent`, `SessionRouteIsRecent`, `NoClientLeaks`, `OnlyAHostHoldsACall`, and in `TypeOK` that no chain visits a host twice | two calls, one session, two lists served out of three: the target behind a bastion, the target moved and alone, and bastion and target swapped, so that a chain read across two lists has a cycle |
| `broker_engine_stale` | **violation**, finding 2 | the same |
| `signer_config` | `LastGoodKept`, `EditsCompose`, `BehindForAReason`, `Converges` | two policy requests, one broker-ctl process, an editor, one requested reload and the watcher; two changes, one crash; edits that add up, one that does not compile, a dangling jump, a lost key |
| `signer_config_race` | **violation**, finding 3 | one request at a time to the policy API, one requested reload, no other writer, no auto reload |
| `guardrails` | `KnownIsVouchedFor`, `RatePerMinuteHolds`, `TablesBounded` | three requests out of six kinds, two at a time, two subjects with room for one, three hosts and two programs with room for two, limit 2 a minute, one bucket for two clients, the signer's limit off or 1, clock 2, one restart in any mode |

What the bounds leave out. With one id the control plane's requests cannot
interfere with each other; the proofs cover any number. In `sessions` the
limit per caller always bites before or with the global one. In `signer` one
request is decided at a time, against reloads and changes of the store; the
proofs cover any number of handlers. In every module the clock stops at
`MaxTime`; calls and sessions start only if their deadline lies before it. In
`broker_engine` the chains have at most two hops and one list replaces another
once; the proofs cover any number of lists, calls and hops. In `signer_config`
two changes meet, so no third writer spoils what two others left; the proofs
cover any number of writers, changes and crashes. In `guardrails` every table is
at its limit with the second subject, host or client, and with three requests
the third exceeds a rate of two; a minute is one tick, so the window does not
slide there over several ticks, which only the theorem `RateIsKept` covers; the
proofs cover any sizes. The limiter has no run of its own: `guardrails` exercises
its table and the theorem `LimiterHoldsTheRate` covers its arithmetic (with
three keys in a table of two, limits 0 to 2 and a clock of 5 TLC finds 68 181
states and no violation of `RateHolds` under `LimiterSpec`).

Each module has a type invariant `TypeOK`. It is among a run's invariants where
it says more than types (`broker_engine`) or is proved (`control_plane`,
`signer_config`); the other runs leave it out, and it holds on their instances.

### Fairness

- *ControlPlane*: a poll that was started goes on: goroutines are scheduled,
  the registry's lock is held briefly, the RPC has a timeout. Nothing is
  assumed of humans, brokers or the signer.
- *ApprovalFlow*: in addition the broker's ticker fires and the clock moves.
- *SessionManager*: removed sessions are closed, the reaper's ticker fires, the
  clock moves. Callers need not come back, and an open or a command may hang.
- *ShellSession*: goroutines run, the mutex is handed on, Exec's timer fires,
  OpenShell closes what it could not synchronise, and the reader's stream ends
  once the session is closed, since whoever closes it closes the connection too
  (`liveSession.close`, `internal/broker/session.go:80-83`). The shell need not
  print or finish anything, and sshd need not end it. Writing a command is taken
  not to block: `io.WriteString` (`internal/ssh/shell.go:358`) comes before the
  timer and is bounded only by the channel's window.
- *BrokerEngine*: goroutines run, and three waits have a deadline: the signer's
  HTTP client 10 s, the connection to a hop 10 s, a command 10 min (`TimesOut`).
  Nothing else is assumed: the signer and the hosts need not answer (`Fetch`,
  `DialHop`, `Handshake` and `SetUp` are not fair), the handshake and the set-up
  of a session may hang, since no deadline covers them, and callers need not
  call.
- *SignerConfig*: an edit, a broker-ctl command, a save and a reload that have
  begun go on, and the watcher's ticker fires. Nobody has to edit, ask for a
  reload, or start the signer again.
- *AuditLog*, *Signer*, *Guardrails*: none; they have no liveness property.

Deadlock is not checked where the system may stop: when all sessions of the
instance are used up, when the log has made its last append, when the shell is
closed, when the signer's clock and grants are used up, in the broker's engine when
nobody calls any more, when nobody changes the configuration any more, and when
the guardrails' requests are used up.

## 4. Findings

1. **A short write breaks the next entry** (`audit_short`,
   `internal/audit/log.go:333`). The fragment stays in the file, the next
   record is appended to it, acknowledged, and does not parse.
2. **An overtaken refresh brings an old host list back**
   (`broker_engine_stale`, `internal/broker/engine.go:515`). A refresh stores
   its answer whatever is in the cache by then, so a call that refreshed after a
   change may still build its connection from the list before it;
   docs/ARCHITECTURE.md says new connections do not silently use stale data.
   `RoutesAreRecent`, proved, says how old the data can be: as old as an answer
   that some other call was still holding when this one began.
3. **A reload undoes an edit** (`signer_config_race`,
   `cmd/signer/policy.go:116`). reload reads the file without `writeMu`; an edit
   that is written and put in force before the reload swaps is replaced by the
   state from before it, while the file has the edit. The comment on
   handlePolicyAllow says disk and the running policy stay consistent. With auto
   reload the watcher usually sets it right; `BehindForAReason`, proved, lists
   when it does not.

Remarks on what the models have and no run of the project singles out:

- *One approval, two certificates at the signer* (`internal/control/approval.go:207`).
  A forward whose answer is lost releases the approval although the signer
  issued; the next poll forwards it again, so `IssuedAtMostOnce` does not hold of
  `ControlPlane` alone. No *broker* is handed two (`GrantedAtMostOnce`, proved),
  and the broker of this repository does not poll again after a failure
  (`internal/signer/remote.go:285`), so with it the signer issues once as well
  (`approval_flow`). FinishConsume releases a failed approval "so the broker can
  retry": making the broker do so is the mutant `AfterAnswer_Retries`, which
  issues twice.
- *A crash just after a rotation restarts the chain* (`internal/audit/log.go:159`).
  The restarted log sees an empty active file and begins at genesis;
  `verify --all` reports a dropped segment. `ChainVerifies` names these segments
  (`anew`): they are reported, and nothing else is on account of a crash.
- *A record over 256 KiB is acknowledged and cannot be read back*
  (`internal/audit/log.go:148`, `156-158` against `326-333`). Append has no limit;
  restoreChain's scanner stops at the long line, so the next Open fails, and
  `audit verify` reports the file (`cmd/broker-ctl/main.go:1771`, `1817-1820`) and
  cannot check the link of the one behind it. `ChainVerifies` names these
  segments too; the entry itself stays in the file (`AcknowledgedSurvives`).
- *A waiver learned without an end user covers every end user*
  (`internal/signer/grants.go:66`). The control plane clears the end user of
  brokers it does not trust; docs/API.md:375-376 says another broker/end-user pair
  still needs its own approval. `ApprovalUnavoidable` therefore says that the
  earlier approval named the same end user *or none*; the run has such approvals,
  and without "or none" TLC finds the property violated.
- *Handshakes have no deadline* (`internal/ssh/run.go:156`, `180`). The comment at
  170-172 says that `ClientConfig.Timeout` covers the SSH handshake; in
  `golang.org/x/crypto/ssh` it bounds the TCP dial of `ssh.Dial`, which this code
  does not call. A host that accepts the connection and stays silent, in the
  handshake or when a session or a terminal is requested (255, 274), holds the
  call; `OnlyAHostHoldsACall` says that nothing else does.
- *A cancelled command may run on* (`internal/ssh/shell.go:384-388`). The comment
  says the channel is torn down "so the command actually stops running on the
  host"; sshd hangs up a terminal, but a command in a shell without one gets no
  signal when its channel closes. No property claims that it ends.
- *Three ways to fall behind the file.* Besides finding 3: watchConfig remembers
  the modification time before it reloads, so that a reload that failed because a
  CA key could not be fetched is not tried again (`cmd/signer/main.go:273`), and
  it takes its first modification time after the file was loaded
  (`cmd/signer/main.go:265`). mutateAllow replaces everything but the sign rate,
  which stays at what the last reload loaded.
- *Two programs, one temporary name.* broker-ctl and the signer both write
  `signer.json.tmp` and rename it. A half-written file can take the place of
  `signer.json`; the signer keeps what it has (`LastGoodKept`, proved), but does
  not start again from it.
- *Evicting a bucket is not always harmless* (`internal/signer/ratelimit.go:105`).
  The comment says the oldest bucket's tokens are closest to a full refill; the
  oldest by last use may have been emptied by that use, and its key starts again with a
  full one. `RateHolds` therefore stops counting a key that is evicted.
- *One bucket for all brokers.* Behind a control plane all brokers are one client
  of the signer, and share its rate (`cmd/signer/main.go:434`); a dry run and the
  screening of an anomaly count too.

## 5. Proofs

TLAPS proves the following for *every* value of the constants: any sets of ids,
clients, handlers, hosts, configurations, requests and grants, any `matches`
and `extractCommands`, any window and any clock bound, any host lists. Assumed
are only the named assumptions of the modules: names and "nobody" differ,
approvers and sign callers are clients, durations are natural numbers, a host
list describes hosts, calls and sessions are different things, what is put into
`signer.json` on purpose is a configuration, limits and table sizes are natural
numbers, the sizes not zero, a sign request is what the handler decodes, and an
administrator's grant waives no approval. Two theorems have a hypothesis of
their own, that no write is cut short; it is needed, since TLC violates
`AcknowledgedSurvives` without it (finding 1).

| Theorem | Says |
|---|---|
| `ControlPlane_proofs!TypeCorrect` | `Spec => []TypeOK` |
| `ControlPlane_proofs!PaysOutOnce` | `Spec => []GrantedAtMostOnce` |
| `ControlPlane_proofs!FourEyesHold` | `Spec => []FourEyes` |
| `ControlPlane_proofs!OnlyApprovedIsIssued` | `Spec => []IssuedOnlyIfApproved` |
| `ControlPlane_proofs!ClaimsFresh` | `Spec => ClaimsAreFresh` |
| `ControlPlane_proofs!Refinement` | `Spec => ImplementsApprovalSpec` |
| `ControlPlane_proofs!OneCertificatePerApproval` | `FlowSpec => []IssuedAtMostOnce` |
| `ControlPlane_proofs!CallsAreToldTheTruth` | `FlowSpec => []ToldTheTruth` |
| `SessionManager_proofs!BusyIsExact` | `Spec => []BusyCountsCommands` |
| `SessionManager_proofs!CommandsAreTheOwners` | `Spec => []OnlyTheOwnerCutsOff` |
| `SessionManager_proofs!SessionLimits` | `Spec => [](TypeOK /\ LimitsHold)` |
| `SessionManager_proofs!NoConnectionForgotten` | `Spec => []EveryConnectionHasAnOwner` |
| `ShellSession_proofs!ResultsAreOwn` | `Spec => []OutputIsOwn` |
| `ShellSession_proofs!StderrIsAccountedFor` | `Spec => []StderrNotLostSilently` |
| `ShellSession_proofs!ReadyMeansInStep` | `Spec => []IdleMeansInStep` |
| `ShellSession_proofs!NothingAfterFailure` | `Spec => NothingRunsAfterFailure` |
| `AuditLog_proofs!AppendsHeal` | `Spec => AppendHeals` |
| `AuditLog_proofs!AcknowledgedForGood` | `Spec => []AcknowledgedSurvives`, if no write is cut short (`"short" \notin Faults`) |
| `AuditLog_proofs!ChainAlwaysVerifies` | `Spec => []ChainVerifies`, if no write is cut short (`"short" \notin Faults`) |
| `Signer_proofs!GrantsOnlyRelax` | `Spec => []GrantsNeverNarrow` |
| `Signer_proofs!FirewallIsNotEvaded` | `Spec => []FirewallHolds` |
| `Signer_proofs!NoApprovalNoCertificate` | `Spec => []ApprovalUnavoidable` |
| `BrokerEngine_proofs!TypeCorrect` | `Spec => []TypeOK` |
| `BrokerEngine_proofs!RoutesRecent` | `Spec => []RoutesAreRecent` |
| `BrokerEngine_proofs!SessionRouteRecent` | `Spec => []SessionRouteIsRecent` |
| `BrokerEngine_proofs!NoLeaks` | `Spec => []NoClientLeaks` |
| `SignerConfig_proofs!SignerConfigTypeOK` | `Spec => []TypeOK` |
| `SignerConfig_proofs!RunningPolicyIsValid` | `Spec => []LastGoodKept` |
| `SignerConfig_proofs!PolicyEditsCompose` | `Spec => []EditsCompose` |
| `SignerConfig_proofs!SignerKeepsUp` | `Spec => []BehindForAReason` |
| `Guardrails_proofs!LimiterHoldsTheRate` | `LimiterSpec => []RateHolds` |
| `Guardrails_proofs!OnlyVouchedIsKnown` | `Spec => []KnownIsVouchedFor` |
| `Guardrails_proofs!TablesStayBounded` | `Spec => []TablesBounded` |
| `Guardrails_proofs!RateIsKept` | `Spec => []RatePerMinuteHolds` |

*The control plane.* "Pays out once" is not inductive: the entry that carries
`consumed` may be purged while a poll still holds its claim, and the handlers
act on copies. The inductive invariant `IInv` ties the three places that know
about an approval to each other: `ItemsInv` (an approved entry was decided by an
approver other than its requester), `PollInv` (a running poll serves such a
request, and its copy stays true), `ClaimInv` (a claim is exclusive, and its
entry, if there is one, is approved, issuing and unconsumed), `DecideInv` (a
decision past the self-approval check is still somebody else's) and `GrantInv`
(what was granted is gone from the registry, or consumed, or still held by the
very poll that granted it). A purged id is not filed again (`used`), which is
what makes the purge harmless. `InvStep` proves that each action preserves each
part. The refinement maps a request to its phase: a claim counts as approved
until its poll ends, so that a purge under a claim is no step of the abstraction
and the loss of the claim is a lapse; `StepSimulation` has one case per action.

*The broker's calls.* `IssuedAtMostOnce` does not follow from the registry, which
releases an approval whose forward failed. `FlowIInv` adds the calls: each has an
identifier and a handler of its own (`CallInv`); for an identifier there is at
most one forward that the signer has executed or may yet execute, and none while
its call may still forward (`SignerInv`). That is kept because an answer to a
forward always ends the call. For `ToldTheTruth`, an approval that has become
unusable stays so (`UnusableStays`), purged or not, and the handler that burns
one has granted it (`BurnInv`). `FlowSimulation` shows that a step of the
composition is a step of the registry or leaves it alone, so that `IInv` and its
theorems carry over.

*The session manager.* The four properties and `TypeOK` are proved together: the
reaper spares a command because the counter is right, and the counter of a
session stays right when its owner removes it under a running command, because
the command keeps the object. `DialedInv` says that
a connection that was dialled and not yet added belongs to one open alone, and
`MapInv` that what is in the map is open and removed by nobody. The limits hold
since `add` counts again under the lock.

*The shell.* `OutputIsOwn` rests on where a command can be. Unless the session
is broken, `FlowInv` puts the one command past the lock in one of four phases:
written but not started, running, ended with its marker in the pipe, or with the
marker in the reader's hand; in each it is known exactly which of its lines are
in the pipe, with the reader, and already collected, and that they add up to what
the command printed. With nobody past the lock, everything is empty (`InStep`) or
the shell has gone. A command that fails in any way breaks the session before it
lets go of the lock; this is the step a forgotten `broken` would spoil. For
`NothingRunsAfterFailure` `LockInv` says that whoever is past the lock has a
session that works, and that a closed one has no open channel.
`LockInv`, `FreshInv` (commands not yet written have printed nothing) and
`ErrInv` (stderr is captured, in flight or known to be cut) complete it.

*The audit log.* Three invariants, each for the faults it can bear. `BookInv`
holds whatever happens, and `AppendsHeal` needs only that. `KeptInv`: the
process knows of a missing newline, so no line is run into, and an acknowledged
entry is in a rotated file or in the synced part of the active one, which no
crash takes. A short write breaks this, for it leaves a fragment the process
does not know of. `ChainInv`: each file is a chain that starts where it should
(`Seed`: at the last hash of the file before, or from zero in the segments `anew`
that Open found empty), and the process knows where the chain ends; a restart
reads that from the active file. What the verifier reports beyond this is what
its scanner cannot read: a file with a long record, and the link of the next one.

*The signer.* Grants enter the decision as further allowlists. The lemmas show
that they leave denylists, approval rules, the enforcement and the parsing of a
set as they are (`WidenedKind`, `WidenedEnforcement`, `WidenedRules`), and
nothing at all happens to a set without allowlist; so a widened decision is
never stricter (`GrantsWiden`, `CommandPolicyRelaxed`). `FirewallIsNotEvaded` needs no invariant over
the store: the certificate of a step is decided in that very step, on the
handler's snapshot and widenings, and `NotDenied` says what it means that
resolve did not deny. A reload in between cannot matter because the handler
reads only its own snapshot. `NoApprovalNoCertificate` does need one: `WaiverInv`
follows a waiver from the approved signature through the two critical sections of
learning into the store (`FromApproval`: a grant that waives something is for one
caller, and what it waives was approved for the end user that it names, or for
none if it names none); an administrator's grant waives nothing. `GatedMeans` shows that without an approval only a waiver
gets a gated command past SignIntent, and `WaiverMeans` that it is one for the
same scope.

*The engine.* `RouteInv` says more than the property: not only the hops that
were read but whatever is in the cache, and every answer that still waits to be
stored, is recent for every running call, so that a late store cannot bring in
anything older. `PathInv` adds
that a session's signature is that of the hops it really goes through and that
lists, once served, do not change, so that two equal signatures (`SameSignature`)
show the route in lists that are recent for this command; from then on it stays
true because the call's `since` does not move. `ConnInv` is the equality of the
open clients and those the connection knows. `TypeCorrect` needs that a list
that waits to be stored was served.

*The configuration.* `MutexInv` (one edit at a time) and `WantInv` carry
`EditsCompose`: while only the API writes, the edit under way was made from what
the file still holds, and the temporary file is its own, so the rename puts in
exactly that edit. `BuiltInv` says that everything about to be put in force
passed buildState; the API's state does because it differs from what was built
in the sign rate only, which buildState does not look at. `WatchInv` is what
makes the watcher catch up: what it has built is the file, or the modification
time has changed again since. Remembering the time before the reload is needed
for that; the mutant `reloadSwap_RemembersLate` breaks it.

*The rate limiter.* `RateHolds` counts requests from an arbitrary moment. The
invariant `WindowInv` adds what is left in the bucket to what was let through and
bounds the sum by the budget up to the bucket's last use; a key without a bucket
may be given a full one, so for it the count must already be covered without the
burst. That holds when prune drops a bucket because it has been idle for more
than a minute: this is where the length of that minute matters.

*The guardrails.* `KnownIsVouchedFor` needs `AnsweredInv`: what is about to be
learned was approved and answered, although the baseline may have been evicted
and begun anew since it was checked. In Check, what is learned is nothing new
(`~Novel`), or the record's first request. `TablesInv` adds to the bounds that the
tables are finite; `RemainingWithin` and `AllowWithin` show that evictLocked, and
prune with evictOldest, leave room for one more. `RateInv` carries
`RatePerMinuteHolds`: what passed within the minute is among the events that
Check counts, so that a request that passes is counted together with all of them.

### Only model-checked

Liveness (`ClaimsEnd`, `Converges`, `EveryCallReturns`, `OnlyAHostHoldsACall`,
`AbandonedSessionsEnd`, `EveryExecReturns`, `ReaderIsReleased`): temporal
reasoning under fairness is beyond this version of the prover, as are ENABLED
and induction over data. Every safety invariant and every action property of the
passing runs is proved, under the hypotheses of the table.

## 6. Limits of the models

- The control plane's HTTP client may repeat an idempotent GET by itself when a
  connection breaks; the models have one request per poll.
- A crash of the audit log keeps whole lines and at most loses the newline of
  the last; a line torn in the middle makes Open fail (`Parses`) by design, and
  is not offered in `audit_log`. Rotated files are taken to be written back.
- The audit run `audit_log` leaves out short writes: that is where finding 1 is.
- ShellSession has no command that prints the marker of another command, no
  background job that prints after its command ended, and no recorder. Stderr
  that arrives after the marker is missing from its result and may appear in the
  next: the code does this, and `StderrNotLostSilently` says precisely that
  much.
- Whether a write of a command to the shell blocks is not modelled (see Fairness).
  SessionManager and ShellSession are not composed: that closeAll waits for a
  running Exec under the manager's mutex is bounded by `EveryExecReturns`, but no
  property relates the two locks.
- BrokerEngine has a remote signer; in local mode the host list never changes. A
  dry run ends at `Check`. Callers ask for one target. The bastions that
  SessionExec asks the signer about are resolved after the signatures were
  compared, and may be those of a list that was stored in between; the model
  has this, and the signer's answer is a free choice.
- A recorder that is attached after its session was closed stays open, and a
  session added after closeAll is not closed. Both are in the model; no property
  forbids them, since the process leaves soon after.
- SignerConfig: a policy request that is refused before the lock leaves no trace;
  the three steps of a write are whole (no short writes); an editor saves in
  place, and one that renames is like broker-ctl. Modification times are taken to
  differ between any two writes. One POST /v1/reload is in flight at a time; the
  code allows any number. buildState leaves out the refusal of a configuration
  without a default CA key (`internal/ca/loader.go:90`) and the cap of 900 s on
  certificates; no property depends on either.
- Guardrails: the approval's claims and polls are those of ControlPlane and not
  repeated, an approval has one poll at a time. Time stands still within a
  handler. A forward that is lost is a refusal. A subject is a pair of names; the
  code joins them with ":", so that two pairs could collide there. `RateHolds`
  does not count requests that pass while the limit is 0, which is "no limit".

## 7. Plan

1. Proofs: the type invariants of the audit log, the signer, the shell and the
   guardrails as theorems.
2. Compositions of the broker: the engine's audit entries (the user is filled in
   from the cache when the entry is written, `internal/broker/engine.go:976`) and
   the bastions that SessionExec asks about; sessions with `ShellSession`
   (closeAll waits for a shell while it holds the manager's lock); SetRecorder
   against the goroutine that drains stderr (`internal/ssh/shell.go:73`).
3. Two rotations of the audit log within one second, which share a file name.

## 8. Not modelled

File transfer builds one command text and calls Execute. Recording is an
append-only file behind a mutex (its life cycle is in SessionManager).
Redaction, policy recommendation and documentation tooling are text processing
without state. CA keys, certificates, tokens and passkeys are cryptography and
I/O by libraries; the models start from an authenticated name. Notifications and
the approver's page do not change the state of an approval. The MCP and HTTP
front ends, and the commands of broker-ctl that do not edit `signer.json`,
translate requests into the operations that are modelled.

## 9. Running

    tlc -workers 2 -config ControlPlane.cfg ControlPlane
    tlc -workers 2 -config Signer.cfg MCSigner
    tlc -workers 2 -config Guardrails.cfg MCGuardrails
    tlapm ControlPlane_proofs.tla

Each run's module and configuration are listed under `runs` in `PROJECT.json`.
