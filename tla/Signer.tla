------------------------------- MODULE Signer -------------------------------
(***************************************************************************)
(* The signing service (cmd/signer): POST /v1/sign on a snapshot of the    *)
(* running configuration, the store of runtime grants and waivers          *)
(* (internal/signer/grants.go) with its admin API, approve-and-learn, and  *)
(* hot reloads.  Handlers run concurrently; the configuration's RWMutex    *)
(* and the store's mutex make each access one step.  Requests that are     *)
(* refused before the snapshot is taken change nothing and are left out.   *)
(***************************************************************************)
EXTENDS HostPolicy

CONSTANTS
    Configs,      \* what may be in signer.json
    Requests,     \* the sign requests clients send
    Grantables,   \* the grants administrators ask for
    Signs,        \* goroutines that serve POST /v1/sign
    Admins,       \* goroutines that serve POST /v1/policy/grants
    learnTTL, maxGrantTTL,
    MaxTime, MaxGrants   \* bounds on the clock and on the grants ever stored

\* What may arrive: a request carries the authenticated name of its sender; an
\* administrator's grant has patterns to allow and waives no approval.
ASSUME SignerAssumption ==
    /\ Requests \subseteq [cn: CNs, onBehalfOf: CNs \cup {Nil}, approved: BOOLEAN,
                           learn: BOOLEAN, intent: Intents]
    /\ Grantables \subseteq [id: {0}, host: Hosts, allow: SUBSET Patterns, waive: {NoText},
                             caller: CNs \cup {Nil}, user: Users \cup {Nil}, sudo: {Nil},
                             expires: {0}]

VARIABLES
    config,     \* the running configuration
    grants,     \* GrantStore.grants
    nextId,     \* how many grant ids have been handed out
    sign,       \* the local state of each sign handler
    admin,      \* the local state of each grant handler
    now,
    cert,       \* history: the certificate of the last step, with what it was decided on
    approvals   \* history: what was signed on a human's approval

vars == <<config, grants, nextId, sign, admin, now, cert, approvals>>

\* One broker command for an end user, as far as a human approves it.
ScopeFor(in, user) == [host |-> in.host, caller |-> in.caller, user |-> user,
                       command |-> in.command, sudo |-> SudoUser(in)]

Scope(in) == ScopeFor(in, in.user)

Running == {c \in Configs : Compiles(c)}

\* waive is the one text that the waiver's quoted pattern matches; caller and user
\* are Nil in a grant for everybody.
Grants == [id: 1..MaxGrants, host: Hosts, allow: SUBSET (Patterns \ BadPatterns),
           waive: Texts, caller: CNs \cup {Nil}, user: Users \cup {Nil},
           sudo: SudoUsers \cup {Nil}, expires: Nat]

IdleSign == [pc |-> "idle"]
IdleAdmin == [pc |-> "idle"]
NoCert == [cert |-> Nil]

TypeOK ==
    /\ config \in Running
    /\ grants \subseteq Grants
    /\ \A g, h \in grants : g.id = h.id => g = h
    /\ nextId \in 0..MaxGrants
    /\ \A s \in Signs : /\ sign[s].pc \in {"idle", "snapshot", "decide", "learn", "add"}
                        /\ sign[s].pc # "idle" => /\ sign[s].in \in Intents
                                                  /\ sign[s].cfg \in Running
    /\ \A a \in Admins : admin[a].pc \in {"idle", "checked"}
    /\ now \in 0..MaxTime
    /\ cert # NoCert => cert.cert.ttl \in 1..certCap

Init ==
    /\ config \in Running
    /\ grants = {}
    /\ nextId = 0
    /\ sign = [s \in Signs |-> IdleSign]
    /\ admin = [a \in Admins |-> IdleAdmin]
    /\ now = 0
    /\ cert = NoCert
    /\ approvals = {}

-----------------------------------------------------------------------------
(* The store of grants.                                                    *)

active(g) == now < g.expires

ScopeMatches(g, in) ==
    /\ g.host = in.host
    /\ g.caller \in {Nil, in.caller}
    /\ g.user \in {Nil, in.user}

waiverApplies_AnyElevation(g, in) ==
    ScopeMatches(g, in) /\ g.waive # NoText /\ g.waive = in.command

\* A waiver is bound to the elevation that was approved.
waiverApplies(g, in) ==
    /\ ScopeMatches(g, in)
    /\ g.sudo = SudoUser(in)
    /\ g.waive # NoText
    /\ g.waive = in.command

GrantsFor(in) ==
    {g.allow : g \in {h \in grants : active(h) /\ ScopeMatches(h, in) /\ h.allow # {}}}

WaiverMatches(in) == \E g \in grants : active(g) /\ waiverApplies(g, in)

Add(g) ==
    /\ nextId < MaxGrants
    /\ nextId' = nextId + 1
    /\ grants' = grants \cup {[g EXCEPT !.id = nextId + 1]}

\* The waivers that a new one replaces.
Superseded(g) ==
    {h \in grants : h.allow = {} /\ [h EXCEPT !.id = 0, !.expires = 0] =
                                    [g EXCEPT !.id = 0, !.expires = 0]}

-----------------------------------------------------------------------------
(* handleSign.                                                             *)

\* on_behalf_of and approved count only from a trusted forwarder.
IsForwarder(req) == req.cn \in config.forwarders

resolveCaller(req) == IF req.onBehalfOf = Nil THEN req.cn ELSE req.onBehalfOf

EffectiveIntent(req) ==
    [req.intent EXCEPT !.caller = resolveCaller(req),
                       !.approved = req.approved /\ IsForwarder(req)]

handleSign(s, req) ==
    /\ sign[s].pc = "idle"
    /\ req.onBehalfOf = Nil \/ IsForwarder(req)
    /\ InHostSet(config, resolveCaller(req), req.intent.host)
    /\ sign' = [sign EXCEPT ![s] =
                  [pc |-> "snapshot", cfg |-> config, in |-> EffectiveIntent(req),
                   learn |-> req.learn /\ IsForwarder(req)]]
    /\ cert' = NoCert
    /\ UNCHANGED <<config, grants, nextId, admin, now, approvals>>

\* resolveCommandPolicy asks the store for the allow-grants, and later for a waiver.
Widen(s) ==
    /\ sign[s].pc = "snapshot"
    /\ sign' = [sign EXCEPT ![s] =
                  [pc |-> "decide", cfg |-> sign[s].cfg, in |-> sign[s].in,
                   learn |-> sign[s].learn, widenings |-> GrantsFor(sign[s].in)]]
    /\ cert' = NoCert
    /\ UNCHANGED <<config, grants, nextId, admin, now, approvals>>

Issue(s, verdict) ==
    LET r == sign[s]
        c == Certificate(r.cfg.hosts[r.in.host], r.in)
    IN /\ c.ttl <= certCap
       /\ cert' = [cert |-> c, cfg |-> r.cfg, in |-> r.in, widenings |-> r.widenings]
       /\ approvals' = IF verdict = "approval" THEN approvals \cup {Scope(r.in)}
                       ELSE approvals
       /\ sign' = [sign EXCEPT ![s] =
                     IF r.learn /\ verdict = "approval"
                     THEN [pc |-> "learn", cfg |-> r.cfg, in |-> r.in] ELSE IdleSign]

\* The approval gate: no certificate before a human agreed.
MustAsk(in, verdict) == verdict = "approval" /\ ~in.approved

\* Local.SignIntent.  No certificate for a dry run, a denial, a command that needs an
\* approval it does not have, or when the CA cannot sign.
SignIntent(s) ==
    LET r == sign[s]
        verdict == resolve(r.cfg, r.in, r.widenings, WaiverMatches(r.in))
    IN /\ r.pc = "decide"
       /\ \/ /\ ~r.in.dryRun /\ verdict # "deny" /\ ~MustAsk(r.in, verdict)
             /\ Issue(s, verdict)
          \/ /\ sign' = [sign EXCEPT ![s] = IdleSign]
             /\ cert' = NoCert
             /\ UNCHANGED approvals
       /\ UNCHANGED <<config, grants, nextId, admin, now>>

\* maybeLearnWaiver: the waiver for what was approved, for the TTL asked for or the
\* maximum; it first revokes its predecessors, then is stored.
WaiverTTL == IF maxGrantTTL > 0 THEN Smaller(learnTTL, maxGrantTTL) ELSE learnTTL

WaiverOf(in) ==
    [id |-> 0, host |-> in.host, allow |-> {}, waive |-> in.command, caller |-> in.caller,
     user |-> in.user, sudo |-> SudoUser(in), expires |-> now + WaiverTTL]

SupersedeWaiver(s) ==
    LET g == WaiverOf(sign[s].in) IN
    /\ sign[s].pc = "learn"
    /\ grants' = grants \ Superseded(g)
    /\ sign' = [sign EXCEPT ![s] = [pc |-> "add", cfg |-> sign[s].cfg, in |-> sign[s].in,
                                    waiver |-> g]]
    /\ cert' = NoCert
    /\ UNCHANGED <<config, nextId, admin, now, approvals>>

AddWaiver(s) ==
    /\ sign[s].pc = "add"
    /\ Add(sign[s].waiver)
    /\ sign' = [sign EXCEPT ![s] = IdleSign]
    /\ cert' = NoCert
    /\ UNCHANGED <<config, admin, now, approvals>>

-----------------------------------------------------------------------------
(* The admin API, reloads, the clock and a restart.                        *)

\* handleGrantCreate checks the host on a snapshot and adds the grant later.
GrantCheck(a, cn, g, ttl) ==
    /\ admin[a].pc = "idle"
    /\ cn \in config.reloadCallers
    /\ maxGrantTTL > 0 => ttl <= maxGrantTTL
    /\ g.host \in DOMAIN config.hosts
    /\ hasAllowlist(composePolicies(config.hosts[g.host], config))
    /\ admin' = [admin EXCEPT ![a] = [pc |-> "checked",
                   grant |-> g, ttl |-> ttl]]
    /\ cert' = NoCert
    /\ UNCHANGED <<config, grants, nextId, sign, now, approvals>>

GrantAdd(a) ==
    /\ admin[a].pc = "checked"
    /\ admin[a].grant.allow \cap BadPatterns = {}
    /\ Add([admin[a].grant EXCEPT !.expires = now + admin[a].ttl])
    /\ admin' = [admin EXCEPT ![a] = IdleAdmin]
    /\ cert' = NoCert
    /\ UNCHANGED <<config, sign, now, approvals>>

\* handleGrantRevoke.
Revoke(cn, g) ==
    /\ cn \in config.reloadCallers
    /\ grants' = grants \ {g}
    /\ cert' = NoCert
    /\ UNCHANGED <<config, nextId, sign, admin, now, approvals>>

\* The periodic sweep, and handleGrantList in passing.
Purge ==
    /\ grants' = {g \in grants : active(g)}
    /\ grants' # grants
    /\ cert' = NoCert
    /\ UNCHANGED <<config, nextId, sign, admin, now, approvals>>

\* A reload swaps in the file if it compiles; the grants stay.
reload(cfg) ==
    /\ Compiles(cfg)
    /\ config' = cfg
    /\ cert' = NoCert
    /\ UNCHANGED <<grants, nextId, sign, admin, now, approvals>>

Tick ==
    /\ now < MaxTime
    /\ now' = now + 1
    /\ cert' = NoCert
    /\ UNCHANGED <<config, grants, nextId, sign, admin, approvals>>

\* Grants and waivers live in memory only.
Restart ==
    /\ grants' = {}
    /\ sign' = [s \in Signs |-> IdleSign]
    /\ admin' = [a \in Admins |-> IdleAdmin]
    /\ config' \in Running
    /\ cert' = NoCert
    /\ UNCHANGED <<nextId, now, approvals>>

Next ==
    \/ \E s \in Signs, req \in Requests : handleSign(s, req)
    \/ \E s \in Signs : Widen(s) \/ SignIntent(s) \/ SupersedeWaiver(s) \/ AddWaiver(s)
    \/ \E a \in Admins, cn \in CNs, g \in Grantables, ttl \in 1..maxGrantTTL + 1 :
          GrantCheck(a, cn, g, ttl)
    \/ \E a \in Admins : GrantAdd(a)
    \/ \E cn \in CNs : \E g \in grants : Revoke(cn, g)
    \/ Purge
    \/ \E cfg \in Configs : reload(cfg)
    \/ Tick
    \/ Restart

Spec == Init /\ [][Next]_vars

-----------------------------------------------------------------------------
(* Properties.                                                             *)

\* The policies that bind the certificate, from the snapshot it was decided on.
CertPolicies == composePolicies(cert.cfg.hosts[cert.in.host], cert.cfg)
CertEnforced == /\ cert # NoCert
                /\ SetRestricts(CertPolicies)
                /\ Enforcement(CertPolicies) = "enforce"

\* The firewall cannot be evaded: on a host with enforced rules, every certificate
\* is bound to one command each part of which no denylist names, and every
\* allowlist host has listed or was granted, or else opens an exec session, whose
\* commands are checked one by one; none opens a tunnel.  Reloads between the
\* snapshot and the signature, live and revoked grants change nothing about that.
FirewallHolds ==
    CertEnforced =>
        LET text == cert.cert.forceCommand
            parts == IF \E p \in CertPolicies : p.shellParse
                     THEN extractCommands[text] ELSE {text}
            lists == {p.allow : p \in {q \in CertPolicies : q.mode = "allowlist"}}
        IN /\ ~cert.cert.portForwarding
           /\ IF text = NoText THEN cert.in.purpose = "session" /\ cert.in.mode = "exec"
              ELSE /\ text \notin Multiline
                   /\ parts # {}
                   /\ \A c \in parts :
                        /\ \A p \in CertPolicies : p.mode = "denylist" =>
                              \A pat \in p.deny : <<pat, c>> \notin matches
                        /\ lists # {} => \E pats \in lists \cup cert.widenings :
                              \E pat \in pats : <<pat, c>> \in matches

\* Approval is unavoidable: a certificate for a command that needs approval comes
\* from a forwarder that says a human agreed, or such a certificate was issued
\* before for the same host, caller, command and elevation, and a waiver was
\* learned from it.  That approval named the same end user or none at all: end_user
\* is optional, and a waiver learned without one covers every end user
\* (Grant.matches), although docs/API.md:375-376 says that "another broker/end-user
\* pair still requires its own approval".
ApprovalUnavoidable ==
    CertEnforced /\ cert.cert.forceCommand # NoText =>
        LET text == cert.cert.forceCommand
            parts == IF \E p \in CertPolicies : p.shellParse
                     THEN extractCommands[text] ELSE {text}
        IN (\E p \in CertPolicies, c \in parts : MatchString(p.requireApproval, c)) =>
              \/ cert.in.approved
              \/ \E user \in {cert.in.user, Nil} : ScopeFor(cert.in, user) \in approvals

\* Grants only ever widen: whatever the store holds, nothing is decided more strictly
\* than without it, also when the host stopped being an allowlist host after a grant
\* for it was checked or stored (a widening there would turn it into default-deny).
GrantsNeverNarrow ==
    \A req \in Requests :
        LET in == EffectiveIntent(req)
            without == resolve(config, in, {}, FALSE)
            with == resolve(config, in, GrantsFor(in), WaiverMatches(in))
        IN /\ without = "ok" => with = "ok"
           /\ without = "approval" => with \in {"approval", "ok"}
           /\ without = "warn" => with \in {"warn", "ok"}
=============================================================================
