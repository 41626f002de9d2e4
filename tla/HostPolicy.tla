----------------------------- MODULE HostPolicy -----------------------------
(***************************************************************************)
(* How the signer decides on one intent (internal/signer/signer.go): the   *)
(* compiled host policies, the authorisation gates, elevation, the command *)
(* firewall with the runtime grants, and the certificate's constraints.    *)
(***************************************************************************)
EXTENDS CommandPolicy, Naturals

CONSTANTS
    Hosts, Groups, CNs, Users, SudoUsers,
    NoText,           \* the empty command
    Multiline,        \* the texts with a newline
    Nil,              \* an empty name; EndUserGroups = nil
    DefaultKey,       \* "_default": the group of every host, the CN of any caller
    defaultTTL,       \* max_ttl_seconds of the signer, with its default
    certCap           \* what ca.BuildAndSign signs at most (15 minutes)

ASSUME HostPolicyAssumption ==
    /\ NoText \in Texts
    /\ Multiline \subseteq Texts
    /\ Nil \notin CNs \cup Users \cup Groups \cup Hosts \cup SudoUsers
    /\ DefaultKey \notin Groups \cup CNs
    /\ "root" \in SudoUsers
    /\ defaultTTL \in Nat \ {0}
    /\ certCap \in Nat

HostPolicies ==
    [allowAsBastion: BOOLEAN, allowedCallers: SUBSET CNs, allowSudo: BOOLEAN,
     allowedSudoUsers: SUBSET SudoUsers, allowPTY: BOOLEAN,
     allowFileTransfer: BOOLEAN, groups: SUBSET Groups, jump: Hosts \cup {Nil},
     maxTTL: Nat, commandPolicy: CommandPolicies]

\* A configuration file: the hosts, the named policies and the groups they are
\* attached to, the callers restricted to groups, and who may forward or administer.
IsConfig(cfg) ==
    /\ DOMAIN cfg.hosts \subseteq Hosts
    /\ \A h \in DOMAIN cfg.hosts : cfg.hosts[h] \in HostPolicies
    /\ \A n \in DOMAIN cfg.library : cfg.library[n] \in CommandPolicies
    /\ DOMAIN cfg.groupPolicies \subseteq Groups \cup {DefaultKey}
    /\ DOMAIN cfg.callers \subseteq CNs \cup {DefaultKey}
    /\ \A c \in DOMAIN cfg.callers : cfg.callers[c] \subseteq Groups
    /\ cfg.forwarders \subseteq CNs
    /\ cfg.reloadCallers \subseteq CNs

\* The named policies of the host's groups and of "_default", and its own.
composePolicies(hp, cfg) ==
    LET names == UNION {cfg.groupPolicies[g] :
                        g \in (hp.groups \cup {DefaultKey}) \cap DOMAIN cfg.groupPolicies}
    IN {cfg.library[n] : n \in names \cap DOMAIN cfg.library}
       \cup (IF Restricts(hp.commandPolicy) THEN {hp.commandPolicy} ELSE {})

\* CompileHostPolicies accepts the configuration.
Compiles(cfg) ==
    /\ \A n \in DOMAIN cfg.library : Validate(cfg.library[n])
    /\ \A g \in DOMAIN cfg.groupPolicies : cfg.groupPolicies[g] \subseteq DOMAIN cfg.library
    /\ \A h \in DOMAIN cfg.hosts :
          LET hp == cfg.hosts[h] IN
          /\ hp.jump = Nil \/ hp.jump \in DOMAIN cfg.hosts
          /\ hp.maxTTL <= certCap
          /\ Validate(hp.commandPolicy)
          /\ ~(hp.allowAsBastion /\ SetRestricts(composePolicies(hp, cfg)))

-----------------------------------------------------------------------------
(* Callers and groups.                                                     *)

callerAllowed(hp, cn) == hp.allowedCallers = {} \/ cn \in hp.allowedCallers

\* HostSetForCaller: a caller that is listed, or that "_default" speaks for, is held
\* to the hosts of its groups.
InHostSet(cfg, cn, h) ==
    LET key == IF cn \in DOMAIN cfg.callers THEN cn ELSE DefaultKey
    IN key \in DOMAIN cfg.callers =>
          /\ h \in DOMAIN cfg.hosts
          /\ cfg.hosts[h].groups \cap cfg.callers[key] # {}

-----------------------------------------------------------------------------
(* PolicyTable.resolve.                                                    *)

Intents ==
    [caller: CNs, host: Hosts, role: {"target", "bastion", "other"},
     purpose: {"oneshot", "session", "other"}, mode: {"exec", "shell", "pty"},
     command: Texts, ttl: Nat, sudo: BOOLEAN, sudoUser: SudoUsers \cup {Nil},
     pty: BOOLEAN, fileTransfer: BOOLEAN, dryRun: BOOLEAN, approved: BOOLEAN,
     user: Users \cup {Nil}, groups: {Nil} \cup SUBSET Groups]

authorizeIntent(hp, eff, in) ==
    /\ in.role \in {"target", "bastion"}
    /\ in.purpose \in {"oneshot", "session"}
    /\ in.command \in Multiline => in.purpose # "oneshot" /\ ~SetRestricts(eff)
    /\ in.purpose = "oneshot" /\ in.role = "target" => in.command # NoText
    /\ callerAllowed(hp, in.caller)
    /\ in.groups # Nil => hp.groups \cap in.groups # {}
    /\ in.role = "bastion" => hp.allowAsBastion
    /\ in.role # "target" => ~SetRestricts(eff)

\* The account that sudo runs the command as; an empty name means root.
SudoUser(in) ==
    IF ~in.sudo THEN Nil ELSE IF in.sudoUser = Nil THEN "root" ELSE in.sudoUser

ElevationAllowed(hp, in) ==
    in.sudo /\ in.role = "target" =>
        /\ hp.allowSudo
        /\ SudoUser(in) \in (IF hp.allowedSudoUsers = {} THEN {"root"} ELSE hp.allowedSudoUsers)

\* The live allow-grants as policies, injected only into a set that already has an
\* allowlist; they do not turn an audit-only set into an enforcing one.
GrantPolicy(allow, enforcement) ==
    [mode |-> "allowlist", enforcement |-> enforcement, allow |-> allow,
     deny |-> {}, requireApproval |-> {}, shellParse |-> FALSE]

WithGrants_Always(eff, widenings) ==
    eff \cup {GrantPolicy(allow, Enforcement(eff)) : allow \in widenings}

WithGrants(eff, widenings) ==
    IF hasAllowlist(eff)
    THEN eff \cup {GrantPolicy(allow, Enforcement(eff)) : allow \in widenings}
    ELSE eff

\* resolveCommandPolicy: "deny", "approval" (a human must agree), "warn" (the set
\* only audits), or "ok".  waived: a live waiver matches the intent.
resolveCommandPolicy(eff, in, waived) ==
    LET d == Decide(eff, in.command)
        audit == Enforcement(eff) = "audit"
    IN IF in.role # "target" \/ ~SetRestricts(eff) THEN "ok"
       ELSE IF in.purpose = "session" /\ in.mode # "exec" THEN "deny"
       ELSE IF in.purpose = "session" /\ in.command = NoText THEN "ok"
       ELSE IF ~d.allowed THEN IF audit THEN "warn" ELSE "deny"
       ELSE IF ~d.needsApproval \/ waived THEN "ok"
       ELSE IF audit THEN "warn" ELSE "approval"

\* The verdict on an intent under a configuration, with the allow-grants that apply.
resolve(cfg, in, widenings, waived) ==
    IF in.host \notin DOMAIN cfg.hosts THEN "deny"
    ELSE LET hp == cfg.hosts[in.host]
             eff == composePolicies(hp, cfg)
         IN IF /\ authorizeIntent(hp, eff, in)
               /\ ElevationAllowed(hp, in)
               /\ in.pty => hp.allowPTY
               /\ in.fileTransfer => hp.allowFileTransfer
            THEN resolveCommandPolicy(WithGrants(eff, widenings), in, waived)
            ELSE "deny"

Smaller(a, b) == IF a <= b THEN a ELSE b

\* The certificate: the lifetime asked for, cut to the host's or the signer's
\* maximum, and the command it is bound to.
TTLOf(hp, in) ==
    LET maxTTL == IF hp.maxTTL = 0 THEN defaultTTL ELSE hp.maxTTL
    IN IF in.ttl = 0 THEN maxTTL ELSE Smaller(in.ttl, maxTTL)

Certificate(hp, in) ==
    [host |-> in.host, role |-> in.role, ttl |-> TTLOf(hp, in),
     forceCommand |-> IF in.purpose = "oneshot" /\ in.role = "target"
                      THEN in.command ELSE NoText,
     elevation |-> IF in.role = "target" THEN SudoUser(in) ELSE Nil,
     portForwarding |-> in.role = "bastion", pty |-> in.pty]
=============================================================================
