----------------------------- MODULE ConfigFile -----------------------------
(***************************************************************************)
(* The contents of signer.json and the edits made to it: the signer's own  *)
(* editAllow (cmd/signer/policy.go) and the commands of broker-ctl         *)
(* (cmd/broker-ctl/main.go), which rewrite one of the tables "hosts",      *)
(* "ca_keys" and "callers" and keep the rest of the file.                  *)
(***************************************************************************)
EXTENDS Naturals

CONSTANTS
    Hosts, CNs, Groups,
    KeyNames, KeyRefs,
    LostKeys,           \* references to CA keys that cannot be loaded
    Rules,
    BadRules,           \* regular expressions that do not compile
    NoHost              \* jump = ""

ASSUME ConfigNamesAssumption ==
    /\ NoHost \notin Hosts
    /\ BadRules \subseteq Rules
    /\ LostKeys \subseteq KeyRefs

HostEntries == [bastion: BOOLEAN, jump: Hosts \cup {NoHost},
                mode: {"off", "allowlist", "denylist"}, allow: SUBSET Rules]

Tables(K, V) == UNION {[D -> V] : D \in SUBSET K}

Configs == [hosts: Tables(Hosts, HostEntries), ca_keys: Tables(KeyNames, KeyRefs),
            callers: Tables(CNs, SUBSET Groups), reload_callers: SUBSET CNs,
            sign_rate: Nat]

-----------------------------------------------------------------------------
(* buildState.                                                             *)

\* CompileHostPolicies: jumps lead to hosts, rules compile, and a bastion is not
\* restricted; then every CA key loads.
buildState(c) ==
    /\ \A h \in DOMAIN c.hosts :
          /\ c.hosts[h].jump \in DOMAIN c.hosts \cup {NoHost}
          /\ c.hosts[h].allow \cap BadRules = {}
          /\ ~(c.hosts[h].bastion /\ c.hosts[h].mode # "off")
    /\ \A k \in DOMAIN c.ca_keys : c.ca_keys[k] \notin LostKeys

-----------------------------------------------------------------------------
(* The signer's edit: one allow rule of one host.                          *)

\* What "policy add" and "policy remove" send, under the name of the caller's certificate.
PolicyEdits == [caller: CNs, host: Hosts, pattern: Rules, add: BOOLEAN]

Put(t, k, v) == [x \in DOMAIN t \cup {k} |-> IF x = k THEN v ELSE t[x]]
Drop(t, k) == [x \in DOMAIN t \ {k} |-> t[x]]

\* errHostNotFound, errNoChange.
editAllowRefuses(c, e) ==
    \/ e.host \notin DOMAIN c.hosts
    \/ e.add /\ e.pattern \in c.hosts[e.host].allow
    \/ ~e.add /\ e.pattern \notin c.hosts[e.host].allow

\* The first rule of a host without a policy also turns its allowlist on; removing
\* the last one does not turn it off.
editAllow(c, e) ==
    LET h == c.hosts[e.host] IN
    [c EXCEPT !.hosts = Put(c.hosts, e.host,
        IF e.add
        THEN [h EXCEPT !.allow = h.allow \cup {e.pattern},
                       !.mode = IF h.mode = "off" THEN "allowlist" ELSE h.mode]
        ELSE [h EXCEPT !.allow = h.allow \ {e.pattern}])]

-----------------------------------------------------------------------------
(* The commands of broker-ctl.  They check that the entry exists or not,   *)
(* and nothing else: the result need not be a configuration buildState     *)
(* accepts.                                                                *)

\* With --force, what no flag was given for keeps its value, the policy's fields one
\* by one too.
Kept(f, new, old, given) == IF f \in given THEN new[f] ELSE old[f]
mergeUnsetHostFields(new, old, given) ==
    [new EXCEPT !.bastion = Kept("bastion", new, old, given),
                !.jump = Kept("jump", new, old, given)]
mergeCommandPolicyJSON(new, old, given) ==
    [new EXCEPT !.mode = Kept("mode", new, old, given),
                !.allow = Kept("allow", new, old, given)]

cmdHostAdd(c, k) ==
    [c EXCEPT !.hosts = Put(c.hosts, k.name,
        IF k.name \in DOMAIN c.hosts
        THEN mergeCommandPolicyJSON(
                mergeUnsetHostFields(k.entry, c.hosts[k.name], k.given),
                c.hosts[k.name], k.given)
        ELSE k.entry)]
cmdHostRemove(c, k) == [c EXCEPT !.hosts = Drop(c.hosts, k.name)]
cmdCAKeysAdd(c, k) == [c EXCEPT !.ca_keys = Put(c.ca_keys, k.name, k.entry)]
cmdCAKeysRemove(c, k) == [c EXCEPT !.ca_keys = Drop(c.ca_keys, k.name)]
cmdCallersAdd(c, k) == [c EXCEPT !.callers = Put(c.callers, k.name, k.entry)]
cmdCallersRemove(c, k) == [c EXCEPT !.callers = Drop(c.callers, k.name)]

HostCommands == [op: {"host add"}, name: Hosts, force: BOOLEAN, entry: HostEntries,
                 given: SUBSET {"bastion", "jump", "mode", "allow"}]
                \cup [op: {"host remove"}, name: Hosts]
KeyCommands == [op: {"ca-keys add"}, name: KeyNames, force: BOOLEAN, entry: KeyRefs]
               \cup [op: {"ca-keys remove"}, name: KeyNames]
CallerCommands == [op: {"callers add"}, name: CNs, force: BOOLEAN, entry: SUBSET Groups]
                  \cup [op: {"callers remove"}, name: CNs]
CtlCommands == HostCommands \cup KeyCommands \cup CallerCommands

\* "already exists (use --force to overwrite)", "not found".
ctlRefuses(c, k) ==
    LET names == CASE k.op \in {"host add", "host remove"} -> DOMAIN c.hosts
                   [] k.op \in {"ca-keys add", "ca-keys remove"} -> DOMAIN c.ca_keys
                   [] OTHER -> DOMAIN c.callers
    IN IF k.op \in {"host add", "ca-keys add", "callers add"}
       THEN k.name \in names /\ ~k.force
       ELSE k.name \notin names

ctlEdit(c, k) ==
    CASE k.op = "host add" -> cmdHostAdd(c, k)
      [] k.op = "host remove" -> cmdHostRemove(c, k)
      [] k.op = "ca-keys add" -> cmdCAKeysAdd(c, k)
      [] k.op = "ca-keys remove" -> cmdCAKeysRemove(c, k)
      [] k.op = "callers add" -> cmdCallersAdd(c, k)
      [] OTHER -> cmdCallersRemove(c, k)
=============================================================================
