--------------------------- MODULE CommandPolicy ---------------------------
(***************************************************************************)
(* The command firewall: a CommandPolicy (internal/signer/cmdpolicy.go)    *)
(* and the composition of those that apply to a host, the PolicySet        *)
(* (internal/signer/policyset.go).                                         *)
(*                                                                         *)
(* A regular expression is a member of Patterns and "matches" says which   *)
(* texts it matches.  A policy's lists are sets: only whether some pattern *)
(* of a list matches is decided on, and the rule that is reported is left  *)
(* out.  A PolicySet is a set of policies, for the same reason.            *)
(***************************************************************************)
CONSTANTS
    Texts,            \* command texts
    Patterns,         \* regular expressions
    BadPatterns,      \* the ones that do not compile
    matches,          \* the pairs <<pattern, text>> that match
    extractCommands   \* the simple commands of a text read as POSIX sh: {} if
                      \* it does not parse, holds a construct that is refused
                      \* (substitution, redirection to a file), or no command

ASSUME PatternsAssumption ==
    /\ BadPatterns \subseteq Patterns
    /\ matches \subseteq Patterns \X Texts
    /\ extractCommands \in [Texts -> SUBSET Texts]

CommandPolicies ==
    [mode: {"off", "allowlist", "denylist"}, enforcement: {"enforce", "audit"},
     allow: SUBSET Patterns, deny: SUBSET Patterns,
     requireApproval: SUBSET Patterns, shellParse: BOOLEAN]

Active(cp) == cp.mode \in {"allowlist", "denylist"}

\* The policy has a rule of some kind, so commands must be checked one by one.
Restricts(cp) == Active(cp) \/ cp.requireApproval # {}

\* Every regular expression compiles.
Validate(cp) == (cp.allow \cup cp.deny \cup cp.requireApproval) \cap BadPatterns = {}

SetRestricts(ps) == \E p \in ps : Restricts(p)

\* One enforcing member makes the whole set enforcing.
Enforcement(ps) ==
    IF SetRestricts(ps) /\ \A p \in ps : Restricts(p) => p.enforcement = "audit"
    THEN "audit" ELSE "enforce"

hasAllowlist(ps) == \E p \in ps : p.mode = "allowlist"

shellParse(ps) == \E p \in ps : p.shellParse

MatchString(patterns, text) == \E pat \in patterns : <<pat, text>> \in matches

Denied(ps, text) == \E p \in ps : p.mode = "denylist" /\ MatchString(p.deny, text)
Gated(ps, text) == \E p \in ps : MatchString(p.requireApproval, text)
Listed(ps, text) == \E p \in ps : p.mode = "allowlist" /\ MatchString(p.allow, text)

\* One simple command: deny wins, then approval, then the union of the allowlists.
decideOne(ps, text) ==
    [allowed |-> ~Denied(ps, text) /\ (hasAllowlist(ps) => Listed(ps, text)),
     needsApproval |-> ~Denied(ps, text) /\ Gated(ps, text)]

\* What decideOne is asked about: the text itself, or its simple commands.
Parts(ps, text) == IF shellParse(ps) THEN extractCommands[text] ELSE {text}

Decide_FirstPart(ps, text) ==
    IF ps = {} THEN [allowed |-> TRUE, needsApproval |-> FALSE]
    ELSE [allowed |-> \E c \in Parts(ps, text) : decideOne(ps, c).allowed,
          needsApproval |-> \E c \in Parts(ps, text) : decideOne(ps, c).needsApproval]

\* A text that cannot be taken apart is refused.  needsApproval counts only for a
\* command that is allowed.
Decide(ps, text) ==
    IF ps = {} THEN [allowed |-> TRUE, needsApproval |-> FALSE]
    ELSE [allowed |-> /\ Parts(ps, text) # {}
                      /\ \A c \in Parts(ps, text) : decideOne(ps, c).allowed,
          needsApproval |-> \E c \in Parts(ps, text) : decideOne(ps, c).needsApproval]
=============================================================================
