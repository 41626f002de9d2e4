--------------------------- MODULE Signer_proofs ---------------------------
(***************************************************************************)
(* What the signer's decisions guarantee for every set of configurations,  *)
(* commands, patterns and grants.                                          *)
(***************************************************************************)
EXTENDS Signer, TLAPS

-----------------------------------------------------------------------------
(* A policy set with and without runtime grants.                           *)

\* A member of the widened set is a member of the set or a grant's policy, and there
\* are grants only if the set has an allowlist.
LEMMA WidenedMembers ==
    ASSUME NEW eff, NEW w
    PROVE  /\ eff \subseteq WithGrants(eff, w)
           /\ \A p \in WithGrants(eff, w) :
                 \/ p \in eff
                 \/ /\ hasAllowlist(eff)
                    /\ \E allow \in w : p = GrantPolicy(allow, Enforcement(eff))
           /\ hasAllowlist(eff) => \A allow \in w :
                 GrantPolicy(allow, Enforcement(eff)) \in WithGrants(eff, w)
  BY DEF WithGrants

\* Grants change neither whether a set restricts, nor whether it has an allowlist,
\* nor whether it takes commands apart.
LEMMA WidenedKind ==
    ASSUME NEW eff, NEW w
    PROVE  /\ SetRestricts(WithGrants(eff, w)) <=> SetRestricts(eff)
           /\ hasAllowlist(WithGrants(eff, w)) <=> hasAllowlist(eff)
           /\ shellParse(WithGrants(eff, w)) <=> shellParse(eff)
<1>1. hasAllowlist(eff) => SetRestricts(eff)
  BY DEF hasAllowlist, SetRestricts, Restricts, Active
<1>2. SetRestricts(WithGrants(eff, w)) <=> SetRestricts(eff)
  BY <1>1, WidenedMembers DEF SetRestricts
<1>3. hasAllowlist(WithGrants(eff, w)) <=> hasAllowlist(eff)
  BY WidenedMembers DEF hasAllowlist
<1>4. shellParse(WithGrants(eff, w)) <=> shellParse(eff)
  BY WidenedMembers DEF shellParse, GrantPolicy
<1>. QED  BY <1>2, <1>3, <1>4

\* Grants do not change whether the set enforces: they take its own enforcement.
LEMMA WidenedEnforcement ==
    ASSUME NEW eff, NEW w, SetRestricts(eff)
    PROVE  Enforcement(WithGrants(eff, w)) = Enforcement(eff)
<1>1. CASE \A p \in eff : Restricts(p) => p.enforcement = "audit"
  <2>1. Enforcement(eff) = "audit"
    BY <1>1 DEF Enforcement
  <2>2. \A p \in WithGrants(eff, w) : Restricts(p) => p.enforcement = "audit"
    BY <1>1, <2>1, WidenedMembers DEF GrantPolicy
  <2>. QED  BY <2>1, <2>2, WidenedKind DEF Enforcement
<1>2. CASE \E p \in eff : Restricts(p) /\ p.enforcement # "audit"
  <2>1. Enforcement(eff) = "enforce"
    BY <1>2 DEF Enforcement
  <2>2. \E p \in WithGrants(eff, w) : Restricts(p) /\ p.enforcement # "audit"
    BY <1>2, WidenedMembers
  <2>. QED  BY <2>1, <2>2 DEF Enforcement
<1>. QED  BY <1>1, <1>2

\* Deny and approval rules are the ones of the set alone; the allowlists grow by the
\* grants' patterns.
LEMMA WidenedRules ==
    ASSUME NEW eff, NEW w, NEW text
    PROVE  /\ Denied(WithGrants(eff, w), text) <=> Denied(eff, text)
           /\ Gated(WithGrants(eff, w), text) <=> Gated(eff, text)
           /\ Listed(eff, text) => Listed(WithGrants(eff, w), text)
           /\ Listed(WithGrants(eff, w), text) =>
                 Listed(eff, text) \/ \E allow \in w : MatchString(allow, text)
<1>1. Denied(WithGrants(eff, w), text) <=> Denied(eff, text)
  BY WidenedMembers DEF Denied, GrantPolicy
<1>2. ~MatchString({}, text)
  BY DEF MatchString
<1>3. Gated(WithGrants(eff, w), text) <=> Gated(eff, text)
  <2>1. Gated(eff, text) => Gated(WithGrants(eff, w), text)
    BY WidenedMembers DEF Gated
  <2>2. ASSUME NEW p \in WithGrants(eff, w), MatchString(p.requireApproval, text)
        PROVE  p \in eff
    <3>1. \A allow, enf : GrantPolicy(allow, enf).requireApproval = {}
      BY DEF GrantPolicy
    <3>. QED  BY <1>2, <2>2, <3>1, WidenedMembers
  <2>. QED  BY <2>1, <2>2 DEF Gated
<1>4. Listed(eff, text) => Listed(WithGrants(eff, w), text)
  BY WidenedMembers DEF Listed
<1>5. ASSUME Listed(WithGrants(eff, w), text)
      PROVE  Listed(eff, text) \/ \E allow \in w : MatchString(allow, text)
  <2>1. PICK p \in WithGrants(eff, w) : p.mode = "allowlist" /\ MatchString(p.allow, text)
    BY <1>5 DEF Listed
  <2>2. CASE p \in eff
    BY <2>1, <2>2 DEF Listed
  <2>3. CASE \E allow \in w : p = GrantPolicy(allow, Enforcement(eff))
    BY <2>1, <2>3 DEF GrantPolicy
  <2>. QED  BY <2>2, <2>3, WidenedMembers
<1>. QED  BY <1>1, <1>3, <1>4, <1>5

\* What Decide says, as a formula.
LEMMA DecideMeans ==
    ASSUME NEW ps, NEW text, ps # {}
    PROVE  /\ Decide(ps, text).allowed <=>
                 /\ Parts(ps, text) # {}
                 /\ \A c \in Parts(ps, text) :
                       ~Denied(ps, c) /\ (hasAllowlist(ps) => Listed(ps, c))
           /\ Decide(ps, text).needsApproval <=>
                 \E c \in Parts(ps, text) : ~Denied(ps, c) /\ Gated(ps, c)
  BY DEF Decide, decideOne

\* What a set allows it allows with grants, and approval is asked for the same texts.
LEMMA GrantsWiden ==
    ASSUME NEW eff, NEW w, NEW text, eff # {}
    PROVE  /\ Decide(eff, text).allowed => Decide(WithGrants(eff, w), text).allowed
           /\ Decide(WithGrants(eff, w), text).needsApproval
                 <=> Decide(eff, text).needsApproval
<1>. DEFINE W == WithGrants(eff, w)
<1>1. W # {}
  BY WidenedMembers
<1>2. Parts(W, text) = Parts(eff, text)
  BY WidenedKind DEF Parts
<1>. HIDE DEF W
<1>3. /\ Decide(W, text).allowed <=>
            /\ Parts(W, text) # {}
            /\ \A c \in Parts(W, text) : ~Denied(W, c) /\ (hasAllowlist(W) => Listed(W, c))
      /\ Decide(W, text).needsApproval <=>
            \E c \in Parts(W, text) : ~Denied(W, c) /\ Gated(W, c)
  BY <1>1, DecideMeans
<1>4. \A c : /\ Denied(W, c) <=> Denied(eff, c)
             /\ Gated(W, c) <=> Gated(eff, c)
             /\ Listed(eff, c) => Listed(W, c)
  BY WidenedRules DEF W
<1>5. hasAllowlist(W) <=> hasAllowlist(eff)
  BY WidenedKind DEF W
<1>6. Decide(eff, text).allowed => Decide(W, text).allowed
  BY <1>2, <1>3, <1>4, <1>5, DecideMeans
<1>7. Decide(W, text).needsApproval <=> Decide(eff, text).needsApproval
  BY <1>2, <1>3, <1>4, DecideMeans
<1>. QED  BY <1>6, <1>7 DEF W

-----------------------------------------------------------------------------
(* The whole decision.                                                     *)

\* Without grants the widened set is the set itself.
LEMMA NoGrants == \A eff : WithGrants(eff, {}) = eff
  BY DEF WithGrants

\* What resolveCommandPolicy answers is only relaxed by grants and waivers.
LEMMA CommandPolicyRelaxed ==
    ASSUME NEW eff, NEW w, NEW in, NEW waived \in BOOLEAN
    PROVE  LET without == resolveCommandPolicy(eff, in, FALSE)
               with == resolveCommandPolicy(WithGrants(eff, w), in, waived)
           IN /\ without = "ok" => with = "ok"
              /\ without = "approval" => with \in {"approval", "ok"}
              /\ without = "warn" => with \in {"warn", "ok"}
<1>1. CASE ~SetRestricts(eff)
  BY <1>1, WidenedKind DEF resolveCommandPolicy
<1>2. CASE SetRestricts(eff)
  <2>1. eff # {}
    BY <1>2 DEF SetRestricts
  <2>2. SetRestricts(WithGrants(eff, w))
    BY <1>2, WidenedKind
  <2>3. Enforcement(WithGrants(eff, w)) = Enforcement(eff)
    BY <1>2, WidenedEnforcement
  <2>4. /\ Decide(eff, in.command).allowed
              => Decide(WithGrants(eff, w), in.command).allowed
        /\ Decide(WithGrants(eff, w), in.command).needsApproval
              <=> Decide(eff, in.command).needsApproval
    BY <2>1, GrantsWiden
  <2>. QED  BY <1>2, <2>2, <2>3, <2>4 DEF resolveCommandPolicy
<1>. QED  BY <1>1, <1>2

\* GrantsNeverNarrow, for every configuration, request and store: grants and waivers
\* never turn a decision of the signer into a stricter one.
THEOREM GrantsOnlyRelax == Spec => []GrantsNeverNarrow
<1>1. GrantsNeverNarrow
  <2>. SUFFICES ASSUME NEW req \in Requests
       PROVE  LET in == EffectiveIntent(req)
                  without == resolve(config, in, {}, FALSE)
                  with == resolve(config, in, GrantsFor(in), WaiverMatches(in))
              IN /\ without = "ok" => with = "ok"
                 /\ without = "approval" => with \in {"approval", "ok"}
                 /\ without = "warn" => with \in {"warn", "ok"}
    BY DEF GrantsNeverNarrow
  <2>. DEFINE in == EffectiveIntent(req)
              w == GrantsFor(in)
              waived == WaiverMatches(in)
              eff == composePolicies(config.hosts[in.host], config)
  <2>1. waived \in BOOLEAN
    BY DEF WaiverMatches
  <2>. HIDE DEF in, w, waived
  <2>2. LET without == resolveCommandPolicy(eff, in, FALSE)
            with == resolveCommandPolicy(WithGrants(eff, w), in, waived)
        IN /\ without = "ok" => with = "ok"
           /\ without = "approval" => with \in {"approval", "ok"}
           /\ without = "warn" => with \in {"warn", "ok"}
    BY <2>1, CommandPolicyRelaxed
  <2>3. LET without == resolve(config, in, {}, FALSE)
            with == resolve(config, in, w, waived)
        IN /\ without = "ok" => with = "ok"
           /\ without = "approval" => with \in {"approval", "ok"}
           /\ without = "warn" => with \in {"warn", "ok"}
    BY <2>2, NoGrants DEF resolve
  <2>. QED  BY <2>3 DEF in, w, waived
<1>. QED  BY <1>1, PTL

-----------------------------------------------------------------------------
(* The firewall.                                                           *)

\* An intent that resolve does not deny, on a host whose own policies enforce: it is
\* for the target, and it is a one-shot command that the widened set allows or it
\* opens or uses an exec session.
LEMMA NotDenied ==
    ASSUME NEW cfg, NEW in, NEW w, NEW waived,
           resolve(cfg, in, w, waived) # "deny",
           SetRestricts(composePolicies(cfg.hosts[in.host], cfg)),
           Enforcement(composePolicies(cfg.hosts[in.host], cfg)) = "enforce"
    PROVE  /\ in.role = "target"
           /\ in.command \notin Multiline
           /\ \/ in.purpose = "session" /\ in.mode = "exec"
              \/ /\ in.purpose = "oneshot"
                 /\ in.command # NoText
                 /\ Decide(WithGrants(composePolicies(cfg.hosts[in.host], cfg), w),
                           in.command).allowed
<1>. DEFINE eff == composePolicies(cfg.hosts[in.host], cfg)
            W == WithGrants(eff, w)
<1>1. /\ authorizeIntent(cfg.hosts[in.host], eff, in)
      /\ resolveCommandPolicy(W, in, waived) # "deny"
  BY DEF resolve
<1>2. SetRestricts(eff) /\ Enforcement(eff) = "enforce"
  OBVIOUS
<1>3. SetRestricts(W) /\ Enforcement(W) = "enforce"
  BY <1>2, WidenedKind, WidenedEnforcement
<1>. HIDE DEF eff, W
<1>4. /\ in.role = "target"
      /\ in.command \notin Multiline
      /\ in.purpose \in {"oneshot", "session"}
      /\ in.purpose = "oneshot" => in.command # NoText
  BY <1>1, <1>2 DEF authorizeIntent
<1>5. CASE in.purpose = "session"
  BY <1>1, <1>3, <1>4, <1>5 DEF resolveCommandPolicy
<1>6. CASE in.purpose = "oneshot"
  <2>1. Decide(W, in.command).allowed
    BY <1>1, <1>3, <1>4, <1>6 DEF resolveCommandPolicy
  <2>. QED  BY <2>1, <1>4, <1>6 DEF W, eff
<1>. QED  BY <1>4, <1>5, <1>6

\* FirewallHolds for every set of configurations, commands and grants: a step leaves
\* a certificate behind only if SignIntent issued it, on its snapshot and on the
\* grants it had read, and then the decision was not a denial.
THEOREM FirewallIsNotEvaded == Spec => []FirewallHolds
<1>1. Init => FirewallHolds
  BY DEF Init, FirewallHolds, CertEnforced
<1>2. FirewallHolds /\ [Next]_vars => FirewallHolds'
  <2>. SUFFICES ASSUME FirewallHolds, [Next]_vars, CertEnforced'
       PROVE  FirewallHolds'
    BY DEF FirewallHolds
  <2>1. CASE cert' = cert
    BY <2>1 DEF FirewallHolds, CertEnforced, CertPolicies
  <2>2. CASE cert' = NoCert
    BY <2>2 DEF CertEnforced, NoCert
  <2>3. CASE \E s \in Signs : SignIntent(s) /\ cert' # NoCert
    <3>1. PICK s \in Signs : SignIntent(s) /\ cert' # NoCert
      BY <2>3
    <3>. DEFINE cfg == sign[s].cfg
                in == sign[s].in
                w == sign[s].widenings
                eff == composePolicies(cfg.hosts[in.host], cfg)
                W == WithGrants(eff, w)
                text == Certificate(cfg.hosts[in.host], in).forceCommand
    <3>2. /\ cert'.cert = Certificate(cfg.hosts[in.host], in)
          /\ cert'.cfg = cfg /\ cert'.in = in /\ cert'.widenings = w
          /\ resolve(cfg, in, w, WaiverMatches(in)) # "deny"
      BY <3>1 DEF SignIntent, Issue
    <3>3. SetRestricts(eff) /\ Enforcement(eff) = "enforce"
      BY <3>2 DEF CertEnforced, CertPolicies
    <3>. HIDE DEF cfg, in, w
    <3>4. /\ in.role = "target"
          /\ in.command \notin Multiline
          /\ \/ in.purpose = "session" /\ in.mode = "exec"
             \/ in.purpose = "oneshot" /\ in.command # NoText /\ Decide(W, in.command).allowed
      BY <3>2, <3>3, NotDenied
    <3>5. /\ text = IF in.purpose = "oneshot" THEN in.command ELSE NoText
          /\ ~Certificate(cfg.hosts[in.host], in).portForwarding
      BY <3>4 DEF Certificate
    <3>. HIDE DEF eff, W, text
    <3>6. ASSUME in.purpose = "oneshot"
          PROVE  /\ Parts(eff, text) # {}
                 /\ \A c \in Parts(eff, text) :
                       /\ ~Denied(eff, c)
                       /\ hasAllowlist(eff) =>
                             Listed(eff, c) \/ \E allow \in w : MatchString(allow, c)
      <4>1. W # {} /\ Parts(W, text) = Parts(eff, text)
        BY <3>3, WidenedMembers, WidenedKind DEF W, Parts, SetRestricts
      <4>2. Decide(W, text).allowed
        BY <3>4, <3>5, <3>6
      <4>3. /\ Parts(W, text) # {}
            /\ \A c \in Parts(W, text) : ~Denied(W, c) /\ (hasAllowlist(W) => Listed(W, c))
        BY <4>1, <4>2, DecideMeans
      <4>4. hasAllowlist(W) <=> hasAllowlist(eff)
        BY WidenedKind DEF W
      <4>5. \A c : /\ Denied(W, c) <=> Denied(eff, c)
                   /\ Listed(W, c) =>
                         Listed(eff, c) \/ \E allow \in w : MatchString(allow, c)
        BY WidenedRules DEF W
      <4>. QED  BY <4>1, <4>3, <4>4, <4>5
    <3>7. CertPolicies' = eff
      BY <3>2 DEF CertPolicies, eff
    <3>8. CASE in.purpose = "session"
      BY <3>2, <3>4, <3>5, <3>8 DEF FirewallHolds, text
    <3>9. CASE in.purpose = "oneshot"
      <4>. DEFINE lists == {p.allow : p \in {q \in eff : q.mode = "allowlist"}}
                  parts == IF \E p \in eff : p.shellParse
                           THEN extractCommands[text] ELSE {text}
      <4>1. parts = Parts(eff, text)
        BY DEF Parts, shellParse
      <4>2. lists # {} => hasAllowlist(eff)
        BY DEF hasAllowlist
      <4>3. \A c : Listed(eff, c) => \E pats \in lists : MatchString(pats, c)
        BY DEF Listed
      <4>4. \A c \in parts : \A p \in eff : p.mode = "denylist" =>
                \A pat \in p.deny : <<pat, c>> \notin matches
        BY <3>6, <3>9, <4>1 DEF Denied, MatchString
      <4>5. \A c \in parts : lists # {} => \E pats \in lists \cup w :
                \E pat \in pats : <<pat, c>> \in matches
        <5>. SUFFICES ASSUME NEW c \in parts, lists # {}
             PROVE  \E pats \in lists \cup w : MatchString(pats, c)
          BY DEF MatchString
        <5>1. Listed(eff, c) \/ \E allow \in w : MatchString(allow, c)
          BY <3>6, <3>9, <4>1, <4>2
        <5>. QED  BY <5>1, <4>3
      <4>6. parts # {} /\ text \notin Multiline /\ text # NoText
        BY <3>4, <3>5, <3>6, <3>9, <4>1
      <4>7. cert'.cert.forceCommand = text /\ ~cert'.cert.portForwarding
        BY <3>2, <3>5 DEF text
      <4>. QED  BY <3>2, <3>7, <4>4, <4>5, <4>6, <4>7 DEF FirewallHolds
    <3>. QED  BY <3>4, <3>8, <3>9
  <2>4. cert' = cert \/ cert' = NoCert \/ \E s \in Signs : SignIntent(s) /\ cert' # NoCert
    BY DEF Next, vars, handleSign, Widen, SupersedeWaiver, AddWaiver, GrantCheck, GrantAdd,
           Revoke, Purge, reload, Tick, Restart
  <2>. QED  BY <2>1, <2>2, <2>3, <2>4
<1>. QED  BY <1>1, <1>2, PTL DEF Spec

-----------------------------------------------------------------------------
(* Approval and waivers.                                                   *)

\* The intent names its caller, and a human approved it.
Consented(in) == in.caller # Nil /\ Scope(in) \in approvals

\* What a grant waives, as far as a human approved it.
WaivedScope(g) == [host |-> g.host, caller |-> g.caller, user |-> g.user,
                   command |-> g.waive, sudo |-> g.sudo]

\* A grant that waives an approval is for one caller, and what it waives was
\* approved, for the end user it names or for none.
FromApproval(g) ==
    /\ {"id", "host", "allow", "waive", "caller", "user", "sudo", "expires"} \subseteq DOMAIN g
    /\ g.waive # NoText => g.caller # Nil /\ WaivedScope(g) \in approvals

\* A handler that will learn serves an intent that names its caller; one that is
\* about to learn has seen it approved.
HandlerInv(r) ==
    /\ r.pc \in {"snapshot", "decide"} /\ r.learn => r.in.caller # Nil
    /\ r.pc = "learn" => Consented(r.in)
    /\ r.pc = "add" => FromApproval(r.waiver)

StoreInv == \A g \in grants : FromApproval(g)
SignsInv == /\ DOMAIN sign = Signs
            /\ \A s \in Signs : HandlerInv(sign[s])
AdminsInv == /\ DOMAIN admin = Admins
             /\ \A a \in Admins : admin[a].pc = "checked" => admin[a].grant \in Grantables

WaiverInv == StoreInv /\ SignsInv /\ AdminsInv

\* An id and an expiry do not change what a grant waives.
LEMMA SameWaiver ==
    ASSUME NEW g, NEW n, FromApproval(g)
    PROVE  FromApproval([g EXCEPT !.id = n]) /\ FromApproval([g EXCEPT !.expires = n])
<1>1. ASSUME NEW h, DOMAIN h = DOMAIN g,
             h.host = g.host, h.caller = g.caller, h.user = g.user, h.waive = g.waive,
             h.sudo = g.sudo
      PROVE  FromApproval(h)
  <2>1. WaivedScope(h) = WaivedScope(g)
    BY <1>1 DEF WaivedScope
  <2>. QED  BY <1>1, <2>1 DEF FromApproval
<1>2. {"id", "host", "allow", "waive", "caller", "user", "sudo", "expires"} \subseteq DOMAIN g
  BY DEF FromApproval
<1>. DEFINE h == [g EXCEPT !.id = n]
            k == [g EXCEPT !.expires = n]
<1>3. /\ DOMAIN h = DOMAIN g /\ h.host = g.host /\ h.caller = g.caller /\ h.user = g.user
      /\ h.waive = g.waive /\ h.sudo = g.sudo
  BY <1>2
<1>4. /\ DOMAIN k = DOMAIN g /\ k.host = g.host /\ k.caller = g.caller /\ k.user = g.user
      /\ k.waive = g.waive /\ k.sudo = g.sudo
  BY <1>2
<1>. HIDE DEF h, k
<1>5. FromApproval(h) /\ FromApproval(k)
  BY <1>1, <1>3, <1>4
<1>. QED  BY <1>5 DEF h, k

\* What an administrator asks for waives nothing.
LEMMA GrantablesWaiveNothing == \A g \in Grantables : FromApproval(g)
  BY SignerAssumption DEF FromApproval

\* More approvals do no harm.
LEMMA MoreApprovals ==
    ASSUME approvals \subseteq approvals'
    PROVE  /\ \A g : FromApproval(g) => FromApproval(g)'
           /\ \A in : Consented(in) => Consented(in)'
           /\ \A r : HandlerInv(r) => HandlerInv(r)'
<1>1. \A g : FromApproval(g) => FromApproval(g)'
  BY DEF FromApproval
<1>2. \A in : Consented(in) => Consented(in)'
  BY DEF Consented
<1>. QED  BY <1>1, <1>2 DEF HandlerInv

-----------------------------------------------------------------------------
(* WaiverInv is inductive.                                                 *)

\* handleSign: the intent is for the sender, or for whom it forwards; both are names.
LEMMA HandleSignKeeps ==
    ASSUME WaiverInv, NEW s \in Signs, NEW req \in Requests, handleSign(s, req)
    PROVE  SignsInv'
<1>. DEFINE r == [pc |-> "snapshot", cfg |-> config, in |-> EffectiveIntent(req),
                  learn |-> req.learn /\ IsForwarder(req)]
<1>1. sign' = [sign EXCEPT ![s] = r] /\ approvals' = approvals
  BY DEF handleSign
<1>2. req.cn \in CNs /\ req.onBehalfOf \in CNs \cup {Nil} /\ req.intent \in Intents
  BY SignerAssumption
<1>3. resolveCaller(req) # Nil
  BY <1>2, HostPolicyAssumption DEF resolveCaller
<1>4. EffectiveIntent(req).caller = resolveCaller(req)
  <2>. DEFINE in0 == req.intent
              cn == resolveCaller(req)
              ok == req.approved /\ IsForwarder(req)
  <2>1. in0 \in Intents
    BY <1>2
  <2>. HIDE DEF in0, cn, ok
  <2>2. LET e == [in0 EXCEPT !.caller = cn, !.approved = ok]
        IN e.caller = cn
    BY <2>1 DEF Intents
  <2>. QED  BY <2>2 DEF EffectiveIntent, in0, cn, ok
<1>5. r.pc = "snapshot" /\ r.in = EffectiveIntent(req) /\ (r.learn => req.learn)
  OBVIOUS
<1>. HIDE DEF r
<1>6. HandlerInv(r)
  BY <1>3, <1>4, <1>5 DEF HandlerInv
<1>. QED  BY <1>1, <1>6, MoreApprovals DEF WaiverInv, SignsInv

\* A step that moves one handler keeps the others' part of the invariant.
LEMMA OtherSigns ==
    ASSUME SignsInv, NEW s \in Signs, NEW r, sign' = [sign EXCEPT ![s] = r],
           approvals \subseteq approvals', HandlerInv(r)'
    PROVE  SignsInv'
<1>1. \A t \in Signs : HandlerInv(sign[t])'
  <2>. TAKE t \in Signs
  <2>1. CASE t = s
    <3>1. sign'[t] = r
      BY <2>1 DEF SignsInv
    <3>. QED  BY <3>1 DEF HandlerInv
  <2>2. CASE t # s
    <3>1. sign'[t] = sign[t]
      BY <2>2 DEF SignsInv
    <3>2. HandlerInv(sign[t])
      BY DEF SignsInv
    <3>. QED  BY <3>1, <3>2, MoreApprovals DEF HandlerInv
  <2>. QED  BY <2>1, <2>2
<1>. QED  BY <1>1 DEF SignsInv

\* SignIntent: what a handler is about to learn is what it has just seen approved.
LEMMA SignIntentKeeps ==
    ASSUME WaiverInv, NEW s \in Signs, SignIntent(s)
    PROVE  approvals \subseteq approvals' /\ SignsInv'
<1>. DEFINE verdict == resolve(sign[s].cfg, sign[s].in, sign[s].widenings,
                               WaiverMatches(sign[s].in))
<1>1. sign[s].pc = "decide" /\ HandlerInv(sign[s])
  BY DEF SignIntent, WaiverInv, SignsInv
<1>2. CASE Issue(s, verdict)
  <2>1. approvals \subseteq approvals'
    BY <1>2 DEF Issue
  <2>2. CASE sign[s].learn /\ verdict = "approval"
    <3>0. PICK r : r = [pc |-> "learn", cfg |-> sign[s].cfg, in |-> sign[s].in]
      OBVIOUS
    <3>1. sign' = [sign EXCEPT ![s] = r] /\ Scope(r.in) \in approvals'
      BY <1>2, <2>2, <3>0 DEF Issue
    <3>2. r.pc = "learn" /\ r.in.caller # Nil
      BY <1>1, <2>2, <3>0 DEF HandlerInv
    <3>3. HandlerInv(r)'
      BY <3>1, <3>2 DEF HandlerInv, Consented, Scope, ScopeFor
    <3>. QED  BY <2>1, <3>1, <3>3, OtherSigns DEF WaiverInv
  <2>3. CASE ~(sign[s].learn /\ verdict = "approval")
    <3>1. sign' = [sign EXCEPT ![s] = IdleSign]
      BY <1>2, <2>3 DEF Issue
    <3>2. HandlerInv(IdleSign)'
      BY DEF HandlerInv, IdleSign
    <3>. QED  BY <2>1, <3>1, <3>2, OtherSigns DEF WaiverInv
  <2>. QED  BY <2>2, <2>3
<1>3. CASE sign' = [sign EXCEPT ![s] = IdleSign] /\ approvals' = approvals
  <2>1. HandlerInv(IdleSign)'
    BY DEF HandlerInv, IdleSign
  <2>. QED  BY <1>3, <2>1, OtherSigns DEF WaiverInv
<1>. QED  BY <1>2, <1>3 DEF SignIntent

\* Learning: the waiver is for the scope that was approved.
LEMMA LearningKeeps ==
    ASSUME WaiverInv, NEW s \in Signs, SupersedeWaiver(s) \/ AddWaiver(s)
    PROVE  WaiverInv'
<1>1. HandlerInv(sign[s]) /\ SignsInv /\ StoreInv /\ approvals' = approvals
  BY DEF WaiverInv, SignsInv, SupersedeWaiver, AddWaiver
<1>2. AdminsInv'
  BY DEF WaiverInv, AdminsInv, SupersedeWaiver, AddWaiver
<1>3. CASE SupersedeWaiver(s)
  <2>0. PICK g : g = WaiverOf(sign[s].in)
    OBVIOUS
  <2>1. PICK r : r = [pc |-> "add", cfg |-> sign[s].cfg, in |-> sign[s].in, waiver |-> g]
    OBVIOUS
  <2>2. sign' = [sign EXCEPT ![s] = r] /\ grants' \subseteq grants /\ sign[s].pc = "learn"
    BY <1>3, <2>0, <2>1 DEF SupersedeWaiver
  <2>3. WaivedScope(g) = Scope(sign[s].in)
    BY <2>0 DEF WaivedScope, Scope, ScopeFor, WaiverOf
  <2>4. /\ g.caller = sign[s].in.caller
        /\ DOMAIN g = {"id", "host", "allow", "waive", "caller", "user", "sudo", "expires"}
    BY <2>0 DEF WaiverOf
  <2>5. FromApproval(g)'
    BY <1>1, <2>2, <2>3, <2>4 DEF FromApproval, HandlerInv, Consented, WaivedScope
  <2>6. HandlerInv(r)'
    BY <2>1, <2>5 DEF HandlerInv
  <2>7. SignsInv'
    BY <1>1, <2>2, <2>6, OtherSigns
  <2>8. StoreInv'
    BY <1>1, <2>2 DEF StoreInv, FromApproval
  <2>. QED  BY <1>2, <2>7, <2>8 DEF WaiverInv
<1>4. CASE AddWaiver(s)
  <2>. DEFINE g == [sign[s].waiver EXCEPT !.id = nextId + 1]
  <2>1. /\ sign' = [sign EXCEPT ![s] = IdleSign] /\ grants' = grants \cup {g}
        /\ sign[s].pc = "add"
    BY <1>4 DEF AddWaiver, Add
  <2>2. FromApproval(g)
    BY <1>1, <2>1, SameWaiver DEF HandlerInv
  <2>. HIDE DEF g
  <2>3. HandlerInv(IdleSign)'
    BY DEF HandlerInv, IdleSign
  <2>4. SignsInv'
    BY <1>1, <2>1, <2>3, OtherSigns
  <2>5. StoreInv'
    BY <1>1, <2>1, <2>2 DEF StoreInv, FromApproval
  <2>. QED  BY <1>2, <2>4, <2>5 DEF WaiverInv
<1>. QED  BY <1>3, <1>4

\* Nothing is approved, waived or under way at the start.
LEMMA WaiverInit == Init => WaiverInv
  BY DEF Init, WaiverInv, StoreInv, SignsInv, AdminsInv, HandlerInv, IdleSign, IdleAdmin

\* Every step keeps the waivers tied to approvals, and no approval is forgotten.
LEMMA WaiverStep ==
    ASSUME WaiverInv, [Next]_vars
    PROVE  WaiverInv' /\ approvals \subseteq approvals'
<1>1. ASSUME NEW s \in Signs, NEW req \in Requests, handleSign(s, req)
      PROVE  WaiverInv' /\ approvals \subseteq approvals'
  <2>1. SignsInv'
    BY <1>1, HandleSignKeeps
  <2>2. StoreInv' /\ AdminsInv' /\ approvals' = approvals
    BY <1>1 DEF WaiverInv, StoreInv, AdminsInv, FromApproval, handleSign
  <2>. QED  BY <2>1, <2>2 DEF WaiverInv
<1>2. ASSUME NEW s \in Signs, Widen(s)
      PROVE  WaiverInv' /\ approvals \subseteq approvals'
  <2>1. PICK r : r = [pc |-> "decide", cfg |-> sign[s].cfg, in |-> sign[s].in,
                      learn |-> sign[s].learn, widenings |-> GrantsFor(sign[s].in)]
    OBVIOUS
  <2>2. /\ sign' = [sign EXCEPT ![s] = r] /\ sign[s].pc = "snapshot"
        /\ approvals' = approvals /\ HandlerInv(sign[s]) /\ SignsInv
    BY <1>2, <2>1 DEF Widen, WaiverInv, SignsInv
  <2>3. HandlerInv(r)'
    BY <2>1, <2>2 DEF HandlerInv
  <2>4. SignsInv'
    BY <2>2, <2>3, OtherSigns
  <2>5. StoreInv' /\ AdminsInv'
    BY <1>2 DEF WaiverInv, StoreInv, AdminsInv, FromApproval, Widen
  <2>. QED  BY <2>2, <2>4, <2>5 DEF WaiverInv
<1>3. ASSUME NEW s \in Signs, SignIntent(s)
      PROVE  WaiverInv' /\ approvals \subseteq approvals'
  <2>1. SignsInv' /\ approvals \subseteq approvals'
    BY <1>3, SignIntentKeeps
  <2>2. grants' = grants /\ admin' = admin
    BY <1>3 DEF SignIntent
  <2>3. StoreInv' /\ AdminsInv'
    BY <2>1, <2>2, MoreApprovals DEF WaiverInv, StoreInv, AdminsInv
  <2>. QED  BY <2>1, <2>3 DEF WaiverInv
<1>4. ASSUME NEW s \in Signs, SupersedeWaiver(s) \/ AddWaiver(s)
      PROVE  WaiverInv' /\ approvals \subseteq approvals'
  BY <1>4, LearningKeeps DEF SupersedeWaiver, AddWaiver
<1>5. ASSUME NEW a \in Admins, NEW cn \in CNs, NEW g \in Grantables, NEW ttl,
             GrantCheck(a, cn, g, ttl)
      PROVE  WaiverInv' /\ approvals \subseteq approvals'
  <2>1. approvals' = approvals /\ grants' = grants /\ sign' = sign
    BY <1>5 DEF GrantCheck
  <2>2. admin' = [admin EXCEPT ![a] = [pc |-> "checked", grant |-> g, ttl |-> ttl]]
    BY <1>5 DEF GrantCheck
  <2>3. AdminsInv'
    BY <2>2 DEF WaiverInv, AdminsInv
  <2>. QED  BY <2>1, <2>3, MoreApprovals DEF WaiverInv, StoreInv, SignsInv
<1>6. ASSUME NEW a \in Admins, GrantAdd(a)
      PROVE  WaiverInv' /\ approvals \subseteq approvals'
  <2>. DEFINE h == [admin[a].grant EXCEPT !.expires = now + admin[a].ttl]
              k == [h EXCEPT !.id = nextId + 1]
  <2>1. /\ approvals' = approvals /\ sign' = sign
        /\ admin[a].pc = "checked"
        /\ admin' = [admin EXCEPT ![a] = IdleAdmin]
    BY <1>6 DEF GrantAdd
  <2>2. grants' = grants \cup {k}
    BY <1>6 DEF GrantAdd, Add
  <2>3. FromApproval(admin[a].grant)
    BY <2>1, GrantablesWaiveNothing DEF WaiverInv, AdminsInv
  <2>4. FromApproval(h)
    BY <2>3, SameWaiver
  <2>. HIDE DEF h
  <2>5. FromApproval(k)
    BY <2>4, SameWaiver
  <2>. HIDE DEF k
  <2>6. StoreInv'
    BY <2>1, <2>2, <2>5 DEF WaiverInv, StoreInv, FromApproval
  <2>7. AdminsInv'
    BY <2>1 DEF WaiverInv, AdminsInv, IdleAdmin
  <2>8. SignsInv'
    BY <2>1, MoreApprovals DEF WaiverInv, SignsInv
  <2>. QED  BY <2>1, <2>6, <2>7, <2>8 DEF WaiverInv
<1>7. ASSUME grants' \subseteq grants, UNCHANGED <<sign, admin, approvals>>
      PROVE  WaiverInv' /\ approvals \subseteq approvals'
  BY <1>7, MoreApprovals DEF WaiverInv, StoreInv, SignsInv, AdminsInv
<1>8. CASE Restart
  <2>1. /\ grants' = {} /\ approvals' = approvals
        /\ sign' = [s \in Signs |-> IdleSign] /\ admin' = [a \in Admins |-> IdleAdmin]
    BY <1>8 DEF Restart
  <2>. QED  BY <2>1 DEF WaiverInv, StoreInv, SignsInv, AdminsInv, HandlerInv, IdleSign,
                        IdleAdmin
<1>. QED  BY <1>1, <1>2, <1>3, <1>4, <1>5, <1>6, <1>7, <1>8
          DEF Next, vars, Revoke, Purge, reload, Tick

\* A certificate for a command that some rule gates, on a host that enforces: a
\* forwarder said that it was approved, or a live waiver matched.
LEMMA GatedMeans ==
    ASSUME NEW cfg, NEW in, NEW w, NEW waived \in BOOLEAN,
           NEW verdict, verdict = resolve(cfg, in, w, waived),
           verdict # "deny", ~MustAsk(in, verdict),
           NEW eff, eff = composePolicies(cfg.hosts[in.host], cfg),
           SetRestricts(eff), Enforcement(eff) = "enforce",
           in.purpose = "oneshot",
           NEW c \in Parts(eff, in.command), Gated(eff, c)
    PROVE  in.approved \/ waived
<1>. DEFINE W == WithGrants(eff, w)
<1>1. /\ in.role = "target" /\ in.command # NoText /\ Decide(W, in.command).allowed
  BY NotDenied
<1>2. verdict = resolveCommandPolicy(W, in, waived)
  BY DEF resolve
<1>3. SetRestricts(W) /\ Enforcement(W) = "enforce"
  BY WidenedKind, WidenedEnforcement
<1>4. W # {} /\ Parts(W, in.command) = Parts(eff, in.command)
  BY WidenedMembers, WidenedKind DEF Parts, SetRestricts
<1>5. Gated(W, c)
  BY WidenedRules
<1>. HIDE DEF W
<1>6. ~Denied(W, c) /\ Decide(W, in.command).needsApproval
  BY <1>1, <1>4, <1>5, DecideMeans
<1>7. CASE ~waived
  <2>1. verdict = "approval"
    BY <1>1, <1>2, <1>3, <1>6, <1>7 DEF resolveCommandPolicy
  <2>. QED  BY <2>1 DEF MustAsk
<1>. QED  BY <1>7

\* A waiver that matches an intent was learned from an approval of the same scope,
\* for its end user or for none.
LEMMA WaiverMeans ==
    ASSUME StoreInv, NEW in, WaiverMatches(in)
    PROVE  \E user \in {in.user, Nil} : ScopeFor(in, user) \in approvals
<1>1. PICK g \in grants : waiverApplies(g, in)
  BY DEF WaiverMatches
<1>2. FromApproval(g)
  BY DEF StoreInv
<1>3. /\ g.host = in.host /\ g.sudo = SudoUser(in) /\ g.waive = in.command
      /\ g.caller = in.caller /\ g.user \in {in.user, Nil}
      /\ WaivedScope(g) \in approvals
  BY <1>1, <1>2 DEF waiverApplies, ScopeMatches, FromApproval
<1>4. ScopeFor(in, g.user) = WaivedScope(g)
  BY <1>3 DEF WaivedScope, ScopeFor
<1>. QED  BY <1>3, <1>4

\* ApprovalUnavoidable for every set of configurations, requests and grants: no
\* interleaving of signing, learning, revoking, expiry, reloads and restarts yields a
\* certificate for a gated command that nobody approved for that host, caller and
\* elevation, for that end user or for no end user in particular.
THEOREM NoApprovalNoCertificate == Spec => []ApprovalUnavoidable
<1>1. Init => ApprovalUnavoidable
  BY DEF Init, ApprovalUnavoidable, CertEnforced
<1>2. ASSUME WaiverInv, ApprovalUnavoidable, [Next]_vars
      PROVE  ApprovalUnavoidable'
  <2>1. approvals \subseteq approvals'
    BY <1>2, WaiverStep
  <2>2. CASE cert' = cert
    BY <1>2, <2>1, <2>2 DEF ApprovalUnavoidable, CertEnforced, CertPolicies
  <2>3. CASE cert' = NoCert
    BY <2>3 DEF ApprovalUnavoidable, CertEnforced, NoCert
  <2>4. CASE \E s \in Signs : SignIntent(s) /\ cert' # NoCert
    <3>1. PICK s \in Signs : SignIntent(s) /\ cert' # NoCert
      BY <2>4
    <3>2. PICK cfg, in, w : cfg = sign[s].cfg /\ in = sign[s].in /\ w = sign[s].widenings
      OBVIOUS
    <3>3. PICK verdict : verdict = resolve(cfg, in, w, WaiverMatches(in))
      OBVIOUS
    <3>4. PICK eff : eff = composePolicies(cfg.hosts[in.host], cfg)
      OBVIOUS
    <3>5. /\ cert'.cert = Certificate(cfg.hosts[in.host], in)
          /\ cert'.cfg = cfg /\ cert'.in = in
          /\ verdict # "deny" /\ ~MustAsk(in, verdict)
      BY <3>1, <3>2, <3>3 DEF SignIntent, Issue
    <3>6. CertPolicies' = eff
      BY <3>4, <3>5 DEF CertPolicies
    <3>7. SUFFICES ASSUME CertEnforced', cert'.cert.forceCommand # NoText,
                          NEW p \in eff,
                          NEW c \in IF \E q \in eff : q.shellParse
                                    THEN extractCommands[cert'.cert.forceCommand]
                                    ELSE {cert'.cert.forceCommand},
                          MatchString(p.requireApproval, c)
                   PROVE  \/ cert'.in.approved
                          \/ \E user \in {cert'.in.user, Nil} :
                                ScopeFor(cert'.in, user) \in approvals'
      BY <3>6 DEF ApprovalUnavoidable
    <3>8. SetRestricts(eff) /\ Enforcement(eff) = "enforce"
      BY <3>6, <3>7 DEF CertEnforced
    <3>9. in.purpose = "oneshot" /\ cert'.cert.forceCommand = in.command
      BY <3>5, <3>7 DEF Certificate
    <3>10. c \in Parts(eff, in.command) /\ Gated(eff, c)
      BY <3>7, <3>9 DEF Parts, shellParse, Gated
    <3>11. WaiverMatches(in) \in BOOLEAN
      BY DEF WaiverMatches
    <3>12. in.approved \/ WaiverMatches(in)
      BY <3>3, <3>4, <3>5, <3>8, <3>9, <3>10, <3>11, GatedMeans
    <3>13. WaiverMatches(in) =>
              \E user \in {in.user, Nil} : ScopeFor(in, user) \in approvals
      BY <1>2, WaiverMeans DEF WaiverInv
    <3>. QED  BY <2>1, <3>5, <3>12, <3>13, Zenon
  <2>5. cert' = cert \/ cert' = NoCert \/ \E s \in Signs : SignIntent(s) /\ cert' # NoCert
    BY <1>2 DEF Next, vars, handleSign, Widen, SupersedeWaiver, AddWaiver, GrantCheck,
                GrantAdd, Revoke, Purge, reload, Tick, Restart
  <2>. QED  BY <2>2, <2>3, <2>4, <2>5
<1>3. WaiverInv /\ [Next]_vars => WaiverInv'
  BY WaiverStep
<1>. QED  BY <1>1, <1>2, <1>3, WaiverInit, PTL DEF Spec
=============================================================================
