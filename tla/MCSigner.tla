------------------------------ MODULE MCSigner ------------------------------
(***************************************************************************)
(* A small instance of Signer: one target behind a bastion, a broker, the  *)
(* control plane as trusted forwarder and an administrator.  "^ls" also    *)
(* matches the compound command, which only shell_parse takes apart.       *)
(***************************************************************************)
EXTENDS Signer, TLC

MCTexts == {"", "ls", "reboot", "ls;reboot", "ls-newline-reboot"}
MCPatterns == {"^ls", "reboot", "("}
MCMatches == {<<"^ls", "ls">>, <<"^ls", "ls;reboot">>, <<"^ls", "ls-newline-reboot">>,
              <<"reboot", "reboot">>, <<"reboot", "ls;reboot">>}
MCExtract == ("" :> {}) @@ ("ls" :> {"ls"}) @@ ("reboot" :> {"reboot"})
             @@ ("ls;reboot" :> {"ls", "reboot"}) @@ ("ls-newline-reboot" :> {"ls", "reboot"})

Off == [mode |-> "off", enforcement |-> "enforce", allow |-> {}, deny |-> {},
        requireApproval |-> {}, shellParse |-> FALSE]
AllowLs == [Off EXCEPT !.mode = "allowlist", !.allow = {"^ls"}, !.shellParse = TRUE]
AllowAll == [Off EXCEPT !.mode = "allowlist", !.allow = {"^ls", "reboot"}]
DenyReboot == [Off EXCEPT !.mode = "denylist", !.deny = {"reboot"}, !.shellParse = TRUE]
Gate == [Off EXCEPT !.requireApproval = {"reboot"}]
Broken == [Off EXCEPT !.mode = "denylist", !.deny = {"("}]
Audited(cp) == [cp EXCEPT !.enforcement = "audit"]

Web(cp) == [allowAsBastion |-> FALSE, allowedCallers |-> {}, allowSudo |-> TRUE,
            allowedSudoUsers |-> {}, allowPTY |-> FALSE, allowFileTransfer |-> FALSE,
            groups |-> {"prod"}, jump |-> "hop", maxTTL |-> 0, commandPolicy |-> cp]
Hop == [Web(Off) EXCEPT !.allowAsBastion = TRUE, !.jump = Nil, !.groups = {"edge"},
                        !.maxTTL = 1]

Config(cp, named, group) ==
    [hosts |-> ("web" :> Web(cp)) @@ ("hop" :> Hop),
     library |-> ("named" :> named),
     groupPolicies |-> (group :> {"named"}),
     callers |-> ("agent" :> {"prod", "edge"}) @@ (DefaultKey :> {}),
     forwarders |-> {"cp"}, reloadCallers |-> {"admin"}]

MCConfigs == {Config(AllowLs, Gate, "prod"),              \* listed, reboot gated
              Config(Audited(AllowAll), Gate, "prod"),    \* enforce wins
              Config(DenyReboot, Gate, "edge"),           \* invalid: the bastion is gated
              Config(DenyReboot, Audited(Gate), "prod"),  \* default allow
              Config(Audited(AllowLs), Off, "prod"),      \* audit only
              Config(Broken, Off, "prod")}                \* invalid

Plain == [caller |-> "agent", host |-> "web", role |-> "target", purpose |-> "oneshot",
          mode |-> "exec", command |-> "reboot", ttl |-> 0, sudo |-> FALSE,
          sudoUser |-> Nil, pty |-> FALSE, fileTransfer |-> FALSE, dryRun |-> FALSE,
          approved |-> FALSE, user |-> "alice", groups |-> Nil]
Direct(in) == [cn |-> "agent", onBehalfOf |-> Nil, approved |-> TRUE, learn |-> TRUE,
               intent |-> in]
Forwarded(in, learn) == [cn |-> "cp", onBehalfOf |-> "agent", approved |-> TRUE,
                         learn |-> learn, intent |-> in]

MCRequests ==
    {Direct(Plain),
     Direct([Plain EXCEPT !.user = "bob"]),
     Direct([Plain EXCEPT !.sudo = TRUE, !.sudoUser = "root"]),
     Direct([Plain EXCEPT !.command = "ls;reboot", !.user = Nil]),
     Direct([Plain EXCEPT !.command = "ls"]),
     Direct([Plain EXCEPT !.command = "ls-newline-reboot"]),
     Direct([Plain EXCEPT !.purpose = "session", !.mode = "exec", !.command = ""]),
     Direct([Plain EXCEPT !.purpose = "session", !.mode = "shell", !.command = ""]),
     Direct([Plain EXCEPT !.role = "bastion", !.host = "hop", !.ttl = 2]),
     Direct([Plain EXCEPT !.role = "bastion"]),
     Forwarded(Plain, TRUE),
     Forwarded([Plain EXCEPT !.user = Nil], TRUE),
     Forwarded([Plain EXCEPT !.sudo = TRUE], FALSE),
     Forwarded([Plain EXCEPT !.dryRun = TRUE], TRUE)}

MCGrantables == {[id |-> 0, host |-> "web", allow |-> {"reboot"}, waive |-> "",
                  caller |-> "agent", user |-> Nil, sudo |-> Nil, expires |-> 0]}
=============================================================================
