--------------------------- MODULE MCSignerConfig ---------------------------
(* A host behind a bastion, one administrator, and edits that meet.        *)
EXTENDS SignerConfig

CONSTANTS web, gw, r1, r2, admin, lost

MCInitial ==
    [hosts |-> [h \in {web, gw} |->
        IF h = web THEN [bastion |-> FALSE, jump |-> gw, mode |-> "allowlist", allow |-> {r1}]
        ELSE [bastion |-> TRUE, jump |-> NoHost, mode |-> "off", allow |-> {}]],
     ca_keys |-> [k \in {} |-> lost], callers |-> [c \in {} |-> {}],
     reload_callers |-> {admin}, sign_rate |-> 0]

\* Two edits of one host, and one of the bastion, which buildState rejects.
MCEdits == {[caller |-> admin, host |-> web, pattern |-> r2, add |-> TRUE],
            [caller |-> admin, host |-> web, pattern |-> r1, add |-> FALSE],
            [caller |-> admin, host |-> gw, pattern |-> r1, add |-> TRUE]}

\* One command of each kind: harmless, dangling jump, lost key.
MCCommands ==
    {[op |-> "host add", name |-> web, force |-> TRUE, given |-> {"allow"},
      entry |-> [bastion |-> FALSE, jump |-> NoHost, mode |-> "off", allow |-> {r1, r2}]],
     [op |-> "host remove", name |-> gw],
     [op |-> "ca-keys add", name |-> "_default", force |-> FALSE, entry |-> lost],
     [op |-> "ca-keys remove", name |-> "_default"],
     [op |-> "callers add", name |-> admin, force |-> FALSE, entry |-> {}],
     [op |-> "callers remove", name |-> admin]}

\* What an operator may save: another rate, and nobody may reload.
MCSaved == {[MCInitial EXCEPT !.sign_rate = 1, !.reload_callers = {}]}
=============================================================================
