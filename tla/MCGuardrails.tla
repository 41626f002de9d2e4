---------------------------- MODULE MCGuardrails ----------------------------
(* A trusted forwarder with an end user and a broker of its own name: six  *)
(* requests that differ in subject, host, program and kind.                *)
EXTENDS Guardrails, TLC

CONSTANTS fwd, plain, u, h1, h2, h3

ls == <<"ls", "-l">>
id == <<"id">>
MCCommands == {<<>>, ls, id}

Ask(b, h, c, k) == [broker |-> b, user |-> u, host |-> h, command |-> c, kind |-> k]
MCAsks == {Ask(fwd, h1, ls, "sign"), Ask(fwd, h2, ls, "preflight"), Ask(fwd, h1, id, "sign"),
           Ask(fwd, h3, <<>>, "sign"), Ask(plain, h1, ls, "sign"), Ask(fwd, h2, id, "dry run")}

Symmetry == Permutations(Reqs)
=============================================================================
