------------------------ MODULE ShellSession_proofs ------------------------
(***************************************************************************)
(* What a persistent shell returns, for any number of callers and commands *)
(* and any limit on the output.  Until the session is marked broken there  *)
(* is at most one command between Exec and Exec: written, running, or      *)
(* ended with its marker on the way.                                       *)
(***************************************************************************)
EXTENDS ShellSession, FiniteSetTheorems, SequenceTheorems, TLAPS

-----------------------------------------------------------------------------
(* The inductive invariant.                                                *)

ExecState == [pc: {"idle", "lock", "write", "wait"}, cmd: Commands, out: Seq(Commands)]

ShellTypes ==
    /\ broken \in BOOLEAN /\ done \in BOOLEAN /\ open \in BOOLEAN
    /\ exec \in [Callers -> ExecState]
    /\ mu \in Callers \cup {None}
    /\ reader \in LineRes \cup {[kind |-> "reading"], [kind |-> "exited"]}
    /\ buf \in [text: Seq(Commands), truncated: BOOLEAN]
    /\ stdin \in Seq(Commands) /\ stdout \in Seq(LineRes) /\ stderr \in Seq(Commands)
    /\ shell \in [pc: {"idle", "running", "exited"}, cmd: Commands]
    /\ emitted \in [Commands -> [out: Nat, err: Nat]]
    /\ next \in Nat

\* Whoever is past the lock has the mutex and a session that works; only Close and
\* a cancelled command, which breaks the session, close the channel.
LockInv ==
    /\ \A e \in Callers : exec[e].pc \in {"write", "wait"} <=> mu = e
    /\ mu # None => ~broken
    /\ done => ~open
    /\ ~open => done \/ broken
    /\ \A e \in Callers : exec[e].pc = "wait" => open
    /\ \A e \in Callers : exec[e].pc \in {"lock", "write"} => Len(exec[e].out) = 0

\* Commands are numbered apart, and those that were not written yet have not
\* printed anything.
Untouched(c) == /\ emitted[c].out = 0 /\ emitted[c].err = 0
                /\ \A i \in 1..Len(stderr) : stderr[i] # c
FreshInv ==
    /\ \A e \in Callers : exec[e].pc # "idle" =>
          /\ exec[e].cmd < next
          /\ \A f \in Callers : f # e /\ exec[f].pc # "idle" => exec[f].cmd # exec[e].cmd
    /\ ~broken => /\ \A c \in Commands : c >= next => Untouched(c)
                  /\ \A e \in Callers : exec[e].pc \in {"lock", "write"} => Untouched(exec[e].cmd)

Body == {"text", "long"}
Ends == {"marker", "tail", "mangled"}

\* The shell is gone, and no end marker is on its way.
Gone ==
    /\ shell.pc = "exited"
    /\ reader.kind \notin Ends
    /\ \A i \in 1..Len(stdout) : stdout[i].kind \notin Ends

\* Nothing is under way; the stream of a session that was closed may have ended.
InStep ==
    /\ shell.pc = "idle" /\ stdin = <<>> /\ stdout = <<>>
    /\ reader.kind = "reading" \/ (~open /\ reader.kind \in {"eof", "exited"})

\* What the reader holds, in lines.
InHand == IF reader.kind = "reading" THEN 0 ELSE 1
Counts(kind) == IF kind = "tail" THEN 1 ELSE 0

NotStarted(c, out) ==
    /\ stdin = <<c>> /\ shell.pc = "idle" /\ stdout = <<>> /\ reader.kind = "reading"
    /\ Len(out) = 0 /\ emitted[c].out = 0
Running(c, out) ==
    /\ stdin = <<>> /\ shell.pc = "running" /\ shell.cmd = c
    /\ reader.kind \in Body \cup {"reading"}
    /\ \A i \in 1..Len(stdout) : stdout[i].kind \in Body
    /\ Len(out) + InHand + Len(stdout) = emitted[c].out
EndInFlight(c, out) ==
    /\ stdin = <<>> /\ shell.pc = "idle"
    /\ Len(stdout) > 0
    /\ reader.kind \in Body \cup {"reading"}
    /\ \A i \in 1..Len(stdout) : IF i = Len(stdout) THEN stdout[i].kind \in Ends
                                 ELSE stdout[i].kind \in Body
    /\ Len(out) + InHand + Len(stdout) + Counts(stdout[Len(stdout)].kind) = emitted[c].out + 1
EndInHand(c, out) ==
    /\ stdin = <<>> /\ shell.pc = "idle" /\ stdout = <<>>
    /\ reader.kind \in Ends
    /\ Len(out) + Counts(reader.kind) = emitted[c].out

\* Command c is the only one under way, and out is what Exec has of its output.
Only(c, out) ==
    /\ reader.kind # "reading" => reader.cmd = c
    /\ \A i \in 1..Len(stdout) : stdout[i].cmd = c
    /\ \A i \in 1..Len(out) : out[i] = c
    /\ NotStarted(c, out) \/ Running(c, out) \/ EndInFlight(c, out) \/ EndInHand(c, out)

FlowInv ==
    /\ \A e \in Callers : exec[e].pc = "wait" => Gone \/ Only(exec[e].cmd, exec[e].out)
    /\ ~broken /\ (\A e \in Callers : exec[e].pc # "wait") => Gone \/ InStep

\* The stderr of the command that has the lock is captured, in flight, or known to
\* be cut.
ErrInv ==
    \A e \in Callers : exec[e].pc \in {"write", "wait"} =>
        \/ buf.truncated
        \/ CountOf(exec[e].cmd, buf.text) + CountOf(exec[e].cmd, stderr)
              = emitted[exec[e].cmd].err

ShInv == ShellTypes /\ LockInv /\ FreshInv /\ FlowInv /\ ErrInv

-----------------------------------------------------------------------------
(* Counting the chunks of one command.                                     *)

\* The chunks of c at finitely many places.
LEMMA CountType ==
    ASSUME NEW c, NEW s \in Seq(Commands)
    PROVE  /\ IsFiniteSet({i \in DOMAIN s : s[i] = c}) /\ CountOf(c, s) \in Nat
           /\ (\A i \in 1..Len(s) : s[i] # c) => CountOf(c, s) = 0
<1>1. DOMAIN s = 1..Len(s) /\ Len(s) \in Nat
  BY LenProperties
<1>2. IsFiniteSet(1..Len(s))
  BY <1>1, FS_Interval
<1>3. {i \in DOMAIN s : s[i] = c} \in SUBSET (1..Len(s))
  BY <1>1
<1>4. IsFiniteSet({i \in DOMAIN s : s[i] = c})
  BY <1>2, <1>3, FS_Subset
<1>5. CountOf(c, s) \in Nat
  BY <1>4, FS_CardinalityType DEF CountOf
<1>6. ASSUME \A i \in 1..Len(s) : s[i] # c PROVE CountOf(c, s) = 0
  <2>1. {i \in DOMAIN s : s[i] = c} = {}
    BY <1>1, <1>6
  <2> QED
    BY <2>1, FS_EmptySet DEF CountOf
<1> QED
  BY <1>4, <1>5, <1>6

\* One more chunk at the end.
LEMMA CountAppend ==
    ASSUME NEW c, NEW s \in Seq(Commands), NEW x \in Commands
    PROVE  CountOf(c, Append(s, x)) = CountOf(c, s) + (IF x = c THEN 1 ELSE 0)
<1> DEFINE t == Append(s, x)
           n == Len(s)
           S == {i \in DOMAIN s : s[i] = c}
           T == {i \in DOMAIN t : t[i] = c}
<1>1. /\ n \in Nat /\ DOMAIN s = 1..n /\ t \in Seq(Commands)
      /\ Len(t) = n + 1 /\ t[n + 1] = x /\ \A i \in 1..n : t[i] = s[i]
  BY LenProperties, AppendProperties
<1>2. DOMAIN t = 1..(n + 1)
  BY <1>1, LenProperties
<1>3. IsFiniteSet(S) /\ Cardinality(S) \in Nat
  BY CountType, FS_CardinalityType
<1>4. CountOf(c, t) = Cardinality(T) /\ CountOf(c, s) = Cardinality(S)
  BY DEF CountOf
<1> HIDE DEF t
<1>5. CASE x = c
  <2>1. T = S \cup {n + 1} /\ n + 1 \notin S
    BY <1>1, <1>2, <1>5
  <2> HIDE DEF S, T
  <2>2. Cardinality(T) = Cardinality(S) + 1
    BY <2>1, <1>3, FS_AddElement
  <2> QED
    BY <2>2, <1>4, <1>5 DEF t
<1>6. CASE x # c
  <2>1. T = S
    BY <1>1, <1>2, <1>6
  <2> HIDE DEF S, T
  <2> QED
    BY <2>1, <1>3, <1>4, <1>6 DEF t
<1> QED
  BY <1>5, <1>6

\* One chunk less at the beginning.
LEMMA CountTail ==
    ASSUME NEW c, NEW s \in Seq(Commands), s # <<>>
    PROVE  CountOf(c, s) = CountOf(c, Tail(s)) + (IF Head(s) = c THEN 1 ELSE 0)
<1> DEFINE t == Tail(s)
           n == Len(s)
           S == {i \in DOMAIN s : s[i] = c}
           T == {i \in DOMAIN t : t[i] = c}
<1>1. /\ n \in Nat \ {0} /\ DOMAIN s = 1..n /\ t \in Seq(Commands) /\ Head(s) = s[1]
      /\ Len(t) = n - 1 /\ \A i \in 1..(n - 1) : t[i] = s[i + 1]
  BY LenProperties, EmptySeq, HeadTailProperties
<1>2. DOMAIN t = 1..(n - 1)
  BY <1>1, LenProperties
<1>3. /\ IsFiniteSet(S) /\ Cardinality(S) \in Nat
      /\ IsFiniteSet(T) /\ Cardinality(T) \in Nat
  BY <1>1, CountType, FS_CardinalityType
<1> HIDE DEF t
<1>4. Cardinality(S \ {1}) = Cardinality(T)
  <2> DEFINE f == [i \in T |-> i + 1]
  <2>1. f \in [T -> S \ {1}]
    BY <1>1, <1>2
  <2>2. \A i, j \in T : f[i] = f[j] => i = j
    BY <1>1, <1>2
  <2>3. \A k \in S \ {1} : \E i \in T : f[i] = k
    <3> SUFFICES ASSUME NEW k \in S \ {1} PROVE \E i \in T : f[i] = k
      OBVIOUS
    <3>1. k - 1 \in T /\ f[k - 1] = k
      BY <1>1, <1>2
    <3> QED
      BY <3>1
  <2> HIDE DEF f
  <2>4. f \in Bijection(T, S \ {1})
    BY <2>1, <2>2, <2>3 DEF Bijection, Injection, Surjection, IsInjective
  <2>5. ExistsBijection(T, S \ {1})
    BY <2>4 DEF ExistsBijection
  <2> QED
    BY <2>5, <1>3, FS_Bijection
<1>5. Cardinality(S \ {1}) = IF 1 \in S THEN Cardinality(S) - 1 ELSE Cardinality(S)
  BY <1>3, FS_RemoveElement
<1>6. 1 \in S <=> Head(s) = c
  BY <1>1
<1>7. Cardinality(S) = Cardinality(T) + (IF Head(s) = c THEN 1 ELSE 0)
  BY <1>3, <1>4, <1>5, <1>6
<1> QED
  BY <1>7 DEF CountOf, t

-----------------------------------------------------------------------------
(* Exec's steps.                                                           *)

\* While nothing happens to stderr, the captured part stays complete.
LEMMA SameErr ==
    ASSUME ErrInv, UNCHANGED <<buf, stderr, emitted>>,
           \A e \in Callers : exec'[e].pc \in {"write", "wait"} =>
               exec[e].pc \in {"write", "wait"} /\ exec'[e].cmd = exec[e].cmd
    PROVE  ErrInv'
BY DEF ErrInv

\* While no line moves, the flow of lines is what it was.
LEMMA SameFlow ==
    ASSUME UNCHANGED <<open, reader, stdin, shell, stdout, emitted>>
    PROVE  /\ Gone' <=> Gone
           /\ InStep' <=> InStep
           /\ \A c, out : Only(c, out)' <=> Only(c, out)
<1>1. InHand' = InHand
  BY DEF InHand
<1>2. ASSUME NEW c, NEW out
      PROVE  /\ NotStarted(c, out)' <=> NotStarted(c, out)
             /\ Running(c, out)' <=> Running(c, out)
             /\ EndInFlight(c, out)' <=> EndInFlight(c, out)
             /\ EndInHand(c, out)' <=> EndInHand(c, out)
  BY <1>1 DEF NotStarted, Running, EndInFlight, EndInHand
<1> QED
  BY <1>2 DEF Gone, InStep, Only

\* Exec returns: nobody waits, and all but the flow of lines is as it should be.
LEMMA ReturnFacts ==
    ASSUME ShInv, NEW e \in Callers, NEW r, Return(e, r), mu \in {None, e},
           UNCHANGED <<done, buf, stdin, shell, stdout, stderr, emitted, next>>,
           broken' \in BOOLEAN, open' \in BOOLEAN, broken => broken', open' => open,
           ~open' => ~open \/ broken',
           reader' \in LineRes \cup {[kind |-> "reading"], [kind |-> "exited"]}
    PROVE  /\ ShellTypes' /\ LockInv' /\ FreshInv' /\ ErrInv'
           /\ \A f \in Callers : exec'[f].pc # "wait"
<1> USE DEF ShInv
<1>1. exec' = [exec EXCEPT ![e] = Idle] /\ mu' = None
  BY DEF Return
<1>2. Idle \in ExecState /\ Idle.pc = "idle"
  <2>1. 0 \in Commands /\ <<>> \in Seq(Commands)
    BY ShellAssumption, EmptySeq DEF Commands
  <2> QED
    BY <2>1 DEF Idle, ExecState
<1>3. exec'[e].pc = "idle" /\ \A f \in Callers : f # e => exec'[f] = exec[f]
  BY <1>1, <1>2 DEF ShellTypes
<1>4. ShellTypes'
  BY <1>1, <1>2 DEF ShellTypes
<1>5. \A f \in Callers : exec'[f].pc \notin {"write", "wait"}
  BY <1>3, ShellAssumption DEF LockInv
<1>6. LockInv'
  <2>1. \A f \in Callers : exec'[f].pc \in {"lock", "write"} => Len(exec'[f].out) = 0
    BY <1>3 DEF LockInv
  <2> QED
    BY <1>1, <1>5, <2>1, ShellAssumption DEF LockInv
<1>7. FreshInv'
  <2>1. \A c : Untouched(c)' <=> Untouched(c)
    BY DEF Untouched
  <2>2. ASSUME NEW f \in Callers, exec'[f].pc # "idle"
        PROVE  f # e /\ exec'[f] = exec[f]
    BY <1>3, <2>2
  <2> QED
    BY <2>1, <2>2 DEF FreshInv
<1>8. ErrInv'
  BY <1>5, SameErr
<1> QED
  BY <1>4, <1>5, <1>6, <1>7, <1>8

\* A step that returns nothing to a caller says nothing about output.
Silent == result' = NoResult \/ ~result'.ok

\* A new Exec, with a number of its own.
LEMMA RequestStep ==
    ASSUME ShInv, NEW e \in Callers, Request(e)
    PROVE  ShInv' /\ Silent
<1> USE DEF ShInv
<1>1. /\ exec[e].pc = "idle" /\ next <= MaxCommands /\ next' = next + 1
      /\ exec' = [exec EXCEPT ![e] = [Idle EXCEPT !.pc = "lock", !.cmd = next]]
      /\ UNCHANGED <<mu, broken, done, open, reader, buf, stdin, shell, stdout, stderr, emitted>>
      /\ result' = NoResult
  BY DEF Request, remote
<1> DEFINE v == [pc |-> "lock", cmd |-> next, out |-> <<>>]
<1>2. [Idle EXCEPT !.pc = "lock", !.cmd = next] = v
  <2> DEFINE u == [Idle EXCEPT !.pc = "lock"]
  <2>1. u = [pc |-> "lock", cmd |-> 0, out |-> <<>>]
    BY DEF Idle
  <2>2. [u EXCEPT !.cmd = next] = v
    <3> HIDE DEF u
    <3> QED
      BY <2>1
  <2> QED
    BY <2>2, Zenon
<1>3. next \in Commands /\ next \in Nat
  BY <1>1, ShellAssumption DEF ShellTypes, Commands
<1>4. v \in ExecState
  BY <1>3, EmptySeq DEF ExecState
<1>5. /\ exec'[e].pc = "lock" /\ exec'[e].cmd = next /\ Len(exec'[e].out) = 0
      /\ \A f \in Callers : f # e => exec'[f] = exec[f]
  <2>1. v.pc = "lock" /\ v.cmd = next /\ Len(v.out) = 0
    BY EmptySeq
  <2> HIDE DEF v
  <2>2. exec'[e] = v /\ \A f \in Callers : f # e => exec'[f] = exec[f]
    BY <1>1, <1>2 DEF ShellTypes
  <2> QED
    BY <2>1, <2>2
<1>6. ShellTypes'
  <2> HIDE DEF v
  <2> QED
    BY <1>1, <1>2, <1>3, <1>4 DEF ShellTypes
<1>7. LockInv'
  BY <1>1, <1>5 DEF LockInv
<1>8. FreshInv'
  <2>1. \A c : Untouched(c)' <=> Untouched(c)
    BY <1>1 DEF Untouched
  <2>2. \A f \in Callers : exec[f].cmd \in Nat
    BY DEF ShellTypes, ExecState, Commands
  <2>3. ASSUME NEW f \in Callers, exec'[f].pc # "idle"
        PROVE  /\ exec'[f].cmd < next'
               /\ \A g \in Callers : g # f /\ exec'[g].pc # "idle" => exec'[g].cmd # exec'[f].cmd
    BY <1>1, <1>3, <1>5, <2>2, <2>3 DEF FreshInv
  <2>4. ASSUME ~broken', NEW c \in Commands, c >= next' PROVE Untouched(c)'
    <3>1. c \in Nat
      BY DEF Commands
    <3> QED
      BY <1>1, <1>3, <2>1, <2>4, <3>1 DEF FreshInv
  <2>5. ASSUME ~broken', NEW f \in Callers, exec'[f].pc \in {"lock", "write"}
        PROVE  Untouched(exec'[f].cmd)
    <3>1. CASE f = e
      <4>1. Untouched(next)
        BY <1>1, <1>3, <2>5 DEF FreshInv
      <4> QED
        BY <1>5, <3>1, <4>1
    <3>2. CASE f # e
      BY <1>1, <1>5, <2>5, <3>2 DEF FreshInv
    <3> QED
      BY <3>1, <3>2
  <2>6. ASSUME ~broken', NEW f \in Callers, exec'[f].pc \in {"lock", "write"}
        PROVE  Untouched(exec[f].cmd)'
    <3>1. Untouched(exec'[f].cmd)
      BY <2>5, <2>6
    <3> QED
      BY <1>1, <3>1 DEF Untouched
  <2> QED
    BY <2>3, <2>4, <2>6 DEF FreshInv
<1>9. FlowInv'
  <2>1. \A f \in Callers : exec'[f].pc = "wait" => exec[f].pc = "wait" /\ exec'[f] = exec[f]
    BY <1>5
  <2>2. (\A f \in Callers : exec'[f].pc # "wait") => \A f \in Callers : exec[f].pc # "wait"
    BY <1>1, <1>5
  <2> QED
    BY <1>1, <2>1, <2>2, SameFlow DEF FlowInv
<1>10. ErrInv'
  BY <1>1, <1>5, SameErr
<1> QED
  BY <1>1, <1>6, <1>7, <1>8, <1>9, <1>10 DEF Silent

\* Commands go on, and nothing is printed.
LEMMA SameFresh ==
    ASSUME FreshInv, UNCHANGED <<emitted, stderr, next>>, ~broken' => ~broken,
           \A e \in Callers :
               /\ exec'[e].pc # "idle" => exec[e].pc # "idle" /\ exec'[e].cmd = exec[e].cmd
               /\ exec'[e].pc \in {"lock", "write"} => exec[e].pc \in {"lock", "write"}
    PROVE  FreshInv'
<1>1. ASSUME NEW e \in Callers, ~broken', exec'[e].pc \in {"lock", "write"}
      PROVE  Untouched(exec[e].cmd)'
  <2>1. Untouched(exec[e].cmd) /\ exec'[e].cmd = exec[e].cmd
    BY <1>1 DEF FreshInv
  <2> QED
    BY <2>1 DEF Untouched
<1>2. \A c : Untouched(c)' <=> Untouched(c)
  BY DEF Untouched
<1> QED
  BY <1>1, <1>2 DEF FreshInv

\* Exec gets the mutex of a session that works, or is refused by a broken one.
LEMMA LockStep ==
    ASSUME ShInv, NEW e \in Callers, Lock(e)
    PROVE  ShInv' /\ Silent
<1> USE DEF ShInv
<1>1. /\ exec[e].pc = "lock" /\ mu = None
      /\ UNCHANGED <<broken, done, open, reader, stdin, shell, stdout, stderr, emitted, next>>
  BY DEF Lock, remote
<1>2. CASE broken
  <2>1. Return(e, Failed) /\ UNCHANGED buf
    BY <1>2 DEF Lock
  <2>2. /\ ShellTypes' /\ LockInv' /\ FreshInv' /\ ErrInv'
        /\ \A f \in Callers : exec'[f].pc # "wait"
    BY <1>1, <2>1, ReturnFacts DEF ShellTypes
  <2>3. FlowInv'
    BY <1>1, <1>2, <2>2 DEF FlowInv
  <2> QED
    BY <2>1, <2>2, <2>3 DEF Silent, Return, Failed
<1>3. CASE ~broken
  <2>1. /\ mu' = e /\ exec' = [exec EXCEPT ![e].pc = "write"] /\ buf' = EmptyBuf
        /\ result' = NoResult
    BY <1>3 DEF Lock
  <2>2. /\ exec' \in [Callers -> ExecState]
        /\ exec'[e].pc = "write" /\ exec'[e].cmd = exec[e].cmd /\ exec'[e].out = exec[e].out
        /\ \A f \in Callers : f # e => exec'[f] = exec[f]
    BY <2>1 DEF ShellTypes, ExecState
  <2>3. buf' \in [text: Seq(Commands), truncated: BOOLEAN]
    BY <2>1, EmptySeq DEF EmptyBuf
  <2>4. ShellTypes'
    BY <1>1, <2>1, <2>2, <2>3 DEF ShellTypes
  <2>5. LockInv'
    BY <1>1, <1>3, <2>1, <2>2, ShellAssumption DEF LockInv
  <2>6. FreshInv'
    BY <1>1, <2>2, SameFresh
  <2>7. FlowInv'
    <3>1. \A f \in Callers : exec'[f].pc # "wait" /\ exec[f].pc # "wait"
      BY <1>1, <2>2, ShellAssumption DEF LockInv
    <3> QED
      BY <1>1, <1>3, <3>1, SameFlow DEF FlowInv
  <2>8. ErrInv'
    <3> SUFFICES ASSUME NEW f \in Callers, exec'[f].pc \in {"write", "wait"}
                 PROVE  CountOf(exec'[f].cmd, buf'.text) + CountOf(exec'[f].cmd, stderr')
                           = emitted'[exec'[f].cmd].err
      BY DEF ErrInv
    <3>1. f = e
      BY <1>1, <2>2, ShellAssumption DEF LockInv
    <3> DEFINE c == exec[e].cmd
    <3>2. exec'[f].cmd = c /\ Untouched(c) /\ stderr \in Seq(Commands)
      BY <1>1, <1>3, <2>2, <3>1 DEF FreshInv, ShellTypes
    <3>3. CountOf(c, stderr) = 0 /\ emitted[c].err = 0
      BY <3>2, CountType DEF Untouched
    <3>4. CountOf(c, <<>>) = 0
      <4>1. <<>> \in Seq(Commands) /\ \A i \in 1..Len(<<>>) : <<>>[i] # c
        BY EmptySeq
      <4> QED
        BY <4>1, CountType
    <3>5. buf'.text = <<>>
      BY <2>1 DEF EmptyBuf
    <3> HIDE DEF c
    <3> QED
      BY <1>1, <3>2, <3>3, <3>4, <3>5
  <2> QED
    BY <2>1, <2>4, <2>5, <2>6, <2>7, <2>8 DEF Silent
<1> QED
  BY <1>2, <1>3

\* The command goes to a shell that is in step, or gone; or the write fails.
LEMMA WriteStep ==
    ASSUME ShInv, NEW e \in Callers, Write(e)
    PROVE  ShInv' /\ Silent
<1> USE DEF ShInv
<1>1. /\ exec[e].pc = "write" /\ mu = e /\ ~broken
      /\ \A f \in Callers : exec[f].pc # "wait"
      /\ UNCHANGED <<broken, done, open, reader, buf, shell, stdout, stderr, emitted, next>>
  BY ShellAssumption DEF Write, LockInv
<1>2. CASE /\ open /\ stdin' = Append(stdin, exec[e].cmd)
           /\ exec' = [exec EXCEPT ![e].pc = "wait"]
           /\ result' = NoResult /\ UNCHANGED <<mu, phase>>
  <2>1. /\ exec' \in [Callers -> ExecState] /\ exec[e].cmd \in Commands
        /\ exec'[e].pc = "wait" /\ exec'[e].cmd = exec[e].cmd /\ exec'[e].out = exec[e].out
        /\ \A f \in Callers : f # e => exec'[f] = exec[f]
    BY <1>2 DEF ShellTypes, ExecState
  <2>2. stdin' \in Seq(Commands)
    BY <1>2, <2>1, AppendProperties DEF ShellTypes
  <2>3. ShellTypes'
    BY <1>1, <1>2, <2>1, <2>2 DEF ShellTypes
  <2>4. LockInv'
    BY <1>1, <1>2, <2>1 DEF LockInv
  <2>5. FreshInv'
    BY <1>1, <2>1, SameFresh
  <2>6. ErrInv'
    BY <1>1, <2>1, SameErr
  <2>7. Gone' \/ Only(exec[e].cmd, exec[e].out)'
    <3>1. CASE Gone
      BY <1>1, <3>1 DEF Gone
    <3>2. CASE InStep
      <4> DEFINE c == exec[e].cmd
      <4>1. emitted[c].out = 0
        BY <1>1 DEF FreshInv, Untouched
      <4>2. stdin' = <<c>>
        BY <1>2, <3>2 DEF InStep
      <4>3. Len(exec'[e].out) = 0
        BY <1>1, <2>1 DEF LockInv
      <4>0. reader.kind = "reading"
        BY <1>2, <3>2 DEF InStep
      <4>4. NotStarted(exec[e].cmd, exec[e].out)'
        BY <1>1, <2>1, <3>2, <4>0, <4>1, <4>2, <4>3 DEF NotStarted, InStep
      <4> QED
        BY <1>1, <3>2, <4>0, <4>3, <4>4 DEF Only, InStep
    <3> QED
      BY <1>1, <3>1, <3>2 DEF FlowInv
  <2>8. FlowInv'
    BY <1>1, <2>1, <2>7 DEF FlowInv
  <2> QED
    BY <1>2, <2>3, <2>4, <2>5, <2>6, <2>8 DEF Silent
<1>3. CASE Return(e, Failed) /\ UNCHANGED stdin
  <2>1. /\ ShellTypes' /\ LockInv' /\ FreshInv' /\ ErrInv'
        /\ \A f \in Callers : exec'[f].pc # "wait"
    BY <1>1, <1>3, ReturnFacts DEF ShellTypes
  <2>2. FlowInv'
    BY <1>1, <1>3, <2>1, SameFlow DEF FlowInv
  <2> QED
    BY <1>3, <2>1, <2>2 DEF Silent, Return, Failed
<1> QED
  BY <1>2, <1>3 DEF Write

\* A deadline or a cancelled context breaks the session.
LEMMA BreakStep ==
    ASSUME ShInv, NEW e \in Callers, Deadline(e) \/ Cancel(e)
    PROVE  ShInv' /\ Silent
<1> USE DEF ShInv
<1>1. /\ mu = e /\ broken' = TRUE /\ open' \in {open, FALSE}
      /\ UNCHANGED <<done, reader, buf, stdin, shell, stdout, stderr, emitted, next>>
      /\ Return(e, Failed)
  BY DEF Deadline, Cancel, LockInv, remote
<1>2. /\ ShellTypes' /\ LockInv' /\ FreshInv' /\ ErrInv'
      /\ \A f \in Callers : exec'[f].pc # "wait"
  <2>1. broken' \in BOOLEAN /\ broken'
    BY <1>1
  <2>2. open' \in BOOLEAN /\ (open' => open)
    <3>1. CASE open' = open
      BY <3>1 DEF ShellTypes
    <3>2. CASE open' = FALSE
      BY <3>2
    <3> QED
      BY <1>1, <3>1, <3>2
  <2>3. PICK r : Return(e, r)
    BY <1>1
  <2> QED
    BY <1>1, <2>1, <2>2, <2>3, ReturnFacts DEF ShellTypes
<1>3. FlowInv'
  BY <1>1, <1>2 DEF FlowInv
<1>4. Silent
  BY <1>1 DEF Silent, Return, Failed
<1> QED
  BY <1>2, <1>3, <1>4

\* Close takes the mutex, so no Exec is waiting.
LEMMA CloseStep ==
    ASSUME ShInv, Close
    PROVE  ShInv' /\ Silent
<1> USE DEF ShInv
<1>1. /\ mu = None /\ open' = FALSE /\ done' = TRUE /\ result' = NoResult
      /\ UNCHANGED <<mu, broken, exec, reader, buf, stdin, shell, stdout, stderr, emitted, next>>
  BY DEF Close, remote
<1>2. ShellTypes'
  BY <1>1 DEF ShellTypes
<1>3. LockInv'
  BY <1>1, ShellAssumption DEF LockInv
<1>4. FreshInv' /\ ErrInv'
  BY <1>1, SameFresh, SameErr
<1>5. \A e \in Callers : exec[e].pc # "wait"
  BY <1>1, ShellAssumption DEF LockInv
<1>6. (Gone => Gone') /\ (InStep => InStep')
  BY <1>1 DEF Gone, InStep
<1>7. FlowInv'
  BY <1>1, <1>5, <1>6 DEF FlowInv
<1> QED
  BY <1>1, <1>2, <1>3, <1>4, <1>7 DEF Silent

-----------------------------------------------------------------------------
(* The goroutines, the shell and the network.                              *)

\* What follows for the lock and the numbers when only lines and chunks move.
LEMMA SameExecs ==
    ASSUME ShInv, UNCHANGED <<mu, broken, done, open, exec, next>>
    PROVE  /\ LockInv'
           /\ UNCHANGED <<emitted, stderr>> => FreshInv'
           /\ UNCHANGED <<emitted, stderr, buf>> => ErrInv'
<1> USE DEF ShInv
<1>1. LockInv'
  BY DEF LockInv
<1>2. ASSUME UNCHANGED <<emitted, stderr>> PROVE FreshInv'
  BY <1>2, SameFresh
<1>3. ASSUME UNCHANGED <<emitted, stderr, buf>> PROVE ErrInv'
  BY <1>3, SameErr
<1> QED
  BY <1>1, <1>2, <1>3

\* sshd ends the shell of a closed channel, which nobody waits for.
LEMMA HangUpStep ==
    ASSUME ShInv, HangUp
    PROVE  ShInv' /\ Silent
<1> USE DEF ShInv
<1>1. /\ ~open /\ shell' = [shell EXCEPT !.pc = "exited"] /\ result' = NoResult
      /\ UNCHANGED <<mu, broken, done, open, exec, reader, buf, stdin, stdout, stderr, emitted, next>>
  BY DEF HangUp
<1>2. shell' \in [pc: {"idle", "running", "exited"}, cmd: Commands] /\ shell'.pc = "exited"
  BY <1>1 DEF ShellTypes
<1>3. ShellTypes'
  BY <1>1, <1>2 DEF ShellTypes
<1>4. LockInv' /\ FreshInv' /\ ErrInv'
  BY <1>1, SameExecs
<1>5. \A e \in Callers : exec[e].pc # "wait"
  BY <1>1 DEF LockInv
<1>6. InStep => Gone'
  BY <1>1, <1>2, EmptySeq DEF InStep, Gone, Ends
<1>7. Gone => Gone'
  BY <1>1, <1>2 DEF Gone
<1>8. FlowInv'
  BY <1>1, <1>5, <1>6, <1>7 DEF FlowInv
<1> QED
  BY <1>1, <1>3, <1>4, <1>8 DEF Silent

\* The reader gives up on a line of a closed session.
LEMMA ReleasedStep ==
    ASSUME ShInv, Released
    PROVE  ShInv' /\ Silent
<1> USE DEF ShInv
<1>1. /\ reader \in LineRes /\ done /\ reader' = [kind |-> "exited"] /\ result' = NoResult
      /\ UNCHANGED <<mu, broken, done, open, exec, buf, stdin, shell, stdout, stderr, emitted, next>>
  BY DEF Released, remote
<1>2. ShellTypes'
  BY <1>1 DEF ShellTypes
<1>3. LockInv' /\ FreshInv' /\ ErrInv'
  BY <1>1, SameExecs
<1>4. \A e \in Callers : exec[e].pc # "wait"
  BY <1>1 DEF LockInv
<1>5. InStep => InStep'
  BY <1>1 DEF InStep, LockInv
<1>6. Gone => Gone'
  BY <1>1 DEF Gone, Ends
<1>7. FlowInv'
  BY <1>1, <1>4, <1>5, <1>6 DEF FlowInv
<1> QED
  BY <1>1, <1>2, <1>3, <1>7 DEF Silent

\* The reader takes the next line, or sees the end of the stream.
LEMMA ReadLineStep ==
    ASSUME ShInv, ReadLine
    PROVE  ShInv' /\ Silent
<1> USE DEF ShInv
<1>1. /\ reader.kind = "reading" /\ result' = NoResult
      /\ UNCHANGED <<mu, broken, done, open, exec, buf, stdin, shell, stderr, emitted, next>>
  BY DEF ReadLine
<1>2. LockInv' /\ FreshInv' /\ ErrInv'
  BY <1>1, SameExecs
<1>3. CASE stdout # <<>> /\ reader' = Head(stdout) /\ stdout' = Tail(stdout)
  <2> DEFINE n == Len(stdout)
  <2>1. /\ n \in Nat \ {0} /\ reader' = stdout[1] /\ stdout[1] \in LineRes
        /\ stdout' \in Seq(LineRes) /\ Len(stdout') = n - 1
        /\ \A i \in 1..Len(stdout') : stdout'[i] = stdout[i + 1]
    <3>1. stdout \in Seq(LineRes)
      BY DEF ShellTypes
    <3>2. n \in Nat /\ n # 0
      BY <1>3, <3>1, EmptySeq, LenProperties
    <3>3. Head(stdout) = stdout[1] /\ Head(stdout) \in LineRes
      BY <1>3, <3>1, HeadTailProperties
    <3>4. /\ Tail(stdout) \in Seq(LineRes) /\ Len(Tail(stdout)) = n - 1
          /\ \A i \in 1..Len(Tail(stdout)) : Tail(stdout)[i] = stdout[i + 1]
      BY <1>3, <3>1, HeadTailProperties
    <3> QED
      BY <1>3, <3>2, <3>3, <3>4
  <2> HIDE DEF n
  <2>2. ShellTypes'
    BY <1>1, <2>1 DEF ShellTypes
  <2>3. ~InStep
    BY <1>3 DEF InStep
  <2>4. Gone => Gone'
    BY <1>1, <2>1 DEF Gone, n
  <2>5. InHand = 0 /\ InHand' = 1
    BY <1>1, <2>1 DEF InHand, LineRes, Kinds
  <2>6. ASSUME NEW e \in Callers, Only(exec[e].cmd, exec[e].out)
        PROVE  Only(exec[e].cmd, exec[e].out)'
    <3> DEFINE c == exec[e].cmd
               out == exec[e].out
    <3>1. /\ ~NotStarted(c, out) /\ ~EndInHand(c, out)
      BY <1>3 DEF NotStarted, EndInHand
    <3>2. /\ Len(out) \in Nat /\ emitted[c].out \in Nat
      BY LenProperties DEF ShellTypes, ExecState
    <3>3. /\ exec'[e].cmd = c /\ exec'[e].out = out
      BY <1>1
    <3>4. /\ reader'.cmd = c /\ \A i \in 1..Len(stdout') : stdout'[i].cmd = c
          /\ \A i \in 1..Len(out) : out[i] = c
      BY <2>1, <2>6 DEF Only, n
    <3>5. CASE Running(c, out)
      <4>1. Running(c, out)'
        BY <1>1, <2>1, <2>5, <3>2, <3>5 DEF Running, Body, n
      <4> QED
        BY <3>3, <3>4, <4>1 DEF Only
    <3>6. CASE EndInFlight(c, out) /\ n = 1
      <4>1. EndInHand(c, out)'
        <5>1. stdout' = <<>>
          BY <2>1, <3>6, EmptySeq
        <5>2. reader'.kind \in Ends /\ Counts(reader'.kind) = Counts(stdout[n].kind)
          BY <2>1, <3>6 DEF EndInFlight, n
        <5>3. Counts(reader'.kind) \in Nat
          BY DEF Counts
        <5>4. Len(out) + Counts(reader'.kind) = emitted[c].out
          BY <2>5, <3>2, <3>6, <5>2, <5>3 DEF EndInFlight, n
        <5> QED
          BY <1>1, <3>6, <5>1, <5>2, <5>4 DEF EndInHand, EndInFlight
      <4> QED
        BY <3>3, <3>4, <4>1 DEF Only
    <3>7. CASE EndInFlight(c, out) /\ n # 1
      <4>1. EndInFlight(c, out)'
        <5>1. Counts(stdout[n].kind) \in Nat /\ stdout'[Len(stdout')] = stdout[n]
          BY <2>1, <3>7 DEF Counts
        <5>2. reader'.kind \in Body
          BY <2>1, <3>7 DEF EndInFlight, n
        <5>3. \A i \in 1..Len(stdout') : IF i = Len(stdout') THEN stdout'[i].kind \in Ends
                                         ELSE stdout'[i].kind \in Body
          BY <2>1, <3>7 DEF EndInFlight, n
        <5>4. Len(out) + InHand' + Len(stdout') + Counts(stdout[n].kind) = emitted[c].out + 1
          BY <2>1, <2>5, <3>2, <3>7, <5>1 DEF EndInFlight, n
        <5> QED
          BY <1>1, <2>1, <3>7, <5>1, <5>2, <5>3, <5>4 DEF EndInFlight
      <4> QED
        BY <3>3, <3>4, <4>1 DEF Only
    <3> QED
      BY <2>6, <3>1, <3>5, <3>6, <3>7 DEF Only
  <2>7. FlowInv'
    BY <1>1, <2>3, <2>4, <2>6 DEF FlowInv
  <2> QED
    BY <1>1, <1>2, <2>2, <2>7 DEF Silent
<1>4. CASE /\ ~open \/ (stdout = <<>> /\ shell.pc = "exited")
           /\ reader' = [cmd |-> 0, kind |-> "eof"]
           /\ UNCHANGED stdout
  <2>1. reader' \in LineRes
    BY <1>4, ShellAssumption DEF LineRes, Kinds, Commands
  <2>2. ShellTypes'
    BY <1>1, <1>4, <2>1 DEF ShellTypes
  <2>3. CASE open
    <3>1. Gone'
      BY <1>1, <1>4, <2>3, EmptySeq DEF Gone, Ends
    <3> QED
      BY <1>1, <1>2, <2>2, <3>1 DEF Silent, FlowInv
  <2>4. CASE ~open
    <3>1. \A e \in Callers : exec[e].pc # "wait"
      BY <2>4 DEF LockInv
    <3>2. (Gone => Gone') /\ (InStep => InStep')
      BY <1>1, <1>4, <2>4 DEF Gone, InStep, Ends
    <3>3. FlowInv'
      BY <1>1, <3>1, <3>2 DEF FlowInv
    <3> QED
      BY <1>1, <1>2, <2>2, <3>3 DEF Silent
  <2> QED
    BY <2>3, <2>4
<1> QED
  BY <1>3, <1>4 DEF ReadLine

\* A chunk moves from the channel to the capture, which keeps it or notes the loss.
LEMMA DrainStep ==
    ASSUME ShInv, Drain
    PROVE  ShInv' /\ Silent
<1> USE DEF ShInv
<1>1. /\ stderr # <<>> /\ stderr' = Tail(stderr) /\ buf' = Captured(Head(stderr))
      /\ result' = NoResult
      /\ UNCHANGED <<mu, broken, done, open, exec, reader, stdin, shell, stdout, emitted, next>>
  BY DEF Drain
<1> DEFINE x == Head(stderr)
<1>2. /\ stderr \in Seq(Commands) /\ x \in Commands /\ stderr' \in Seq(Commands)
      /\ Len(stderr') = Len(stderr) - 1 /\ Len(stderr) \in Nat
      /\ \A i \in 1..Len(stderr') : stderr'[i] = stderr[i + 1]
  BY <1>1, HeadTailProperties, LenProperties DEF ShellTypes
<1>3. /\ buf' \in [text: Seq(Commands), truncated: BOOLEAN]
      /\ buf.truncated => buf'.truncated
      /\ buf'.truncated \/ buf'.text = Append(buf.text, x)
  <2>1. buf \in [text: Seq(Commands), truncated: BOOLEAN]
    BY DEF ShellTypes
  <2>2. Append(buf.text, x) \in Seq(Commands)
    BY <1>2, <2>1, AppendProperties
  <2>3. CASE Len(buf.text) < maxOutput
    <3>1. buf' = [buf EXCEPT !.text = Append(buf.text, x)]
      BY <1>1, <2>3 DEF Captured
    <3> DEFINE t == Append(buf.text, x)
    <3> HIDE DEF t
    <3>2. buf' = [buf EXCEPT !.text = t]
      BY <3>1 DEF t
    <3>3. t \in Seq(Commands)
      BY <2>2 DEF t
    <3>4. buf'.text = t /\ (buf.truncated => buf'.truncated) /\
          buf' \in [text: Seq(Commands), truncated: BOOLEAN]
      BY <2>1, <3>2, <3>3
    <3> QED
      BY <3>4 DEF t
  <2>4. CASE ~(Len(buf.text) < maxOutput)
    <3>1. buf' = [buf EXCEPT !.truncated = TRUE]
      BY <1>1, <2>4 DEF Captured
    <3> QED
      BY <2>1, <3>1
  <2> QED
    BY <2>3, <2>4
<1> HIDE DEF x
<1>4. ShellTypes'
  BY <1>1, <1>2, <1>3 DEF ShellTypes
<1>5. LockInv'
  BY <1>1, SameExecs
<1>6. FreshInv'
  <2>1. ASSUME NEW c, Untouched(c) PROVE Untouched(c)'
    BY <1>1, <1>2, <2>1 DEF Untouched
  <2>2. ASSUME NEW e \in Callers, Untouched(exec[e].cmd) PROVE Untouched(exec[e].cmd)'
    BY <1>1, <1>2, <2>2 DEF Untouched
  <2> QED
    BY <1>1, <2>1, <2>2 DEF FreshInv
<1>7. FlowInv'
  BY <1>1, SameFlow DEF FlowInv
<1>8. ErrInv'
  <2> SUFFICES ASSUME NEW e \in Callers, exec[e].pc \in {"write", "wait"}, ~buf'.truncated
               PROVE  CountOf(exec[e].cmd, buf'.text) + CountOf(exec[e].cmd, stderr')
                         = emitted[exec[e].cmd].err
    BY <1>1 DEF ErrInv
  <2> DEFINE c == exec[e].cmd
  <2>1. /\ buf'.text = Append(buf.text, x) /\ buf.text \in Seq(Commands) /\ ~buf.truncated
    BY <1>3 DEF ShellTypes
  <2>2. CountOf(c, buf.text) + CountOf(c, stderr) = emitted[c].err
    BY <2>1 DEF ErrInv
  <2> HIDE DEF c
  <2>3. CountOf(c, buf'.text) = CountOf(c, buf.text) + (IF x = c THEN 1 ELSE 0)
    BY <1>2, <2>1, CountAppend
  <2>4. CountOf(c, stderr) = CountOf(c, stderr') + (IF x = c THEN 1 ELSE 0)
    BY <1>1, <1>2, CountTail DEF x
  <2>5. CountOf(c, buf.text) \in Nat /\ CountOf(c, stderr') \in Nat
    BY <1>2, <2>1, CountType
  <2>6. CountOf(c, buf'.text) + CountOf(c, stderr') = emitted[c].err
    BY <2>2, <2>3, <2>4, <2>5
  <2> QED
    BY <2>6 DEF c
<1> QED
  BY <1>1, <1>4, <1>5, <1>6, <1>7, <1>8 DEF Silent

\* In a broken session nothing depends on what the shell does.
LEMMA BrokenStep ==
    ASSUME ShInv, broken, ShellTypes', UNCHANGED <<mu, broken, done, open, exec, next>>
    PROVE  ShInv'
<1> USE DEF ShInv
<1>1. \A e \in Callers : exec[e].pc \notin {"write", "wait"}
  BY ShellAssumption DEF LockInv
<1>2. LockInv'
  BY SameExecs
<1>3. FreshInv'
  BY DEF FreshInv
<1>4. FlowInv' /\ ErrInv'
  BY <1>1 DEF FlowInv, ErrInv
<1> QED
  BY <1>2, <1>3, <1>4

\* The command that runs in a working session is the one that Exec waits for.
LEMMA WhoRuns ==
    ASSUME ShInv, shell.pc = "running", ~broken
    PROVE  \E e \in Callers :
               /\ exec[e].pc = "wait" /\ mu = e /\ shell.cmd = exec[e].cmd
               /\ Only(exec[e].cmd, exec[e].out) /\ Running(exec[e].cmd, exec[e].out)
<1> USE DEF ShInv
<1>1. ~Gone /\ ~InStep
  BY DEF Gone, InStep
<1>2. PICK e \in Callers : exec[e].pc = "wait"
  BY <1>1 DEF FlowInv
<1>3. mu = e
  BY <1>2 DEF LockInv
<1>4. Only(exec[e].cmd, exec[e].out)
  BY <1>1, <1>2 DEF FlowInv
<1>5. Running(exec[e].cmd, exec[e].out)
  BY <1>4 DEF Only, NotStarted, EndInFlight, EndInHand
<1> QED
  BY <1>2, <1>3, <1>4, <1>5 DEF Running

\* When the command that Exec waits for prints, no other command is concerned.
LEMMA PrintsFresh ==
    ASSUME ShInv, NEW e \in Callers, exec[e].pc = "wait", shell.cmd = exec[e].cmd,
           UNCHANGED <<broken, exec, next>>,
           \A c \in Commands : c # shell.cmd => emitted'[c] = emitted[c],
           Len(stderr) \in Nat,
           \/ UNCHANGED stderr
           \/ /\ Len(stderr') = Len(stderr) + 1
              /\ \A i \in 1..Len(stderr) : stderr'[i] = stderr[i]
              /\ stderr'[Len(stderr) + 1] = shell.cmd
    PROVE  FreshInv'
<1> USE DEF ShInv
<1>1. ASSUME NEW c \in Commands, c # shell.cmd, Untouched(c)
      PROVE  Untouched(c)'
  <2>1. emitted'[c] = emitted[c]
    BY <1>1
  <2>2. \A i \in 1..Len(stderr') : stderr'[i] # c
    <3>1. CASE UNCHANGED stderr
      BY <1>1, <3>1 DEF Untouched
    <3>2. CASE /\ Len(stderr') = Len(stderr) + 1
               /\ \A i \in 1..Len(stderr) : stderr'[i] = stderr[i]
               /\ stderr'[Len(stderr) + 1] = shell.cmd
      <4> SUFFICES ASSUME NEW i \in 1..Len(stderr') PROVE stderr'[i] # c
        OBVIOUS
      <4>1. i \in 1..Len(stderr) \/ i = Len(stderr) + 1
        BY <3>2
      <4> QED
        BY <1>1, <3>2, <4>1 DEF Untouched
    <3> QED
      BY <3>1, <3>2
  <2> QED
    BY <1>1, <2>1, <2>2 DEF Untouched
<1>2. /\ \A f \in Callers : exec[f].cmd \in Commands
      /\ next \in Nat /\ Commands \subseteq Nat
  BY DEF ShellTypes, ExecState, Commands
<1>3. ASSUME ~broken, NEW c \in Commands, c >= next PROVE Untouched(c)'
  BY <1>1, <1>2, <1>3 DEF FreshInv
<1>4. ASSUME ~broken, NEW f \in Callers, exec[f].pc \in {"lock", "write"}
      PROVE  Untouched(exec[f].cmd)'
  <2>1. PICK c \in Commands : c = exec[f].cmd
    BY <1>2
  <2>2. Untouched(c)'
    BY <1>1, <1>4, <2>1 DEF FreshInv
  <2> QED
    BY <2>1, <2>2
<1> QED
  BY <1>3, <1>4 DEF FreshInv

\* What a command prints is the last line of stdout.
LEMMA PrintsLine ==
    ASSUME ShellTypes, NEW kind \in Kinds, Prints(kind)
    PROVE  /\ shell.pc = "running" /\ UNCHANGED <<stdin, stderr>>
           /\ stdout' \in Seq(LineRes) /\ Len(stdout) \in Nat /\ Len(stdout') = Len(stdout) + 1
           /\ \A i \in 1..Len(stdout) : stdout'[i] = stdout[i]
           /\ stdout'[Len(stdout')].cmd = shell.cmd /\ stdout'[Len(stdout')].kind = kind
<1> DEFINE l == [cmd |-> shell.cmd, kind |-> kind]
<1>1. l \in LineRes /\ l.cmd = shell.cmd /\ l.kind = kind
  BY DEF ShellTypes, LineRes
<1>2. /\ stdout \in Seq(LineRes) /\ stdout' = Append(stdout, l)
      /\ shell.pc = "running" /\ UNCHANGED <<stdin, stderr>>
  BY DEF ShellTypes, Prints
<1> HIDE DEF l
<1>3. /\ stdout' \in Seq(LineRes) /\ Len(stdout') = Len(stdout) + 1 /\ Len(stdout) \in Nat
      /\ \A i \in 1..Len(stdout) : stdout'[i] = stdout[i]
      /\ stdout'[Len(stdout) + 1] = l
  BY <1>1, <1>2, AppendProperties, LenProperties
<1> QED
  BY <1>1, <1>2, <1>3

\* The history counts a printed line for the command that runs.
LEMMA CountOutFacts ==
    ASSUME ShellTypes, CountOut
    PROVE  /\ emitted' \in [Commands -> [out: Nat, err: Nat]]
           /\ emitted'[shell.cmd].out = emitted[shell.cmd].out + 1
           /\ \A c \in Commands : emitted'[c].err = emitted[c].err
           /\ \A c \in Commands : c # shell.cmd => emitted'[c] = emitted[c]
<1>1. shell.cmd \in Commands /\ emitted \in [Commands -> [out: Nat, err: Nat]]
  BY DEF ShellTypes
<1>2. emitted' = [emitted EXCEPT ![shell.cmd].out = @ + 1]
  BY DEF CountOut
<1> QED
  BY <1>1, <1>2

\* And a chunk of stderr.
LEMMA CountErrFacts ==
    ASSUME ShellTypes, emitted' = [emitted EXCEPT ![shell.cmd].err = @ + 1]
    PROVE  /\ emitted' \in [Commands -> [out: Nat, err: Nat]]
           /\ emitted'[shell.cmd].err = emitted[shell.cmd].err + 1
           /\ \A c \in Commands : emitted'[c].out = emitted[c].out
           /\ \A c \in Commands : c # shell.cmd => emitted'[c] = emitted[c]
<1>1. shell.cmd \in Commands /\ emitted \in [Commands -> [out: Nat, err: Nat]]
  BY DEF ShellTypes
<1> QED
  BY <1>1

\* A line of stdout says nothing about stderr.
LEMMA PrintsErr ==
    ASSUME ShInv, UNCHANGED <<exec, buf, stderr>>,
           \A c \in Commands : emitted'[c].err = emitted[c].err
    PROVE  ErrInv'
<1>1. \A e \in Callers : exec[e].cmd \in Commands
  BY DEF ShInv, ShellTypes, ExecState
<1> QED
  BY <1>1 DEF ShInv, ErrInv

\* A command prints a line and goes on.
LEMMA PrintStep ==
    ASSUME ShInv, NEW kind \in Body, Prints(kind), CountOut,
           UNCHANGED <<mu, broken, done, open, exec, reader, buf, next, shell>>
    PROVE  ShInv'
<1> USE DEF ShInv
<1>1. /\ shell.pc = "running" /\ UNCHANGED <<stdin, stderr>>
      /\ stdout' \in Seq(LineRes) /\ Len(stdout) \in Nat /\ Len(stdout') = Len(stdout) + 1
      /\ \A i \in 1..Len(stdout) : stdout'[i] = stdout[i]
      /\ stdout'[Len(stdout')].cmd = shell.cmd /\ stdout'[Len(stdout')].kind = kind
  <2>1. kind \in Kinds
    BY DEF Body, Kinds
  <2> QED
    BY <2>1, PrintsLine
<1>2. /\ emitted' \in [Commands -> [out: Nat, err: Nat]]
      /\ emitted'[shell.cmd].out = emitted[shell.cmd].out + 1
      /\ \A c \in Commands : emitted'[c].err = emitted[c].err
      /\ \A c \in Commands : c # shell.cmd => emitted'[c] = emitted[c]
  BY CountOutFacts
<1>3. ShellTypes'
  BY <1>1, <1>2 DEF ShellTypes
<1>4. CASE broken
  BY <1>3, <1>4, BrokenStep
<1>5. CASE ~broken
  <2>1. PICK e \in Callers :
           /\ exec[e].pc = "wait" /\ mu = e /\ shell.cmd = exec[e].cmd
           /\ Only(exec[e].cmd, exec[e].out) /\ Running(exec[e].cmd, exec[e].out)
    BY <1>1, <1>5, WhoRuns
  <2>2. LockInv' /\ ErrInv'
    BY <1>1, <1>2, SameExecs, PrintsErr
  <2>3. FreshInv'
    <3>1. Len(stderr) \in Nat
      BY LenProperties DEF ShellTypes
    <3> QED
      BY <1>1, <1>2, <2>1, <3>1, PrintsFresh
  <2> DEFINE c == exec[e].cmd
             out == exec[e].out
  <2>4. Len(out) \in Nat /\ emitted[c].out \in Nat /\ InHand \in Nat /\ InHand' = InHand
    BY LenProperties DEF ShellTypes, ExecState, InHand
  <2>5. Running(c, out)'
    <3>1. \A i \in 1..Len(stdout') : stdout'[i].kind \in Body
      BY <1>1, <2>1 DEF Running
    <3>2. Len(out) + InHand' + Len(stdout') = emitted'[c].out
      <4>1. Len(out) + InHand + Len(stdout) = emitted[c].out
        BY <2>1 DEF Running
      <4>2. emitted'[c].out = emitted[c].out + 1
        BY <1>2, <2>1
      <4> HIDE DEF c, out
      <4> QED
        BY <1>1, <2>4, <4>1, <4>2
    <3> QED
      BY <1>1, <2>1, <3>1, <3>2 DEF Running
  <2>6. Only(c, out)'
    <3>1. \A i \in 1..Len(stdout') : stdout'[i].cmd = c
      BY <1>1, <2>1 DEF Only
    <3> QED
      BY <2>1, <2>5, <3>1 DEF Only
  <2>7. FlowInv'
    <3>1. \A f \in Callers : exec[f].pc = "wait" => f = e
      BY <2>1 DEF LockInv
    <3> QED
      BY <2>1, <2>6, <3>1 DEF FlowInv
  <2> QED
    BY <1>3, <2>2, <2>3, <2>7
<1> QED
  BY <1>4, <1>5

\* A command ends: its marker, perhaps behind a last line, is the last thing to come.
LEMMA EndStep ==
    ASSUME ShInv, NEW kind \in Ends, Prints(kind),
           IF kind = "tail" THEN CountOut ELSE UNCHANGED emitted,
           shell' = [shell EXCEPT !.pc = "idle"],
           UNCHANGED <<mu, broken, done, open, exec, reader, buf, next>>
    PROVE  ShInv'
<1> USE DEF ShInv
<1>1. /\ shell.pc = "running" /\ UNCHANGED <<stdin, stderr>>
      /\ stdout' \in Seq(LineRes) /\ Len(stdout) \in Nat /\ Len(stdout') = Len(stdout) + 1
      /\ \A i \in 1..Len(stdout) : stdout'[i] = stdout[i]
      /\ stdout'[Len(stdout')].cmd = shell.cmd /\ stdout'[Len(stdout')].kind = kind
  <2>1. kind \in Kinds
    BY DEF Ends, Kinds
  <2> QED
    BY <2>1, PrintsLine
<1>2. /\ emitted' \in [Commands -> [out: Nat, err: Nat]]
      /\ emitted'[shell.cmd].out = emitted[shell.cmd].out + Counts(kind)
      /\ \A c \in Commands : emitted'[c].err = emitted[c].err
      /\ \A c \in Commands : c # shell.cmd => emitted'[c] = emitted[c]
  <2>1. CASE kind = "tail"
    BY <2>1, CountOutFacts DEF Counts
  <2>2. CASE kind # "tail"
    <3>1. emitted[shell.cmd].out \in Nat
      BY DEF ShellTypes
    <3> QED
      BY <2>2, <3>1 DEF Counts, ShellTypes
  <2> QED
    BY <2>1, <2>2
<1>3. /\ shell' \in [pc: {"idle", "running", "exited"}, cmd: Commands]
      /\ shell'.pc = "idle" /\ shell'.cmd = shell.cmd
  BY DEF ShellTypes
<1>4. ShellTypes'
  BY <1>1, <1>2, <1>3 DEF ShellTypes
<1>5. CASE broken
  BY <1>4, <1>5, BrokenStep
<1>6. CASE ~broken
  <2>1. PICK e \in Callers :
           /\ exec[e].pc = "wait" /\ mu = e /\ shell.cmd = exec[e].cmd
           /\ Only(exec[e].cmd, exec[e].out) /\ Running(exec[e].cmd, exec[e].out)
    BY <1>1, <1>6, WhoRuns
  <2>2. LockInv' /\ ErrInv'
    BY <1>1, <1>2, SameExecs, PrintsErr
  <2>3. FreshInv'
    <3>1. Len(stderr) \in Nat
      BY LenProperties DEF ShellTypes
    <3> QED
      BY <1>1, <1>2, <2>1, <3>1, PrintsFresh
  <2> DEFINE c == exec[e].cmd
             out == exec[e].out
  <2>4. /\ Len(out) \in Nat /\ emitted[c].out \in Nat /\ InHand \in Nat /\ InHand' = InHand
        /\ Counts(kind) \in Nat
    BY LenProperties DEF ShellTypes, ExecState, InHand, Counts
  <2>5. EndInFlight(c, out)'
    <3>1. \A i \in 1..Len(stdout') : IF i = Len(stdout') THEN stdout'[i].kind \in Ends
                                     ELSE stdout'[i].kind \in Body
      BY <1>1, <2>1 DEF Running
    <3>2. Len(out) + InHand' + Len(stdout') + Counts(kind) = emitted'[c].out + 1
      <4>1. Len(out) + InHand + Len(stdout) = emitted[c].out
        BY <2>1 DEF Running
      <4>2. emitted'[c].out = emitted[c].out + Counts(kind)
        BY <1>2, <2>1
      <4> HIDE DEF c, out
      <4> QED
        BY <1>1, <2>4, <4>1, <4>2
    <3> QED
      BY <1>1, <1>3, <2>1, <3>1, <3>2 DEF EndInFlight, Running
  <2>6. Only(c, out)'
    <3>1. \A i \in 1..Len(stdout') : stdout'[i].cmd = c
      BY <1>1, <2>1 DEF Only
    <3> QED
      BY <2>1, <2>5, <3>1 DEF Only
  <2>7. FlowInv'
    <3>1. \A f \in Callers : exec[f].pc = "wait" => f = e
      BY <2>1 DEF LockInv
    <3> QED
      BY <2>1, <2>6, <3>1 DEF FlowInv
  <2> QED
    BY <1>4, <2>2, <2>3, <2>7
<1> QED
  BY <1>5, <1>6

\* The remote shell: start a command, print, write to stderr, end, or exit.
LEMMA ShellStep ==
    ASSUME ShInv, Shell
    PROVE  ShInv' /\ Silent
<1> USE DEF ShInv
<1>1. /\ result' = NoResult
      /\ UNCHANGED <<mu, broken, done, open, exec, reader, buf, next>>
  BY DEF Shell
<1>2. CASE /\ shell.pc = "idle" /\ stdin # <<>>
           /\ shell' = [pc |-> "running", cmd |-> Head(stdin)]
           /\ stdin' = Tail(stdin)
           /\ UNCHANGED <<stdout, stderr, emitted>>
  <2>1. /\ Head(stdin) \in Commands /\ stdin' \in Seq(Commands)
        /\ Len(stdin') = Len(stdin) - 1 /\ Head(stdin) = stdin[1]
    BY <1>2, HeadTailProperties DEF ShellTypes
  <2>2. ShellTypes'
    BY <1>1, <1>2, <2>1 DEF ShellTypes
  <2>3. LockInv' /\ FreshInv' /\ ErrInv'
    BY <1>1, <1>2, SameExecs
  <2>4. ~Gone /\ ~InStep
    BY <1>2 DEF Gone, InStep
  <2>5. ASSUME NEW e \in Callers, exec[e].pc = "wait"
        PROVE  Only(exec[e].cmd, exec[e].out)'
    <3> DEFINE c == exec[e].cmd
               out == exec[e].out
    <3>1. Only(c, out) /\ NotStarted(c, out)
      BY <1>2, <2>4, <2>5 DEF FlowInv, Only, Running, EndInFlight, EndInHand
    <3>2. stdin = <<c>>
      BY <3>1 DEF NotStarted
    <3>3. Len(stdin') = 0 /\ Head(stdin) = c
      BY <2>1, <3>2
    <3>4. stdin' = <<>>
      BY <2>1, <3>3, EmptySeq
    <3>5. Running(c, out)'
      BY <1>1, <1>2, <3>1, <3>3, <3>4, EmptySeq DEF NotStarted, Running, InHand
    <3> QED
      BY <1>1, <1>2, <3>1, <3>5 DEF Only
  <2>6. FlowInv'
    BY <1>1, <2>4, <2>5 DEF FlowInv
  <2> QED
    BY <1>1, <2>2, <2>3, <2>6 DEF Silent
<1>3. CASE (Prints("text") \/ Prints("long")) /\ CountOut /\ UNCHANGED shell
  <2>1. "text" \in Body /\ "long" \in Body
    BY DEF Body
  <2>2. ShInv'
    BY <1>1, <1>3, <2>1, PrintStep
  <2> QED
    BY <1>1, <2>2 DEF Silent
<1>4. CASE /\ shell.pc = "running"
           /\ stderr' = Append(stderr, shell.cmd)
           /\ emitted' = [emitted EXCEPT ![shell.cmd].err = @ + 1]
           /\ UNCHANGED <<shell, stdin, stdout>>
  <2>1. /\ stderr \in Seq(Commands) /\ shell.cmd \in Commands /\ Len(stderr) \in Nat
        /\ stderr' \in Seq(Commands) /\ Len(stderr') = Len(stderr) + 1
        /\ \A i \in 1..Len(stderr) : stderr'[i] = stderr[i]
        /\ stderr'[Len(stderr) + 1] = shell.cmd
    BY <1>4, AppendProperties, LenProperties DEF ShellTypes
  <2>2. /\ emitted' \in [Commands -> [out: Nat, err: Nat]]
        /\ emitted'[shell.cmd].err = emitted[shell.cmd].err + 1
        /\ \A c \in Commands : emitted'[c].out = emitted[c].out
        /\ \A c \in Commands : c # shell.cmd => emitted'[c] = emitted[c]
    BY <1>4, CountErrFacts
  <2>3. ShellTypes'
    BY <1>1, <1>4, <2>1, <2>2 DEF ShellTypes
  <2>4. CASE broken
    BY <1>1, <2>3, <2>4, BrokenStep DEF Silent
  <2>5. CASE ~broken
    <3>1. PICK e \in Callers :
             /\ exec[e].pc = "wait" /\ mu = e /\ shell.cmd = exec[e].cmd
             /\ Only(exec[e].cmd, exec[e].out) /\ Running(exec[e].cmd, exec[e].out)
      BY <1>4, <2>5, WhoRuns
    <3>2. LockInv'
      BY <1>1, SameExecs
    <3>3. FreshInv'
      BY <1>1, <2>1, <2>2, <3>1, PrintsFresh
    <3>4. Only(exec[e].cmd, exec[e].out)'
      <4>1. emitted'[exec[e].cmd].out = emitted[exec[e].cmd].out /\ InHand' = InHand
        BY <1>1, <2>1, <2>2, <3>1 DEF InHand
      <4>2. Running(exec[e].cmd, exec[e].out)'
        BY <1>1, <1>4, <3>1, <4>1 DEF Running
      <4> QED
        BY <1>1, <1>4, <3>1, <4>2 DEF Only
    <3>5. \A f \in Callers : exec[f].pc \in {"write", "wait"} => f = e
      BY <3>1 DEF LockInv
    <3>6. FlowInv'
      BY <1>1, <3>1, <3>4, <3>5 DEF FlowInv
    <3>7. ErrInv'
      <4> DEFINE c == exec[e].cmd
      <4> SUFFICES ASSUME ~buf.truncated
                   PROVE  CountOf(c, buf.text) + CountOf(c, stderr') = emitted'[c].err
        BY <1>1, <3>1, <3>5 DEF ErrInv
      <4>1. CountOf(c, buf.text) + CountOf(c, stderr) = emitted[c].err
        BY <3>1 DEF ErrInv
      <4>2. c = shell.cmd /\ buf.text \in Seq(Commands)
        BY <3>1 DEF ShellTypes
      <4> HIDE DEF c
      <4>3. CountOf(c, stderr') = CountOf(c, stderr) + 1
        BY <1>4, <2>1, <4>2, CountAppend
      <4>4. CountOf(c, buf.text) \in Nat /\ CountOf(c, stderr) \in Nat
        BY <2>1, <4>2, CountType
      <4> QED
        BY <2>2, <4>1, <4>2, <4>3, <4>4
    <3> QED
      BY <1>1, <2>3, <3>2, <3>3, <3>6, <3>7 DEF Silent
  <2> QED
    BY <2>4, <2>5
<1>5. CASE /\ \/ Prints("marker") /\ UNCHANGED emitted
              \/ Prints("tail") /\ CountOut
              \/ Prints("mangled") /\ UNCHANGED emitted
           /\ shell' = [shell EXCEPT !.pc = "idle"]
  <2>1. "marker" \in Ends /\ "tail" \in Ends /\ "mangled" \in Ends
    BY DEF Ends
  <2>2. ShInv'
    BY <1>1, <1>5, <2>1, EndStep
  <2> QED
    BY <1>1, <2>2 DEF Silent
<1>6. CASE /\ shell.pc = "running"
           /\ shell' = [shell EXCEPT !.pc = "exited"]
           /\ UNCHANGED <<stdin, stdout, stderr, emitted>>
  <2>1. shell' \in [pc: {"idle", "running", "exited"}, cmd: Commands] /\ shell'.pc = "exited"
    BY <1>6 DEF ShellTypes
  <2>2. ShellTypes'
    BY <1>1, <1>6, <2>1 DEF ShellTypes
  <2>3. CASE broken
    BY <1>1, <2>2, <2>3, BrokenStep DEF Silent
  <2>4. CASE ~broken
    <3>1. Gone'
      BY <1>1, <1>6, <2>1, <2>4, WhoRuns DEF Running, Gone, Body, Ends
    <3>2. LockInv' /\ FreshInv' /\ ErrInv'
      BY <1>1, <1>6, SameExecs
    <3> QED
      BY <1>1, <2>2, <3>1, <3>2 DEF FlowInv, Silent
  <2> QED
    BY <2>3, <2>4
<1> QED
  BY <1>2, <1>3, <1>4, <1>5, <1>6 DEF Shell

-----------------------------------------------------------------------------
(* Exec receives.                                                          *)

\* What is common to the outcomes: the Exec that waits has the mutex of a working
\* session, and only an overlong or mangled line, or too many, break it.
LEMMA ReceiveFacts ==
    ASSUME ShInv, NEW e \in Callers, Receive(e)
    PROVE  /\ exec[e].pc = "wait" /\ mu = e /\ ~broken /\ reader \in LineRes
           /\ broken' \in BOOLEAN /\ (broken' <=> Desynchronises(e, reader))
           /\ reader' = [kind |-> IF reader.kind \in {"long", "eof"} THEN "exited" ELSE "reading"]
           /\ UNCHANGED <<done, open, buf, stdin, shell, stdout, stderr, emitted, next>>
           /\ Gone \/ Only(exec[e].cmd, exec[e].out)
           /\ \A f \in Callers : exec[f].pc \in {"write", "wait"} => f = e
<1> USE DEF ShInv
<1>1. exec[e].pc = "wait" /\ mu = e /\ ~broken
  BY ShellAssumption DEF Receive, LockInv
<1>2. broken' = (broken \/ Desynchronises(e, reader)) /\ reader \in LineRes
  BY DEF Receive
<1>3. broken' \in BOOLEAN /\ (broken' <=> Desynchronises(e, reader))
  BY <1>1, <1>2 DEF Desynchronises
<1>4. /\ reader' = [kind |-> IF reader.kind \in {"long", "eof"} THEN "exited" ELSE "reading"]
      /\ UNCHANGED <<done, open, buf, stdin, shell, stdout, stderr, emitted, next>>
  BY DEF Receive, remote
<1>5. Gone \/ Only(exec[e].cmd, exec[e].out)
  BY <1>1 DEF FlowInv
<1>6. \A f \in Callers : exec[f].pc \in {"write", "wait"} => f = e
  BY <1>1 DEF LockInv
<1> QED
  BY <1>1, <1>2, <1>3, <1>4, <1>5, <1>6

\* Exec fails: the session is broken, or it was told that the stream has ended.
LEMMA ReceiveFails ==
    ASSUME ShInv, NEW e \in Callers, Receive(e),
           reader.kind \in {"long", "mangled", "eof"} \/ ~Fits(e, reader), Return(e, Failed)
    PROVE  ShInv' /\ Silent
<1> USE DEF ShInv
<1>1. /\ exec[e].pc = "wait" /\ mu = e /\ ~broken /\ reader \in LineRes
      /\ broken' \in BOOLEAN /\ (broken' <=> Desynchronises(e, reader))
      /\ reader' = [kind |-> IF reader.kind \in {"long", "eof"} THEN "exited" ELSE "reading"]
      /\ UNCHANGED <<done, open, buf, stdin, shell, stdout, stderr, emitted, next>>
      /\ Gone \/ Only(exec[e].cmd, exec[e].out)
  BY ReceiveFacts
<1>2. reader' \in {[kind |-> "reading"], [kind |-> "exited"]}
  BY <1>1
<1>3. /\ ShellTypes' /\ LockInv' /\ FreshInv' /\ ErrInv'
      /\ \A f \in Callers : exec'[f].pc # "wait"
  BY <1>1, <1>2, ReturnFacts DEF ShellTypes
<1>4. ASSUME ~broken' PROVE Gone'
  <2>1. reader.kind = "eof"
    BY <1>1, <1>4 DEF Desynchronises
  <2>2. ~Only(exec[e].cmd, exec[e].out)
    BY <2>1 DEF Only, NotStarted, Running, EndInFlight, EndInHand, Body, Ends
  <2>3. reader'.kind = "exited"
    BY <1>1, <2>1
  <2> QED
    BY <1>1, <2>2, <2>3 DEF Gone, Ends
<1>5. FlowInv'
  BY <1>3, <1>4 DEF FlowInv
<1> QED
  BY <1>3, <1>5 DEF Silent, Return, Failed

\* Exec succeeds on the marker of its own command, with all that was printed.
LEMMA ReceiveReturns ==
    ASSUME ShInv, NEW e \in Callers, Receive(e),
           reader.kind \in {"marker", "tail"}, Fits(e, reader),
           Return(e, [ok |-> TRUE, cmd |-> exec[e].cmd, out |-> OutWith(e, reader),
                      code |-> reader.cmd, err |-> buf])
    PROVE  ShInv' /\ OutputIsOwn' /\ StderrNotLostSilently'
<1> USE DEF ShInv
<1> DEFINE c == exec[e].cmd
           out == exec[e].out
<1>1. /\ exec[e].pc = "wait" /\ mu = e /\ ~broken /\ reader \in LineRes
      /\ broken' \in BOOLEAN /\ (broken' <=> Desynchronises(e, reader))
      /\ reader' = [kind |-> IF reader.kind \in {"long", "eof"} THEN "exited" ELSE "reading"]
      /\ UNCHANGED <<done, open, buf, stdin, shell, stdout, stderr, emitted, next>>
      /\ Gone \/ Only(c, out)
  BY ReceiveFacts
<1>2. reader' = [kind |-> "reading"] /\ reader'.kind = "reading"
  BY <1>1
<1>3. PICK r : /\ r = [ok |-> TRUE, cmd |-> exec[e].cmd, out |-> OutWith(e, reader),
                       code |-> reader.cmd, err |-> buf]
               /\ Return(e, r)
  OBVIOUS
<1>4. /\ ShellTypes' /\ LockInv' /\ FreshInv' /\ ErrInv'
      /\ \A f \in Callers : exec'[f].pc # "wait"
  BY <1>1, <1>2, <1>3, ReturnFacts DEF ShellTypes
<1>5. Only(c, out) /\ EndInHand(c, out)
  <2>1. ~Gone
    BY DEF Gone, Ends
  <2>2. Only(c, out)
    BY <1>1, <2>1
  <2>3. reader.kind \notin Body \cup {"reading"}
    BY DEF Body
  <2> QED
    BY <2>2, <2>3 DEF Only, NotStarted, Running, EndInFlight
<1>6. InStep'
  BY <1>1, <1>2, <1>5 DEF InStep, EndInHand
<1>7. FlowInv'
  BY <1>4, <1>6 DEF FlowInv
<1>8. /\ result'.cmd = c /\ result'.code = reader.cmd /\ result'.out = OutWith(e, reader)
      /\ result'.err = buf
  BY <1>3 DEF Return
<1>9. reader.cmd = c
  BY <1>5 DEF Only
<1>10. Len(OutWith(e, reader)) = emitted[c].out
       /\ \A i \in 1..Len(OutWith(e, reader)) : OutWith(e, reader)[i] = c
       /\ OutWith(e, reader) \in Seq(Commands)
  <2>1. out \in Seq(Commands) /\ c \in Commands /\ Len(out) \in Nat
    BY LenProperties DEF ShellTypes, ExecState
  <2>2. \A i \in 1..Len(out) : out[i] = c
    BY <1>5 DEF Only
  <2>3. CASE reader.kind = "tail"
    <3>1. OutWith(e, reader) = Append(out, c)
      BY <1>9, <2>3 DEF OutWith
    <3>2. Len(out) + 1 = emitted[c].out
      BY <1>5, <2>3 DEF EndInHand, Counts
    <3> HIDE DEF c, out
    <3>3. /\ Append(out, c) \in Seq(Commands) /\ Len(Append(out, c)) = Len(out) + 1
          /\ Append(out, c)[Len(out) + 1] = c
          /\ \A i \in 1..Len(out) : Append(out, c)[i] = out[i]
      BY <2>1, AppendProperties
    <3> QED
      BY <2>1, <2>2, <3>1, <3>2, <3>3
  <2>4. CASE reader.kind = "marker"
    <3>1. OutWith(e, reader) = out
      BY <2>4 DEF OutWith
    <3>2. Len(out) = emitted[c].out
      BY <1>5, <2>1, <2>4 DEF EndInHand, Counts
    <3> QED
      BY <2>1, <2>2, <3>1, <3>2
  <2> QED
    BY <2>3, <2>4
<1>11. OutputIsOwn'
  <2>1. DOMAIN OutWith(e, reader) = 1..Len(OutWith(e, reader))
    BY <1>10, LenProperties
  <2> QED
    BY <1>1, <1>8, <1>9, <1>10, <2>1 DEF OutputIsOwn
<1>12. StderrNotLostSilently'
  <2>1. buf.truncated \/ CountOf(c, buf.text) + CountOf(c, stderr) = emitted[c].err
    BY <1>1 DEF ErrInv
  <2> QED
    BY <1>1, <1>8, <2>1 DEF StderrNotLostSilently
<1> QED
  BY <1>4, <1>7, <1>11, <1>12

\* Exec collects a line of its own command.
LEMMA ReceiveText ==
    ASSUME ShInv, NEW e \in Callers, Receive(e), reader.kind = "text", Fits(e, reader),
           exec' = [exec EXCEPT ![e].out = OutWith(e, reader)], UNCHANGED mu
    PROVE  ShInv'
<1> USE DEF ShInv
<1>0. PICK c, out, more : /\ c = exec[e].cmd /\ out = exec[e].out
                          /\ more = Append(out, reader.cmd)
  OBVIOUS
<1>1. /\ exec[e].pc = "wait" /\ mu = e /\ ~broken /\ reader \in LineRes
      /\ broken' \in BOOLEAN /\ (broken' <=> Desynchronises(e, reader))
      /\ reader' = [kind |-> IF reader.kind \in {"long", "eof"} THEN "exited" ELSE "reading"]
      /\ UNCHANGED <<done, open, buf, stdin, shell, stdout, stderr, emitted, next>>
      /\ Gone \/ Only(c, out)
      /\ \A f \in Callers : exec[f].pc \in {"write", "wait"} => f = e
  BY <1>0, ReceiveFacts
<1>2. reader' = [kind |-> "reading"] /\ reader'.kind = "reading" /\ ~broken'
  BY <1>1 DEF Desynchronises
<1>3. /\ out \in Seq(Commands) /\ reader.cmd \in Commands /\ Len(out) \in Nat
      /\ more \in Seq(Commands) /\ Len(more) = Len(out) + 1
      /\ more[Len(out) + 1] = reader.cmd /\ \A i \in 1..Len(out) : more[i] = out[i]
  <2>1. out \in Seq(Commands) /\ reader.cmd \in Commands
    BY <1>0, <1>1 DEF ShellTypes, ExecState, LineRes
  <2> QED
    BY <1>0, <2>1, AppendProperties, LenProperties
<1>4. exec' = [exec EXCEPT ![e].out = more]
  BY <1>0 DEF OutWith
<1>5. /\ exec' \in [Callers -> ExecState]
      /\ exec'[e].pc = "wait" /\ exec'[e].cmd = c /\ exec'[e].out = more
      /\ \A f \in Callers : f # e => exec'[f] = exec[f]
  <2>1. exec \in [Callers -> ExecState] /\ more \in Seq(Commands)
    BY <1>3 DEF ShellTypes
  <2>2. /\ exec' \in [Callers -> ExecState]
        /\ exec'[e].pc = exec[e].pc /\ exec'[e].cmd = exec[e].cmd /\ exec'[e].out = more
        /\ \A f \in Callers : f # e => exec'[f] = exec[f]
    BY <1>4, <2>1 DEF ExecState
  <2> QED
    BY <1>0, <1>1, <2>2
<1>6. ShellTypes'
  BY <1>1, <1>2, <1>5 DEF ShellTypes
<1>7. LockInv'
  <2>1. \A f \in Callers : exec'[f].pc = exec[f].pc
    BY <1>1, <1>5
  <2>2. \A f \in Callers : exec'[f].pc \in {"lock", "write"} => Len(exec'[f].out) = 0
    BY <1>5 DEF LockInv
  <2> QED
    BY <1>1, <1>2, <2>1, <2>2 DEF LockInv
<1>8. FreshInv' /\ ErrInv'
  BY <1>0, <1>1, <1>2, <1>5, SameFresh, SameErr
<1>9. Gone => Gone'
  BY <1>1, <1>2 DEF Gone, Ends
<1>10. InHand = 1 /\ InHand' = 0
  BY <1>2 DEF InHand
<1>11. ASSUME Only(c, out) PROVE Only(c, more)'
  <2>1. /\ reader.cmd = c /\ (\A i \in 1..Len(stdout) : stdout[i].cmd = c)
        /\ (\A i \in 1..Len(out) : out[i] = c)
        /\ Running(c, out) \/ EndInFlight(c, out)
    BY <1>11 DEF Only, NotStarted, EndInHand, Ends
  <2>2. \A i \in 1..Len(more) : more[i] = c
    BY <1>3, <2>1
  <2>3. Len(stdout) \in Nat /\ emitted[c].out \in Nat /\ Len(out) \in Nat
    BY <1>0, <1>3, LenProperties DEF ShellTypes, ExecState
  <2>4. CASE Running(c, out)
    <3>1. Len(more) + InHand' + Len(stdout) = emitted[c].out
      BY <1>3, <1>10, <2>3, <2>4 DEF Running
    <3> QED
      BY <1>1, <1>2, <1>5, <2>1, <2>2, <2>4, <3>1 DEF Running, Only
  <2>5. CASE EndInFlight(c, out)
    <3>1. Counts(stdout[Len(stdout)].kind) \in Nat
      BY DEF Counts
    <3>2. Len(more) + InHand' + Len(stdout) + Counts(stdout[Len(stdout)].kind)
             = emitted[c].out + 1
      BY <1>3, <1>10, <2>3, <2>5, <3>1 DEF EndInFlight
    <3> QED
      BY <1>1, <1>2, <1>5, <2>1, <2>2, <2>5, <3>2 DEF EndInFlight, Only
  <2> QED
    BY <2>1, <2>4, <2>5
<1>12. FlowInv'
  BY <1>1, <1>5, <1>9, <1>11 DEF FlowInv
<1> QED
  BY <1>6, <1>7, <1>8, <1>12

-----------------------------------------------------------------------------
(* The theorems.                                                           *)

\* The opener's no-op is the only command there is at first.
LEMMA ShInit == Init => ShInv /\ OutputIsOwn /\ StderrNotLostSilently
<1> SUFFICES ASSUME Init PROVE ShInv /\ OutputIsOwn /\ StderrNotLostSilently
  OBVIOUS
<1>1. /\ mu = None /\ broken = FALSE /\ done = FALSE /\ open = TRUE
      /\ exec = [e \in Callers |-> IF e = Opener THEN [Idle EXCEPT !.pc = "lock"] ELSE Idle]
      /\ reader = [kind |-> "reading"] /\ buf = EmptyBuf
      /\ stdin = <<>> /\ stdout = <<>> /\ stderr = <<>>
      /\ shell = [pc |-> "idle", cmd |-> 0]
      /\ emitted = [c \in Commands |-> [out |-> 0, err |-> 0]]
      /\ next = 1 /\ result = NoResult
  BY DEF Init
<1>2. 0 \in Commands /\ Commands \subseteq Nat
  BY ShellAssumption DEF Commands
<1> DEFINE v == [Idle EXCEPT !.pc = "lock"]
<1>3. /\ Idle \in ExecState /\ Idle.pc = "idle"
      /\ v \in ExecState /\ v.pc = "lock" /\ v.cmd = 0 /\ Len(v.out) = 0
  <2>1. <<>> \in Seq(Commands) /\ Len(<<>>) = 0
    BY EmptySeq
  <2>2. v = [pc |-> "lock", cmd |-> 0, out |-> <<>>]
    BY DEF Idle
  <2> HIDE DEF v
  <2> QED
    BY <1>2, <2>1, <2>2 DEF Idle, ExecState
<1> HIDE DEF v
<1>4. /\ exec \in [Callers -> ExecState]
      /\ exec[Opener] = v /\ \A e \in Callers : e # Opener => exec[e] = Idle
  <2>1. exec = [e \in Callers |-> IF e = Opener THEN v ELSE Idle]
    BY <1>1 DEF v
  <2> QED
    BY <1>3, <2>1, ShellAssumption
<1>5. buf \in [text: Seq(Commands), truncated: BOOLEAN]
  BY <1>1, EmptySeq DEF EmptyBuf
<1>6. ShellTypes
  BY <1>1, <1>2, <1>4, <1>5, EmptySeq DEF ShellTypes
<1>7. LockInv
  <2>1. \A e \in Callers : /\ exec[e].pc \in {"idle", "lock"}
                           /\ exec[e].pc = "lock" => Len(exec[e].out) = 0
    BY <1>3, <1>4
  <2> QED
    BY <1>1, <2>1, ShellAssumption DEF LockInv
<1>8. \A c \in Commands : Untouched(c)
  BY <1>1, EmptySeq DEF Untouched
<1>9. FreshInv
  <2>1. \A e \in Callers : exec[e].pc # "idle" => e = Opener /\ exec[e].cmd = 0
    BY <1>3, <1>4
  <2>2. \A e \in Callers : exec[e].cmd \in Commands
    BY <1>4 DEF ExecState
  <2> QED
    BY <1>1, <1>2, <1>8, <2>1, <2>2 DEF FreshInv
<1>10. InStep
  BY <1>1 DEF InStep
<1>11. \A e \in Callers : exec[e].pc \notin {"write", "wait"}
  BY <1>3, <1>4
<1>12. FlowInv /\ ErrInv
  BY <1>10, <1>11 DEF FlowInv, ErrInv
<1>13. OutputIsOwn /\ StderrNotLostSilently
  BY <1>1 DEF OutputIsOwn, StderrNotLostSilently, NoResult
<1> QED
  BY <1>6, <1>7, <1>9, <1>12, <1>13 DEF ShInv

\* Every step keeps the invariant, and what it returns is right.
LEMMA ShNext ==
    ShInv /\ OutputIsOwn /\ StderrNotLostSilently /\ [Next]_vars
        => (ShInv /\ OutputIsOwn /\ StderrNotLostSilently)'
<1> SUFFICES ASSUME ShInv, OutputIsOwn, StderrNotLostSilently, [Next]_vars
             PROVE  ShInv' /\ OutputIsOwn' /\ StderrNotLostSilently'
  OBVIOUS
<1>1. Silent => OutputIsOwn' /\ StderrNotLostSilently'
  BY DEF Silent, OutputIsOwn, StderrNotLostSilently, NoResult
<1>2. ASSUME NEW e \in Callers, Request(e) \/ Lock(e) \/ Write(e) \/ Deadline(e) \/ Cancel(e)
      PROVE  ShInv' /\ Silent
  BY <1>2, RequestStep, LockStep, WriteStep, BreakStep
<1>3. ASSUME NEW e \in Callers, Receive(e)
      PROVE  ShInv' /\ OutputIsOwn' /\ StderrNotLostSilently'
  <2>1. \/ /\ reader.kind \in {"long", "mangled", "eof"} \/ ~Fits(e, reader)
           /\ Return(e, Failed)
        \/ /\ reader.kind \in {"marker", "tail"} /\ Fits(e, reader)
           /\ Return(e, [ok |-> TRUE, cmd |-> exec[e].cmd, out |-> OutWith(e, reader),
                         code |-> reader.cmd, err |-> buf])
        \/ /\ reader.kind = "text" /\ Fits(e, reader)
           /\ exec' = [exec EXCEPT ![e].out = OutWith(e, reader)]
           /\ result' = NoResult /\ UNCHANGED mu
    BY <1>3 DEF Receive
  <2>2. CASE /\ reader.kind \in {"long", "mangled", "eof"} \/ ~Fits(e, reader)
             /\ Return(e, Failed)
    BY <1>1, <1>3, <2>2, ReceiveFails
  <2>3. CASE /\ reader.kind \in {"marker", "tail"} /\ Fits(e, reader)
             /\ Return(e, [ok |-> TRUE, cmd |-> exec[e].cmd, out |-> OutWith(e, reader),
                           code |-> reader.cmd, err |-> buf])
    BY <1>3, <2>3, ReceiveReturns
  <2>4. CASE /\ reader.kind = "text" /\ Fits(e, reader)
             /\ exec' = [exec EXCEPT ![e].out = OutWith(e, reader)]
             /\ result' = NoResult /\ UNCHANGED mu
    <3>1. ShInv'
      BY <1>3, <2>4, ReceiveText
    <3> QED
      BY <1>1, <2>4, <3>1 DEF Silent
  <2> QED
    BY <2>1, <2>2, <2>3, <2>4
<1>4. ASSUME Close \/ ReadLine \/ Released \/ Drain \/ Shell \/ HangUp
      PROVE  ShInv' /\ Silent
  BY <1>4, CloseStep, ReadLineStep, ReleasedStep, DrainStep, ShellStep, HangUpStep
<1>5. ASSUME UNCHANGED vars
      PROVE  ShInv' /\ OutputIsOwn' /\ StderrNotLostSilently'
  <2>1. UNCHANGED <<mu, broken, done, open, exec, reader, buf, stdin, shell, stdout, stderr,
                    emitted, next, result>>
    BY <1>5 DEF vars
  <2>2. ShellTypes'
    BY <2>1 DEF ShInv, ShellTypes
  <2>3. LockInv' /\ FreshInv' /\ ErrInv'
    BY <2>1, SameExecs
  <2>4. FlowInv'
    BY <2>1, SameFlow DEF ShInv, FlowInv
  <2>5. OutputIsOwn' /\ StderrNotLostSilently'
    BY <2>1 DEF OutputIsOwn, StderrNotLostSilently
  <2> QED
    BY <2>2, <2>3, <2>4, <2>5 DEF ShInv
<1> QED
  BY <1>1, <1>2, <1>3, <1>4, <1>5 DEF Next

\* The invariant holds in every state of every behaviour.
LEMMA ShInvariant == Spec => [](ShInv /\ OutputIsOwn /\ StderrNotLostSilently)
BY ShInit, ShNext, PTL DEF Spec

\* Exec's result is its own command's, whatever the commands before it did: the exit
\* code, every line that it printed, and no other.
THEOREM ResultsAreOwn == Spec => []OutputIsOwn
BY ShInvariant, PTL

\* A result that lacks stderr of its command says so, or the rest is in flight.
THEOREM StderrIsAccountedFor == Spec => []StderrNotLostSilently
BY ShInvariant, PTL

\* A session that would take another command has nothing left over from the last one.
THEOREM ReadyMeansInStep == Spec => []IdleMeansInStep
<1>1. ShInv => IdleMeansInStep
  <2> SUFFICES ASSUME ShInv, mu = None, ~broken, open
               PROVE  shell.pc = "exited" \/ InStep
    BY DEF IdleMeansInStep, InStep
  <2>1. \A e \in Callers : exec[e].pc # "wait"
    BY ShellAssumption DEF ShInv, LockInv
  <2> QED
    BY <2>1 DEF ShInv, FlowInv, Gone
<1> QED
  BY <1>1, ShInvariant, PTL

\* A command that waits for the mutex of a session that fails or is closed meanwhile
\* never reaches the host.
THEOREM NothingAfterFailure == Spec => NothingRunsAfterFailure
<1>1. ShInv /\ [Next]_vars => [broken \/ done => Len(stdin') <= Len(stdin)]_vars
  <2> SUFFICES ASSUME ShInv, Next, broken \/ done PROVE Len(stdin') <= Len(stdin)
    OBVIOUS
  <2>1. stdin \in Seq(Commands) /\ Len(stdin) \in Nat
    BY LenProperties DEF ShInv, ShellTypes
  <2>2. ASSUME NEW e \in Callers, Write(e) PROVE stdin' = stdin
    <3>1. mu = e /\ ~broken
      BY <2>2, ShellAssumption DEF Write, ShInv, LockInv
    <3>2. ~open
      BY <3>1 DEF ShInv, LockInv
    <3> QED
      BY <2>2, <3>2 DEF Write
  <2>3. CASE stdin' = stdin
    BY <2>1, <2>3
  <2>4. CASE stdin # <<>> /\ stdin' = Tail(stdin)
    <3>1. Len(stdin') = Len(stdin) - 1
      BY <2>1, <2>4, HeadTailProperties
    <3> QED
      BY <2>1, <3>1
  <2>5. stdin' = stdin \/ (stdin # <<>> /\ stdin' = Tail(stdin))
    BY <2>2 DEF Next, Request, Lock, Receive, Deadline, Cancel, Close, ReadLine, Released,
                Drain, Shell, Prints, HangUp, Return, remote
  <2> QED
    BY <2>3, <2>4, <2>5
<1> QED
  BY <1>1, ShInvariant, PTL DEF Spec, NothingRunsAfterFailure
=============================================================================
