---------------------------- MODULE ShellSession ----------------------------
(***************************************************************************)
(* A persistent shell (internal/ssh/shell.go): Exec writes a command and a *)
(* line that prints a random end marker with the exit code, and collects   *)
(* the shell's lines up to that marker.  One goroutine reads stdout into   *)
(* an unbuffered channel, another drains stderr into a buffer; Exec and    *)
(* Close share a mutex.  The shell, the network and the caller's context   *)
(* are the environment.  A line is what printed it: the number of the      *)
(* command and a kind.  Not modelled: the recorder, commands that guess    *)
(* the marker, and jobs that outlive the command that started them.        *)
(***************************************************************************)
EXTENDS Naturals, Sequences, FiniteSets

CONSTANTS
    Callers,      \* goroutines that call Exec
    Opener,       \* the one among them that opens the shell
    None,
    maxOutput,    \* maxOutputBytes, in lines of stdout and in chunks of stderr
    MaxCommands,  \* bound: commands after the opening no-op
    MaxEmit       \* bound: the lines and chunks that one command prints

ASSUME ShellAssumption ==
    /\ Opener \in Callers
    /\ None \notin Callers
    /\ maxOutput \in Nat \ {0} /\ MaxCommands \in Nat /\ MaxEmit \in Nat

VARIABLES
    pty,        \* streams merged, no stderr
    phase,      \* of OpenShell: "sync", then "ready" or "failed"
    mu,         \* holder of ShellSession.mu
    broken,
    done,       \* the done channel is closed
    open,       \* the SSH channel is open on our side
    exec,       \* the local state of each Exec
    reader,     \* shellReader: "reading", "exited", or the line it is sending
    buf,        \* syncBuf: the captured stderr and whether it was cut
    stdin, shell, stdout, stderr,  \* the remote end, and what is in flight
    emitted,    \* history: what each command has printed
    next,       \* the number of the next command
    result      \* history: what the last step made Exec return

vars == <<pty, phase, mu, broken, done, open, exec, reader, buf,
          stdin, shell, stdout, stderr, emitted, next, result>>
remote == <<stdin, shell, stdout, stderr, emitted>>

Commands == 0..MaxCommands
Kinds == {"text", "long", "eof", "marker", "tail", "mangled"}
LineRes == [cmd: Commands, kind: Kinds]
Idle == [pc |-> "idle", cmd |-> 0, out |-> <<>>]
NoResult == [ok |-> FALSE]
EmptyBuf == [text |-> <<>>, truncated |-> FALSE]

\* Everything has its type; a running Exec holds the mutex, and after Close nobody
\* waits for output.
TypeOK ==
    /\ pty \in BOOLEAN /\ broken \in BOOLEAN /\ done \in BOOLEAN /\ open \in BOOLEAN
    /\ phase \in {"sync", "ready", "failed"}
    /\ mu \in Callers \cup {None}
    /\ \A e \in Callers :
          /\ exec[e].pc \in {"idle", "lock", "write", "wait"}
          /\ exec[e].pc \in {"write", "wait"} <=> mu = e
          /\ Len(exec[e].out) <= maxOutput
    /\ reader \in LineRes \cup {[kind |-> "reading"], [kind |-> "exited"]}
    /\ Len(buf.text) <= maxOutput
    /\ done => ~open /\ \A e \in Callers : exec[e].pc # "wait"

Init ==
    /\ pty \in BOOLEAN
    /\ phase = "sync"
    /\ mu = None
    /\ broken = FALSE /\ done = FALSE /\ open = TRUE
    /\ exec = [e \in Callers |-> IF e = Opener THEN [Idle EXCEPT !.pc = "lock"] ELSE Idle]
    /\ reader = [kind |-> "reading"]
    /\ buf = EmptyBuf
    /\ stdin = <<>> /\ stdout = <<>> /\ stderr = <<>>
    /\ shell = [pc |-> "idle", cmd |-> 0]
    /\ emitted = [c \in Commands |-> [out |-> 0, err |-> 0]]
    /\ next = 1
    /\ result = NoResult

-----------------------------------------------------------------------------
(* Exec and Close.                                                         *)

\* Exec returns r and unlocks; OpenShell's own Exec decides whether the shell is up.
Return(e, r) ==
    /\ result' = r
    /\ exec' = [exec EXCEPT ![e] = Idle]
    /\ mu' = None
    /\ phase' = IF phase # "sync" THEN phase ELSE IF r.ok THEN "ready" ELSE "failed"

Failed == [ok |-> FALSE]

Request(e) ==
    /\ phase = "ready" /\ ~done
    /\ exec[e].pc = "idle"
    /\ next <= MaxCommands
    /\ next' = next + 1
    /\ exec' = [exec EXCEPT ![e] = [Idle EXCEPT !.pc = "lock", !.cmd = next]]
    /\ result' = NoResult
    /\ UNCHANGED <<pty, phase, mu, broken, done, open, reader, buf, remote>>

Lock_CheckedEarlier(e) ==
    /\ exec[e].pc = "lock"
    /\ mu = None
    /\ mu' = e
    /\ exec' = [exec EXCEPT ![e].pc = "write"]
    /\ buf' = EmptyBuf
    /\ result' = NoResult
    /\ UNCHANGED <<pty, phase, broken, done, open, reader, remote, next>>

\* A broken session refuses; otherwise the stderr capture starts anew.
Lock(e) ==
    /\ exec[e].pc = "lock"
    /\ mu = None
    /\ IF broken
       THEN Return(e, Failed) /\ UNCHANGED buf
       ELSE /\ mu' = e
            /\ exec' = [exec EXCEPT ![e].pc = "write"]
            /\ buf' = EmptyBuf
            /\ result' = NoResult
            /\ UNCHANGED phase
    /\ UNCHANGED <<pty, broken, done, open, reader, remote, next>>

Write_Blocks(e) ==
    /\ exec[e].pc = "write"
    /\ open
    /\ stdin' = Append(stdin, exec[e].cmd)
    /\ exec' = [exec EXCEPT ![e].pc = "wait"]
    /\ result' = NoResult
    /\ UNCHANGED <<pty, phase, mu, broken, done, open, reader, buf, shell, stdout, stderr,
                   emitted, next>>

\* The write fails on a closed channel; whether we know yet that the shell is gone
\* is up to the network.
Write(e) ==
    /\ exec[e].pc = "write"
    /\ \/ /\ open
          /\ stdin' = Append(stdin, exec[e].cmd)
          /\ exec' = [exec EXCEPT ![e].pc = "wait"]
          /\ result' = NoResult
          /\ UNCHANGED <<mu, phase>>
       \/ /\ ~open \/ shell.pc = "exited"
          /\ Return(e, Failed)
          /\ UNCHANGED stdin
    /\ UNCHANGED <<pty, broken, done, open, reader, buf, shell, stdout, stderr, emitted, next>>

Fits(e, line) == line.kind \in {"text", "tail"} => Len(exec[e].out) < maxOutput

OutWith(e, line) ==
    IF line.kind \in {"text", "tail"} THEN Append(exec[e].out, line.cmd) ELSE exec[e].out

Desynchronises_NotOnOverflow(e, line) == line.kind \in {"long", "mangled"}

\* The error paths that leave output or the marker in flight.
Desynchronises(e, line) == line.kind \in {"long", "mangled"} \/ ~Fits(e, line)

\* A line, the marker, or the reader's last words, received by the waiting Exec.
Receive(e) ==
    LET line == reader IN
    /\ exec[e].pc = "wait"
    /\ line \in LineRes
    /\ broken' = (broken \/ Desynchronises(e, line))
    /\ \/ /\ line.kind \in {"long", "mangled", "eof"} \/ ~Fits(e, line)
          /\ Return(e, Failed)
       \/ /\ line.kind \in {"marker", "tail"} /\ Fits(e, line)
          /\ Return(e, [ok |-> TRUE, cmd |-> exec[e].cmd, out |-> OutWith(e, line),
                        code |-> line.cmd, err |-> buf])
       \/ /\ line.kind = "text" /\ Fits(e, line)
          /\ exec' = [exec EXCEPT ![e].out = OutWith(e, line)]
          /\ result' = NoResult
          /\ UNCHANGED <<mu, phase>>
    /\ reader' = [kind |-> IF line.kind \in {"long", "eof"} THEN "exited" ELSE "reading"]
    /\ UNCHANGED <<pty, done, open, buf, remote, next>>

Deadline_Usable(e) ==
    /\ exec[e].pc = "wait"
    /\ Return(e, Failed)
    /\ UNCHANGED <<pty, broken, done, open, reader, buf, remote, next>>

Deadline(e) ==
    /\ exec[e].pc = "wait"
    /\ broken' = TRUE
    /\ Return(e, Failed)
    /\ UNCHANGED <<pty, done, open, reader, buf, remote, next>>

\* The caller's context ends: the channel is torn down.
Cancel(e) ==
    /\ exec[e].pc = "wait"
    /\ open' = FALSE
    /\ broken' = TRUE
    /\ Return(e, Failed)
    /\ UNCHANGED <<pty, done, reader, buf, remote, next>>

\* By CloseSession, the reaper, closeAll, or an OpenShell that failed.
Close ==
    /\ phase # "sync"
    /\ mu = None
    /\ open' = FALSE
    /\ done' = TRUE
    /\ result' = NoResult
    /\ UNCHANGED <<pty, phase, mu, broken, exec, reader, buf, remote, next>>

-----------------------------------------------------------------------------
(* The two goroutines.                                                     *)

\* A line that is longer than the limit is not passed on.  The stream ends with the
\* shell, and at once, whatever is in flight, when our side is closed.
ReadLine ==
    /\ reader.kind = "reading"
    /\ \/ /\ stdout # <<>>
          /\ reader' = Head(stdout)
          /\ stdout' = Tail(stdout)
       \/ /\ ~open \/ (stdout = <<>> /\ shell.pc = "exited")
          /\ reader' = [cmd |-> 0, kind |-> "eof"]
          /\ UNCHANGED stdout
    /\ result' = NoResult
    /\ UNCHANGED <<pty, phase, mu, broken, done, open, exec, buf, stdin, shell, stderr,
                   emitted, next>>

Released_AtEndOfFile ==
    /\ reader.kind = "eof"
    /\ done
    /\ reader' = [kind |-> "exited"]
    /\ result' = NoResult
    /\ UNCHANGED <<pty, phase, mu, broken, done, open, exec, buf, remote, next>>

\* sendShellLine gives up once done is closed.
Released ==
    /\ reader \in LineRes
    /\ done
    /\ reader' = [kind |-> "exited"]
    /\ result' = NoResult
    /\ UNCHANGED <<pty, phase, mu, broken, done, open, exec, buf, remote, next>>

Captured_Silently(chunk) ==
    IF Len(buf.text) < maxOutput THEN [buf EXCEPT !.text = Append(@, chunk)] ELSE buf

\* syncBuf.Write keeps what fits and remembers that something did not.
Captured(chunk) ==
    IF Len(buf.text) < maxOutput THEN [buf EXCEPT !.text = Append(@, chunk)]
    ELSE [buf EXCEPT !.truncated = TRUE]

Drain ==
    /\ stderr # <<>>
    /\ stderr' = Tail(stderr)
    /\ buf' = Captured(Head(stderr))
    /\ result' = NoResult
    /\ UNCHANGED <<pty, phase, mu, broken, done, open, exec, reader, stdin, shell, stdout,
                   emitted, next>>

-----------------------------------------------------------------------------
(* The remote shell (external).                                            *)

Prints(kind) ==
    /\ shell.pc = "running"
    /\ stdout' = Append(stdout, [cmd |-> shell.cmd, kind |-> kind])
    /\ UNCHANGED <<stdin, stderr>>

MayEmit == emitted[shell.cmd].out + emitted[shell.cmd].err < MaxEmit

CountOut == emitted' = [emitted EXCEPT ![shell.cmd].out = @ + 1]

\* The shell starts a command, which prints and then ends with the marker (behind an
\* unterminated last line, perhaps; a terminal may mangle it), ends the shell, or
\* never ends.
Shell ==
    /\ \/ /\ shell.pc = "idle" /\ stdin # <<>>
          /\ shell' = [pc |-> "running", cmd |-> Head(stdin)]
          /\ stdin' = Tail(stdin)
          /\ UNCHANGED <<stdout, stderr, emitted>>
       \/ /\ MayEmit
          /\ Prints("text") \/ Prints("long")
          /\ CountOut
          /\ UNCHANGED shell
       \/ /\ shell.pc = "running" /\ ~pty
          /\ MayEmit
          /\ stderr' = Append(stderr, shell.cmd)
          /\ emitted' = [emitted EXCEPT ![shell.cmd].err = @ + 1]
          /\ UNCHANGED <<shell, stdin, stdout>>
       \/ /\ \/ Prints("marker") /\ UNCHANGED emitted
             \/ MayEmit /\ Prints("tail") /\ CountOut
             \/ pty /\ Prints("mangled") /\ UNCHANGED emitted
          /\ shell' = [shell EXCEPT !.pc = "idle"]
       \/ /\ shell.pc = "running"
          /\ shell' = [shell EXCEPT !.pc = "exited"]
          /\ UNCHANGED <<stdin, stdout, stderr, emitted>>
    /\ result' = NoResult
    /\ UNCHANGED <<pty, phase, mu, broken, done, open, exec, reader, buf, next>>

\* sshd may end the shell once our side has closed the channel: it hangs up a
\* terminal, and an idle shell reads the end of its input, but a command that runs
\* without a terminal may go on for ever.
HangUp ==
    /\ ~open
    /\ shell.pc # "exited"
    /\ shell' = [shell EXCEPT !.pc = "exited"]
    /\ result' = NoResult
    /\ UNCHANGED <<pty, phase, mu, broken, done, open, exec, reader, buf, stdin, stdout,
                   stderr, emitted, next>>

-----------------------------------------------------------------------------
Next ==
    \/ \E e \in Callers : \/ Request(e) \/ Lock(e) \/ Write(e) \/ Receive(e)
                          \/ Deadline(e) \/ Cancel(e)
    \/ Close \/ ReadLine \/ Released \/ Drain \/ Shell \/ HangUp

\* The goroutines run, the mutex is handed on, and Exec's timer fires; OpenShell closes
\* a session it could not synchronise.  Whoever closes a session closes its connection
\* as well (liveSession.close), so that the reader's stream ends.  The shell and sshd
\* need not do anything; a command fits the window of the channel, so that writing it,
\* which no timer bounds, does not block.
Spec ==
    /\ Init /\ [][Next]_vars
    /\ \A e \in Callers : WF_vars(Lock(e)) /\ WF_vars(Write(e)) /\ WF_vars(Deadline(e))
    /\ WF_vars(phase = "failed" /\ Close)
    /\ WF_vars(done /\ ReadLine) /\ WF_vars(Released)

-----------------------------------------------------------------------------
(* Properties.                                                             *)

CountOf(c, seq) == Cardinality({i \in DOMAIN seq : seq[i] = c})

\* What Exec returns is its own command's: the exit code is the one of that command
\* and stdout has every line it printed and no line of another command, whatever
\* timed out, overflowed or was cancelled before.
OutputIsOwn ==
    result.ok => /\ result.code = result.cmd
                 /\ Len(result.out) = emitted[result.cmd].out
                 /\ \A i \in DOMAIN result.out : result.out[i] = result.cmd

\* Between commands a session that would accept another one is in step with its
\* shell: no command, line or marker is in flight, unless the shell is gone.
IdleMeansInStep ==
    mu = None /\ ~broken /\ open /\ phase = "ready" =>
        \/ shell.pc = "exited"
        \/ /\ shell.pc = "idle"
           /\ stdin = <<>> /\ stdout = <<>>
           /\ reader.kind = "reading"

\* No stderr is lost without a word: what the result lacks of its command's stderr
\* is still in flight, or the result says that it was truncated.
StderrNotLostSilently ==
    result.ok =>
        \/ result.err.truncated
        \/ CountOf(result.cmd, result.err.text) + CountOf(result.cmd, stderr)
              = emitted[result.cmd].err

\* Once a command has timed out, overflowed or been cancelled, or the session is
\* closed, nothing more is sent to the shell: a command that was already waiting for
\* the mutex is refused and does not run on the host either.
NothingRunsAfterFailure == [][broken \/ done => Len(stdin') <= Len(stdin)]_vars

\* Every Exec returns, also on a shell that hung or is gone.
EveryExecReturns == \A e \in Callers : exec[e].pc # "idle" ~> exec[e].pc = "idle"

\* Closing a session releases the goroutine that reads its stdout, also one that is
\* stuck handing over a line that nobody wants any more.
ReaderIsReleased == done ~> reader.kind = "exited"
=============================================================================
