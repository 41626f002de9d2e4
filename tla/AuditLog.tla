------------------------------ MODULE AuditLog ------------------------------
(***************************************************************************)
(* The hash-chained audit log (internal/audit/log.go) with rotation, I/O   *)
(* faults, crashes and restarts, and the verifier that reads it            *)
(* (broker-ctl audit verify --all).  doAppend runs under one mutex, so an  *)
(* Append is a sequence of steps that only a crash can cut short:          *)
(* maybeRotate, then ensureOpen and Write, then Sync.                      *)
(*                                                                         *)
(* A file is its physical lines and whether it ends in a newline.  A line  *)
(* is an entry, or junk that does not parse: part of an entry, or two      *)
(* records run together.  It is long if it exceeds the 256 KiB that every  *)
(* reader's bufio.Scanner takes; the writer has no such limit.  Entries    *)
(* are told apart by their hash; hash 0 is the empty prev_hash of a chain  *)
(* that starts from zero.                                                  *)
(***************************************************************************)
EXTENDS Naturals, Sequences, SequencesExt

CONSTANTS
    MaxLines,     \* maxFileSize: a file with this many lines is rotated
    MaxEntries,   \* bound on the number of Appends
    MaxFaults,    \* bound on the number of faults
    Faults        \* the faults that may happen, see FaultKinds

\* sync, rename, open: the call fails.  write: Write fails with nothing written.
\* short: Write fails half-way (a full disk).  crash: the process or the machine
\* dies between two steps; what was not synced may be lost, line by line, and the
\* newline of the last line with it.
FaultKinds == {"sync", "rename", "open", "write", "short", "crash"}

ASSUME AuditAssumption ==
    /\ MaxLines \in Nat \ {0}
    /\ MaxEntries \in Nat
    /\ MaxFaults \in Nat
    /\ Faults \subseteq FaultKinds

VARIABLES
    rotated,    \* the rotated files, oldest first
    active,     \* the file under Log.path
    durable,    \* how many lines of active have reached the disk
    log,        \* the Log object of the running process
    pc,         \* where doAppend is
    count,      \* hashes handed out so far
    acked,      \* the entries whose Append returned nil
    anew,       \* the segments that Open found empty behind rotated ones
    faults,     \* faults so far
    faulty      \* a fault struck the Append that runs, or ran last

vars == <<rotated, active, durable, log, pc, count, acked, anew, faults, faulty>>

Junk(long) == [kind |-> "junk", seq |-> 0, prev |-> 0, h |-> 0, long |-> long]
Line == [kind: {"entry", "junk"}, seq: Nat, prev: Nat, h: Nat, long: BOOLEAN]
File == [exists: BOOLEAN, lines: Seq(Line), nl: BOOLEAN]

NoFile == [exists |-> FALSE, lines |-> <<>>, nl |-> TRUE]
EmptyFile == [NoFile EXCEPT !.exists = TRUE]

\* f: the handle is open.  prev: Log.prevHash.
LogState == [up: BOOLEAN, f: BOOLEAN, prev: Nat, seq: Nat, needsNewline: BOOLEAN]
LogDown == [up |-> FALSE, f |-> FALSE, prev |-> 0, seq |-> 0, needsNewline |-> FALSE]

TypeOK ==
    /\ rotated \in Seq(File)
    /\ active \in File
    /\ durable \in 0..Len(active.lines)
    /\ log \in LogState
    /\ pc \in {"idle", "write", "sync"}
    /\ count \in Nat
    /\ acked \in SUBSET (1..count)
    /\ anew \subseteq 2..(Len(rotated) + 1)
    /\ faults \in 0..MaxFaults
    /\ faulty \in BOOLEAN

Init ==
    /\ rotated = <<>>
    /\ active = NoFile
    /\ durable = 0
    /\ log = LogDown
    /\ pc = "idle"
    /\ count = 0
    /\ acked = {}
    /\ anew = {}
    /\ faults = 0
    /\ faulty = FALSE

\* One more fault, of a kind the instance allows.
Strikes(kind) ==
    /\ kind \in Faults
    /\ faults < MaxFaults
    /\ faults' = faults + 1
    /\ faulty' = TRUE

NoFault == UNCHANGED <<faults, faulty>>

-----------------------------------------------------------------------------
(* What a write puts into the file.                                        *)

\* Text that follows a line without its newline runs into that line.
AppendText(file, line) ==
    IF file.nl \/ file.lines = <<>>
    THEN [file EXCEPT !.lines = Append(@, line)]
    ELSE [file EXCEPT !.lines[Len(file.lines)] = Junk(line.long \/ Last(file.lines).long)]

\* How much of a write arrives: all of it, the line without its newline, or a
\* part of the line.
Written(file, line, part) ==
    CASE part = "all" -> [AppendText(file, line) EXCEPT !.nl = TRUE]
      [] part = "line" -> [AppendText(file, line) EXCEPT !.nl = FALSE]
      [] part = "some" -> [AppendText(file, Junk(line.long)) EXCEPT !.nl = FALSE]

\* The next entry, and the file it is written to: a newline that an earlier torn
\* write left out is supplied first.
NextEntry(long) ==
    [kind |-> "entry", seq |-> log.seq + 1, prev |-> log.prev, h |-> count + 1, long |-> long]

Terminated(file) == IF log.needsNewline THEN [file EXCEPT !.nl = TRUE] ELSE file

-----------------------------------------------------------------------------
(* doAppend.                                                               *)

RotateRenamed_Restarts ==
    /\ rotated' = Append(rotated, active)
    /\ log' = [log EXCEPT !.seq = 0, !.prev = 0, !.needsNewline = FALSE]
    /\ active' = EmptyFile
    /\ durable' = 0
    /\ faulty' = FALSE
    /\ UNCHANGED faults

\* The file is full: rename it and start a new one, whose first entry continues
\* the chain.  seq restarts; the handle stays nil if the new file cannot be opened.
RotateRenamed ==
    /\ rotated' = Append(rotated, active)
    /\ log' = [log EXCEPT !.seq = 0, !.needsNewline = FALSE]
    /\ active' = EmptyFile
    /\ durable' = 0
    /\ faulty' = FALSE
    /\ UNCHANGED faults

RotateOpenFails ==
    /\ rotated' = Append(rotated, active)
    /\ log' = [log EXCEPT !.seq = 0, !.needsNewline = FALSE, !.f = FALSE]
    /\ active' = NoFile
    /\ durable' = 0
    /\ Strikes("open")

\* The rename fails: the same file is opened again, which may fail as well.
RotateRenameFails ==
    /\ log' \in {log, [log EXCEPT !.f = FALSE]}
    /\ UNCHANGED <<rotated, active, durable>>
    /\ Strikes("rename")

\* The start of an Append, with maybeRotate.
maybeRotate ==
    /\ log.up
    /\ pc = "idle"
    /\ count < MaxEntries
    /\ pc' = "write"
    /\ IF log.f /\ Len(active.lines) >= MaxLines
       THEN \/ RotateRenamed
            \/ RotateOpenFails
            \/ RotateRenameFails
       ELSE /\ faulty' = FALSE
            /\ UNCHANGED <<rotated, active, durable, log, faults>>
    /\ UNCHANGED <<count, acked, anew>>

OpenFile(file) == IF file.exists THEN file ELSE EmptyFile

OpenFails_NoRetry ==
    /\ pc = "write"
    /\ ~log.f
    /\ pc' = "idle"
    /\ NoFault
    /\ UNCHANGED <<rotated, active, durable, log, count, acked, anew>>

\* A handle that a failed rotation left nil is opened again (ensureOpen); if that
\* fails too, the Append returns the error with nothing written.
OpenFails ==
    /\ pc = "write"
    /\ ~log.f
    /\ Strikes("open")
    /\ pc' = "idle"
    /\ UNCHANGED <<rotated, active, durable, log, count, acked, anew>>

\* seq and prevHash are committed once the line is in the file; a failed write
\* leaves them alone.
CommitOf(e, ok) ==
    IF ok THEN [log EXCEPT !.f = TRUE, !.needsNewline = FALSE, !.seq = e.seq,
                           !.prev = e.h]
    ELSE [log EXCEPT !.f = TRUE]

\* The record may have any length: nothing compares it with what a scanner takes.
Write ==
    /\ pc = "write"
    /\ pc' = "sync"
    /\ count' = count + 1
    /\ \E long \in BOOLEAN :
          /\ active' = Written(Terminated(OpenFile(active)), NextEntry(long), "all")
          /\ log' = CommitOf(NextEntry(long), TRUE)
    /\ NoFault
    /\ UNCHANGED <<rotated, durable, acked, anew>>

\* Write returns an error, with nothing or only a part of the bytes written.
WriteFails ==
    /\ pc = "write"
    /\ pc' = "idle"
    /\ count' = count + 1
    /\ \/ Strikes("write") /\ active' = OpenFile(active)
       \/ /\ Strikes("short")
          /\ \E part \in {"line", "some"}, long \in BOOLEAN :
                active' = Written(Terminated(OpenFile(active)), NextEntry(long), part)
    /\ log' = CommitOf(NextEntry(FALSE), FALSE)
    /\ UNCHANGED <<rotated, durable, acked, anew>>

SyncFails_Acks ==
    /\ pc = "sync"
    /\ Strikes("sync")
    /\ pc' = "idle"
    /\ acked' = acked \cup {count}
    /\ UNCHANGED <<rotated, active, durable, log, count, anew>>

Sync ==
    /\ pc = "sync"
    /\ pc' = "idle"
    /\ durable' = Len(active.lines)
    /\ acked' = acked \cup {count}
    /\ NoFault
    /\ UNCHANGED <<rotated, active, log, count, anew>>

\* The line stays in the page cache and in the chain; Append returns the error.
SyncFails ==
    /\ pc = "sync"
    /\ Strikes("sync")
    /\ pc' = "idle"
    /\ UNCHANGED <<rotated, active, durable, log, count, acked, anew>>

-----------------------------------------------------------------------------
(* Crash and restart.                                                      *)

\* What a crash may leave of the active file: any number of the lines that were
\* not synced, the last of them possibly without its newline.
Survivors ==
    {[active EXCEPT !.lines = SubSeq(@, 1, k)] : k \in durable..Len(active.lines)}
    \cup {[active EXCEPT !.lines = SubSeq(@, 1, k), !.nl = FALSE] :
             k \in (durable + 1)..Len(active.lines)}

\* The process or the machine dies, or is stopped.  Rotated files are taken to
\* have been written back by then.
Crash ==
    /\ log.up
    /\ Strikes("crash")
    /\ active' \in Survivors
    /\ durable' = Len(active'.lines)
    /\ log' = LogDown
    /\ pc' = "idle"
    /\ UNCHANGED <<rotated, count, acked, anew>>

\* A bufio.Scanner with a 256 KiB buffer reads the file to its end.
Scans(file) == \A i \in 1..Len(file.lines) : ~file.lines[i].long

\* restoreChain: seq and prevHash of the last line; a missing newline is noted.  An
\* empty file starts a chain from zero, whatever was rotated away before.
restoreChain(file) ==
    IF file.lines = <<>>
    THEN [up |-> TRUE, f |-> TRUE, prev |-> 0, seq |-> 0, needsNewline |-> FALSE]
    ELSE [up |-> TRUE, f |-> TRUE, prev |-> Last(file.lines).h,
          seq |-> Last(file.lines).seq, needsNewline |-> ~file.nl]

\* The last line is an entry.
Parses(file) == file.lines # <<>> => Last(file.lines).kind = "entry"

\* Open fails, and the service does not start, if a line is too long to be scanned
\* or the last one does not parse.
Restart ==
    /\ ~log.up
    /\ Scans(active)
    /\ Parses(active)
    /\ log' = restoreChain(active)
    /\ active' = OpenFile(active)
    /\ anew' = IF rotated # <<>> /\ active.lines = <<>> THEN anew \cup {Len(rotated) + 1} ELSE anew
    /\ faulty' = FALSE
    /\ UNCHANGED <<rotated, durable, pc, count, acked, faults>>

Next ==
    \/ maybeRotate
    \/ OpenFails
    \/ Write
    \/ WriteFails
    \/ Sync
    \/ SyncFails
    \/ Crash
    \/ Restart

Spec == Init /\ [][Next]_vars

-----------------------------------------------------------------------------
(* The verifier.                                                           *)

\* Every line is an entry that continues the one before; the first prev_hash is a
\* seed, which is not checked.
Chained(file) ==
    \A i \in 1..Len(file.lines) :
        /\ file.lines[i].kind = "entry"
        /\ i > 1 => /\ file.lines[i].seq = file.lines[i - 1].seq + 1
                    /\ file.lines[i].prev = file.lines[i - 1].h

\* verifyAuditChain finds no error in one file.
verifyAuditChain(file) == Scans(file) /\ Chained(file)

discoverAuditSegments == IF active.exists THEN Append(rotated, active) ELSE rotated

\* auditFileBounds finds the first prev_hash and the last hash of a file: it can be
\* scanned, is not empty, and its first line parses.
auditFileBounds(file) ==
    Scans(file) /\ file.lines # <<>> /\ file.lines[1].kind = "entry"

\* prevLast when segment i is looked at: the last hash of the latest segment before
\* it that auditFileBounds could read.
PrevLast(seg, i) ==
    LET read == {j \in 1..(i - 1) : auditFileBounds(seg[j])} IN
    IF read = {} THEN 0 ELSE Last(seg[Max(read)].lines).h

\* verify --all: the segments for which an error is reported.  The first one must
\* start at genesis, each other one link to the last line of the one before.
verifyAuditSegments ==
    LET seg == discoverAuditSegments IN
    {i \in 1..Len(seg) :
        \/ ~verifyAuditChain(seg[i])
        \/ ~auditFileBounds(seg[i])
        \/ seg[i].lines[1].prev # PrevLast(seg, i)}

-----------------------------------------------------------------------------
(* Properties.                                                             *)

\* The segments whose errors no one's tampering explains: those with a record too
\* long for the verifier's scanner, the ones behind them, whose link it cannot
\* check, and those that a crash left empty, so that Open started a new chain.
Unreadable ==
    LET seg == discoverAuditSegments
        long == {i \in 1..Len(seg) : ~Scans(seg[i])} IN
    long \cup {i + 1 : i \in long} \cup anew

\* What the running process has written verifies, across rotations, restarts and
\* the faults of the instance: whenever an Append is over and the active file has
\* an entry, broker-ctl audit verify --all reports no segment but the Unreadable
\* ones, and verify of a single file reports nothing if the file can be scanned.
\* What a crash leaves is a file that restoreChain accepts, unless it holds a record
\* longer than restoreChain's scanner takes.
ChainVerifies ==
    /\ log.up /\ pc = "idle" /\ active.lines # <<>> => verifyAuditSegments \subseteq Unreadable
    /\ \A file \in {active} \cup ToSet(rotated) : Scans(file) => verifyAuditChain(file)
    /\ ~log.up /\ Scans(active) => Parses(active)

\* An entry whose Append returned nil is in the log for good, whatever crashes
\* and faults follow.
AcknowledgedSurvives ==
    \A h \in acked :
        \E file \in {active} \cup ToSet(rotated) : \E i \in DOMAIN file.lines :
            file.lines[i].h = h /\ file.lines[i].kind = "entry"

\* An Append that meets no fault succeeds, whatever failed before it: a rotation
\* that left no handle does not silence the log ("self-heals on the next write").
AppendHeals ==
    [][pc # "idle" /\ pc' = "idle" /\ ~faulty' => acked' # acked]_vars
=============================================================================
