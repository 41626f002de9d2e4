--------------------------- MODULE AuditLog_proofs ---------------------------
(***************************************************************************)
(* The audit log for any file size, any number of Appends and faults, and  *)
(* records of any length.  An Append without a fault succeeds whatever the *)
(* faults before it.  Where writes are not torn ("short"), an acknowledged *)
(* entry is never lost, and what is on disk verifies but for the segments  *)
(* that the readers cannot take or that a crash left empty.  TLC shows     *)
(* that torn writes do break the log.                                      *)
(***************************************************************************)
EXTENDS AuditLog, SequenceTheorems, TLAPS

-----------------------------------------------------------------------------
(* The inductive invariants, each for the faults it can bear.              *)

\* Any fault: only a running process appends, what waits for its Sync has not been
\* acknowledged, and a file that is not there has no lines.
BookInv ==
    /\ TypeOK
    /\ ~active.exists => active.lines = <<>>
    /\ pc # "idle" => log.up
    /\ pc = "sync" => count > 0 /\ count \notin acked

Holds(file, i, h) == file.lines[i].h = h /\ file.lines[i].kind = "entry"

\* No torn write: the process knows of a missing newline, so that no line is run
\* into; what waits for its Sync is the last line; and what was acknowledged is in
\* a rotated file or in the part of the active file that reached the disk.
KeptInv ==
    /\ ~active.nl => durable > 0
    /\ log.up /\ ~active.nl => log.needsNewline
    /\ pc = "sync" => active.lines # <<>> /\ Holds(active, Len(active.lines), count)
    /\ \A h \in acked :
          \/ \E n \in 1..Len(rotated) : \E i \in 1..Len(rotated[n].lines) : Holds(rotated[n], i, h)
          \/ \E i \in 1..durable : Holds(active, i, h)

\* The hash that the first entry of segment n must continue, where the segments of
\* set were started anew.
Seed(files, set, n) == IF n = 1 \/ n \in set THEN 0 ELSE Last(files[n - 1].lines).h

\* No torn write: every file is a chain that continues the one before or was started
\* anew, and the running process knows where the chain ends.
ChainInv ==
    /\ \A n \in 1..Len(rotated) :
          /\ Chained(rotated[n])
          /\ rotated[n].lines # <<>>
          /\ rotated[n].lines[1].prev = Seed(rotated, anew, n)
    /\ Chained(active)
    /\ active.lines # <<>> => active.lines[1].prev = Seed(rotated, anew, Len(rotated) + 1)
    /\ log.up =>
          IF active.lines = <<>> THEN log.prev = Seed(rotated, anew, Len(rotated) + 1)
          ELSE log.prev = Last(active.lines).h /\ log.seq = Last(active.lines).seq

-----------------------------------------------------------------------------
(* What a write puts into a file.                                          *)

\* Changing one field of a file.
LEMMA FileExcept ==
    ASSUME NEW file \in File, NEW v
    PROVE  /\ [file EXCEPT !.exists = v] = [exists |-> v, lines |-> file.lines, nl |-> file.nl]
           /\ [file EXCEPT !.nl = v] = [exists |-> file.exists, lines |-> file.lines, nl |-> v]
BY DEF File

\* A file made of proper fields.
LEMMA FileRecord ==
    ASSUME NEW e \in BOOLEAN, NEW l \in Seq(Line), NEW n \in BOOLEAN
    PROVE  LET file == [exists |-> e, lines |-> l, nl |-> n] IN
           file \in File /\ file.exists = e /\ file.lines = l /\ file.nl = n
BY DEF File

\* Changing one field of the Log.
LEMMA LogExcept ==
    ASSUME NEW l \in LogState, NEW v
    PROVE  /\ [l EXCEPT !.f = v] = [up |-> l.up, f |-> v, prev |-> l.prev, seq |-> l.seq,
                                    needsNewline |-> l.needsNewline]
           /\ [l EXCEPT !.prev = v] = [up |-> l.up, f |-> l.f, prev |-> v, seq |-> l.seq,
                                       needsNewline |-> l.needsNewline]
           /\ [l EXCEPT !.seq = v] = [up |-> l.up, f |-> l.f, prev |-> l.prev, seq |-> v,
                                      needsNewline |-> l.needsNewline]
           /\ [l EXCEPT !.needsNewline = v] = [up |-> l.up, f |-> l.f, prev |-> l.prev,
                                               seq |-> l.seq, needsNewline |-> v]
BY DEF LogState

\* A Log made of proper fields.
LEMMA LogRecord ==
    ASSUME NEW u \in BOOLEAN, NEW f \in BOOLEAN, NEW p \in Nat, NEW s \in Nat, NEW w \in BOOLEAN
    PROVE  LET l == [up |-> u, f |-> f, prev |-> p, seq |-> s, needsNewline |-> w] IN
           /\ l \in LogState
           /\ l.up = u /\ l.f = f /\ l.prev = p /\ l.seq = s /\ l.needsNewline = w
BY DEF LogState

\* An empty file.
LEMMA EmptyFileFacts ==
    /\ EmptyFile \in File /\ EmptyFile.exists /\ EmptyFile.lines = <<>> /\ EmptyFile.nl
    /\ NoFile \in File /\ ~NoFile.exists /\ NoFile.lines = <<>> /\ NoFile.nl
<1>1. <<>> \in Seq(Line)
  BY EmptySeq
<1>2. NoFile \in File /\ ~NoFile.exists /\ NoFile.lines = <<>> /\ NoFile.nl
  BY <1>1 DEF NoFile, File
<1>3. EmptyFile = [exists |-> TRUE, lines |-> NoFile.lines, nl |-> NoFile.nl]
  BY <1>2, FileExcept, Zenon DEF EmptyFile
<1> QED
  BY <1>1, <1>2, <1>3 DEF File

\* The text goes on a line of its own, or spoils the last one.
LEMMA AppendTextFacts ==
    ASSUME NEW file \in File, NEW line \in Line
    PROVE  LET t == AppendText(file, line) IN
           /\ t \in File /\ t.exists = file.exists
           /\ Len(t.lines) >= Len(file.lines)
           /\ file.nl \/ file.lines = <<>> => t.lines = Append(file.lines, line)
<1>0. file.lines \in Seq(Line) /\ \A b \in BOOLEAN : Junk(b) \in Line
  BY DEF File, Junk, Line
<1>1. CASE file.nl \/ file.lines = <<>>
  <2>1. AppendText(file, line) = [exists |-> file.exists, lines |-> Append(file.lines, line),
                                  nl |-> file.nl]
    BY <1>1 DEF AppendText, File
  <2>2. Append(file.lines, line) \in Seq(Line) /\ Len(Append(file.lines, line)) = Len(file.lines) + 1
    BY <1>0, AppendProperties
  <2> QED
    BY <2>1, <2>2, <1>0, LenProperties DEF File
<1>2. CASE ~(file.nl \/ file.lines = <<>>)
  <2> DEFINE n == Len(file.lines)
             j == Junk(line.long \/ Last(file.lines).long)
             l == [file.lines EXCEPT ![n] = j]
  <2>1. n \in 1..n
    BY <1>0, <1>2, EmptySeq, LenProperties
  <2>a. Last(file.lines) \in Line
    BY <2>1, <1>0, ElementOfSeq DEF Last
  <2>b. (line.long \/ Last(file.lines).long) \in BOOLEAN
    BY Zenon
  <2>c. j \in Line
    BY <1>0, <2>b
  <2> HIDE DEF j
  <2>2. l \in Seq(Line) /\ Len(l) = n
    BY <2>1, <2>c, <1>0, ExceptSeq
  <2>3. AppendText(file, line) = [file EXCEPT !.lines[Len(file.lines)] = j]
    BY <1>2, Zenon DEF AppendText, j
  <2>4. AppendText(file, line) = [file EXCEPT !.lines = l]
    BY <2>3, Zenon
  <2> HIDE DEF l
  <2>5. AppendText(file, line) = [exists |-> file.exists, lines |-> l, nl |-> file.nl]
    BY <2>4 DEF File
  <2> QED
    BY <2>2, <2>5, <1>0, <1>2, LenProperties DEF File
<1> QED
  BY <1>1, <1>2

\* A write never takes a line away, and one that arrives whole behind a newline
\* is the next line.
LEMMA WrittenFacts ==
    ASSUME NEW file \in File, NEW line \in Line, NEW part \in {"all", "line", "some"}
    PROVE  LET t == Written(file, line, part) IN
           /\ t \in File /\ t.exists = file.exists
           /\ Len(t.lines) >= Len(file.lines)
           /\ part = "all" => t.nl
           /\ part = "all" /\ (file.nl \/ file.lines = <<>>) => t.lines = Append(file.lines, line)
<1>1. Junk(line.long) \in Line
  BY DEF Junk, Line
<1>2. CASE part = "all"
  <2> DEFINE u == AppendText(file, line)
  <2>1. /\ u \in File /\ u.exists = file.exists
        /\ Len(u.lines) >= Len(file.lines)
        /\ file.nl \/ file.lines = <<>> => u.lines = Append(file.lines, line)
    BY AppendTextFacts
  <2>2. Written(file, line, part) = [u EXCEPT !.nl = TRUE]
    BY <1>2 DEF Written
  <2> HIDE DEF u
  <2> DEFINE t == [exists |-> u.exists, lines |-> u.lines, nl |-> TRUE]
  <2>3. Written(file, line, part) = t
    BY <2>1, <2>2, FileExcept, Zenon
  <2>4. u.exists \in BOOLEAN /\ u.lines \in Seq(Line)
    BY <2>1 DEF File
  <2>5. t \in File /\ t.exists = u.exists /\ t.lines = u.lines /\ t.nl = TRUE
    BY <2>4, FileRecord
  <2> HIDE DEF t
  <2> QED
    BY <1>2, <2>1, <2>3, <2>5
<1>3. CASE part # "all"
  <2> DEFINE u == AppendText(file, IF part = "some" THEN Junk(line.long) ELSE line)
  <2>1. u \in File /\ u.exists = file.exists /\ Len(u.lines) >= Len(file.lines)
    BY <1>1, AppendTextFacts
  <2>2. Written(file, line, part) = [u EXCEPT !.nl = FALSE]
    BY <1>3 DEF Written
  <2> HIDE DEF u
  <2> DEFINE t == [exists |-> u.exists, lines |-> u.lines, nl |-> FALSE]
  <2>3. Written(file, line, part) = t
    BY <2>1, <2>2, FileExcept, Zenon
  <2>4. u.exists \in BOOLEAN /\ u.lines \in Seq(Line)
    BY <2>1 DEF File
  <2>5. t \in File /\ t.exists = u.exists /\ t.lines = u.lines /\ t.nl = FALSE
    BY <2>4, FileRecord
  <2> HIDE DEF t
  <2> QED
    BY <1>3, <2>1, <2>3, <2>5
<1> QED
  BY <1>2, <1>3

\* Opening creates a file that is not there, and touches no other.
LEMMA OpenFileFacts ==
    ASSUME NEW file \in File
    PROVE  /\ OpenFile(file) \in File /\ OpenFile(file).exists
           /\ file.exists => OpenFile(file) = file
           /\ ~file.exists => OpenFile(file).lines = <<>> /\ OpenFile(file).nl
BY EmptyFileFacts DEF OpenFile, File

\* Before it writes, Append supplies the newline it knows to be missing.
LEMMA TerminatedFacts ==
    ASSUME NEW file \in File
    PROVE  /\ Terminated(file) \in File
           /\ Terminated(file).exists = file.exists /\ Terminated(file).lines = file.lines
           /\ Terminated(file).nl = (log.needsNewline \/ file.nl)
BY DEF Terminated, File

\* The entry Append is about to write.
LEMMA NextEntryFacts ==
    ASSUME TypeOK, NEW long \in BOOLEAN
    PROVE  /\ NextEntry(long) \in Line
           /\ NextEntry(long).kind = "entry" /\ NextEntry(long).h = count + 1
           /\ NextEntry(long).seq = log.seq + 1 /\ NextEntry(long).prev = log.prev
BY DEF TypeOK, LogState, NextEntry, Line

\* What the Log remembers after a write.
LEMMA CommitFacts ==
    ASSUME TypeOK, NEW long \in BOOLEAN, NEW ok \in BOOLEAN
    PROVE  LET l == CommitOf(NextEntry(long), ok) IN
           /\ l \in LogState /\ l.up = log.up
           /\ ok => l.prev = count + 1 /\ l.seq = log.seq + 1
           /\ ~ok => l.prev = log.prev /\ l.seq = log.seq /\ l.needsNewline = log.needsNewline
<1>0. /\ log \in LogState /\ log.up \in BOOLEAN /\ log.prev \in Nat /\ log.seq \in Nat
      /\ log.needsNewline \in BOOLEAN
      /\ NextEntry(long).h \in Nat /\ NextEntry(long).seq \in Nat
  BY NextEntryFacts DEF TypeOK, LogState
<1> DEFINE a == [log EXCEPT !.f = TRUE]
<1>1. a = [up |-> log.up, f |-> TRUE, prev |-> log.prev, seq |-> log.seq,
           needsNewline |-> log.needsNewline]
  BY <1>0, LogExcept, Zenon
<1> HIDE DEF a
<1>2. /\ a \in LogState
      /\ a.up = log.up /\ a.f = TRUE /\ a.prev = log.prev /\ a.seq = log.seq
      /\ a.needsNewline = log.needsNewline
  BY <1>0, <1>1, LogRecord
<1>3. CASE ok
  <2> DEFINE b == [a EXCEPT !.needsNewline = FALSE]
  <2>1. b = [up |-> a.up, f |-> a.f, prev |-> a.prev, seq |-> a.seq, needsNewline |-> FALSE]
    BY <1>2, LogExcept, Zenon
  <2> HIDE DEF b
  <2>2. /\ b \in LogState
        /\ b.up = log.up /\ b.f = TRUE /\ b.prev = log.prev /\ b.seq = log.seq
        /\ b.needsNewline = FALSE
    BY <1>0, <1>2, <2>1, LogRecord
  <2> DEFINE c == [b EXCEPT !.seq = NextEntry(long).seq]
  <2>3. c = [up |-> b.up, f |-> b.f, prev |-> b.prev, seq |-> NextEntry(long).seq,
             needsNewline |-> b.needsNewline]
    BY <2>2, LogExcept, Zenon
  <2> HIDE DEF c
  <2>4. /\ c \in LogState
        /\ c.up = log.up /\ c.f = TRUE /\ c.prev = log.prev /\ c.seq = NextEntry(long).seq
        /\ c.needsNewline = FALSE
    BY <1>0, <2>2, <2>3, LogRecord
  <2> DEFINE d == [c EXCEPT !.prev = NextEntry(long).h]
  <2>5. d = [up |-> c.up, f |-> c.f, prev |-> NextEntry(long).h, seq |-> c.seq,
             needsNewline |-> c.needsNewline]
    BY <2>4, LogExcept, Zenon
  <2>6. CommitOf(NextEntry(long), ok) = d
    BY <1>3, Zenon DEF CommitOf, a, b, c
  <2> HIDE DEF d
  <2>7. /\ d \in LogState
        /\ d.up = log.up /\ d.f = TRUE /\ d.prev = NextEntry(long).h /\ d.seq = NextEntry(long).seq
        /\ d.needsNewline = FALSE
    BY <1>0, <2>4, <2>5, LogRecord
  <2> QED
    BY <1>3, <2>6, <2>7, NextEntryFacts
<1>4. CASE ~ok
  <2>1. CommitOf(NextEntry(long), ok) = a
    BY <1>4 DEF CommitOf, a
  <2> QED
    BY <1>2, <1>4, <2>1
<1> QED
  BY <1>3, <1>4

\* A rotation restarts the sequence numbers and forgets the missing newline.
LEMMA RotateFacts ==
    ASSUME NEW l \in LogState
    PROVE  \A r \in {[l EXCEPT !.seq = 0, !.needsNewline = FALSE],
                     [l EXCEPT !.seq = 0, !.needsNewline = FALSE, !.f = FALSE]} :
              /\ r \in LogState /\ r.up = l.up /\ r.prev = l.prev
              /\ r.seq = 0 /\ r.needsNewline = FALSE
<1>0. \A m \in LogState : /\ m.up \in BOOLEAN /\ m.f \in BOOLEAN /\ m.prev \in Nat
                         /\ m.seq \in Nat /\ m.needsNewline \in BOOLEAN
  BY DEF LogState
<1> DEFINE a == [l EXCEPT !.seq = 0]
<1>1. a = [up |-> l.up, f |-> l.f, prev |-> l.prev, seq |-> 0, needsNewline |-> l.needsNewline]
  BY LogExcept, Zenon
<1> HIDE DEF a
<1>2. a \in LogState /\ a.up = l.up /\ a.prev = l.prev /\ a.seq = 0
  BY <1>0, <1>1, LogRecord
<1> DEFINE b == [a EXCEPT !.needsNewline = FALSE]
<1>3. b = [up |-> a.up, f |-> a.f, prev |-> a.prev, seq |-> a.seq, needsNewline |-> FALSE]
  BY <1>2, LogExcept, Zenon
<1> HIDE DEF b
<1>4. a.up \in BOOLEAN /\ a.f \in BOOLEAN /\ a.prev \in Nat /\ a.seq \in Nat
  BY <1>0, <1>2
<1>5. b \in LogState /\ b.up = a.up /\ b.prev = a.prev /\ b.seq = a.seq /\ b.needsNewline = FALSE
  BY <1>3, <1>4, LogRecord
<1> DEFINE c == [b EXCEPT !.f = FALSE]
<1>6. c = [up |-> b.up, f |-> FALSE, prev |-> b.prev, seq |-> b.seq,
           needsNewline |-> b.needsNewline]
  BY <1>5, LogExcept, Zenon
<1> HIDE DEF c
<1>7. b.up \in BOOLEAN /\ b.prev \in Nat /\ b.seq \in Nat /\ b.needsNewline \in BOOLEAN
  BY <1>0, <1>5
<1>8. /\ c \in LogState /\ c.up = b.up /\ c.prev = b.prev /\ c.seq = b.seq
      /\ c.needsNewline = b.needsNewline
  BY <1>6, <1>7, LogRecord
<1>9. ASSUME NEW r \in {b, c}
      PROVE  /\ r \in LogState /\ r.up = l.up /\ r.prev = l.prev
             /\ r.seq = 0 /\ r.needsNewline = FALSE
  BY <1>2, <1>5, <1>8, Zenon
<1> QED
  BY <1>9, Zenon DEF a, b, c

\* A failed rename leaves the Log as it was, but for the handle.
LEMMA RenameFacts ==
    ASSUME NEW l \in LogState, NEW r \in {l, [l EXCEPT !.f = FALSE]}
    PROVE  /\ r \in LogState /\ r.up = l.up /\ r.prev = l.prev
           /\ r.seq = l.seq /\ r.needsNewline = l.needsNewline
<1>0. l.up \in BOOLEAN /\ l.prev \in Nat /\ l.seq \in Nat /\ l.needsNewline \in BOOLEAN
  BY DEF LogState
<1> DEFINE a == [l EXCEPT !.f = FALSE]
<1>1. a = [up |-> l.up, f |-> FALSE, prev |-> l.prev, seq |-> l.seq,
           needsNewline |-> l.needsNewline]
  BY LogExcept, Zenon
<1> HIDE DEF a
<1>2. /\ a \in LogState
      /\ a.up = l.up /\ a.prev = l.prev /\ a.seq = l.seq /\ a.needsNewline = l.needsNewline
  BY <1>0, <1>1, LogRecord
<1> QED
  BY <1>2 DEF a

\* What an Append writes to, and what it leaves there.
LEMMA TargetFacts ==
    ASSUME BookInv, NEW long \in BOOLEAN, NEW part \in {"all", "line", "some"}
    PROVE  LET t == Written(Terminated(OpenFile(active)), NextEntry(long), part) IN
           /\ t \in File /\ t.exists /\ Len(t.lines) >= Len(active.lines)
           /\ part = "all" => t.nl
           /\ part = "all" /\ (active.nl \/ log.needsNewline \/ active.lines = <<>>) =>
                 t.lines = Append(active.lines, NextEntry(long))
<1> DEFINE o == OpenFile(active)
           u == Terminated(o)
<1>1. o \in File /\ o.exists /\ o.lines = active.lines /\ (active.nl => o.nl)
  BY OpenFileFacts DEF BookInv, TypeOK
<1> HIDE DEF o
<1>2. /\ u \in File /\ u.exists /\ u.lines = active.lines
      /\ active.nl \/ log.needsNewline => u.nl
  BY <1>1, TerminatedFacts
<1> HIDE DEF u
<1>3. NextEntry(long) \in Line
  BY NextEntryFacts DEF BookInv
<1> DEFINE t == Written(u, NextEntry(long), part)
<1>4. /\ t \in File /\ t.exists = u.exists
      /\ Len(t.lines) >= Len(u.lines)
      /\ part = "all" => t.nl
      /\ part = "all" /\ (u.nl \/ u.lines = <<>>) => t.lines = Append(u.lines, NextEntry(long))
  BY <1>2, <1>3, WrittenFacts
<1> HIDE DEF t
<1>5. /\ t \in File /\ t.exists /\ Len(t.lines) >= Len(active.lines)
      /\ part = "all" => t.nl
      /\ part = "all" /\ (active.nl \/ log.needsNewline \/ active.lines = <<>>) =>
            t.lines = Append(active.lines, NextEntry(long))
  BY <1>2, <1>4
<1> QED
  BY <1>5 DEF t, u, o

\* A crash leaves a beginning of the file with everything that was synced; the
\* last newline may be gone, of a line that was not synced.
LEMMA SurvivorFacts ==
    ASSUME TypeOK, NEW t \in Survivors
    PROVE  /\ t \in File /\ t.exists = active.exists
           /\ Len(t.lines) \in durable..Len(active.lines)
           /\ \A i \in 1..Len(t.lines) : t.lines[i] = active.lines[i]
           /\ ~t.nl => ~active.nl \/ Len(t.lines) > durable
<1>1. /\ active \in File /\ active.lines \in Seq(Line) /\ durable \in Nat
      /\ Len(active.lines) \in Nat /\ active.exists \in BOOLEAN /\ active.nl \in BOOLEAN
  BY LenProperties DEF TypeOK, File
<1>2. ASSUME NEW k \in durable..Len(active.lines)
      PROVE  /\ SubSeq(active.lines, 1, k) \in Seq(Line)
             /\ Len(SubSeq(active.lines, 1, k)) = k
             /\ \A i \in 1..k : SubSeq(active.lines, 1, k)[i] = active.lines[i]
  <2>1. k \in Nat /\ \A i \in 1..k : active.lines[i] \in Line
    BY <1>1, ElementOfSeq
  <2>2. /\ SubSeq(active.lines, 1, k) \in Seq(Line)
        /\ Len(SubSeq(active.lines, 1, k)) = IF 1 <= k THEN k - 1 + 1 ELSE 0
        /\ \A i \in 1..(k - 1 + 1) : SubSeq(active.lines, 1, k)[i] = active.lines[1 + i - 1]
    BY <2>1, SubSeqProperties
  <2> QED
    BY <2>1, <2>2
<1>3. ASSUME NEW k \in durable..Len(active.lines),
             t = [active EXCEPT !.lines = SubSeq(active.lines, 1, k)]
      PROVE  /\ t \in File /\ t.exists = active.exists /\ t.nl = active.nl
             /\ t.lines = SubSeq(active.lines, 1, k)
  <2> DEFINE l == SubSeq(active.lines, 1, k)
  <2>1. l \in Seq(Line)
    BY <1>2
  <2> HIDE DEF l
  <2>2. [active EXCEPT !.lines = l] = [exists |-> active.exists, lines |-> l, nl |-> active.nl]
    BY <1>1 DEF File
  <2> DEFINE r == [exists |-> active.exists, lines |-> l, nl |-> active.nl]
  <2>3. r \in File /\ r.exists = active.exists /\ r.nl = active.nl /\ r.lines = l
    BY <1>1, <2>1, FileRecord
  <2> HIDE DEF r
  <2>4. t = r
    BY <1>3, <2>2 DEF l, r
  <2> QED
    BY <2>3, <2>4 DEF l
<1>4. ASSUME NEW k \in (durable + 1)..Len(active.lines),
             t = [active EXCEPT !.lines = SubSeq(active.lines, 1, k), !.nl = FALSE]
      PROVE  /\ t \in File /\ t.exists = active.exists
             /\ t.lines = SubSeq(active.lines, 1, k)
  <2> DEFINE l == SubSeq(active.lines, 1, k)
             a == [active EXCEPT !.lines = l]
             b == [a EXCEPT !.nl = FALSE]
  <2>1. l \in Seq(Line)
    BY <1>1, <1>2
  <2>2. t = b
    BY <1>4, Zenon
  <2> HIDE DEF l, b
  <2>3. a = [exists |-> active.exists, lines |-> l, nl |-> active.nl]
    BY <1>1 DEF File
  <2> HIDE DEF a
  <2>4. a \in File /\ a.exists = active.exists /\ a.lines = l
    BY <1>1, <2>1, <2>3, FileRecord
  <2> DEFINE r == [exists |-> a.exists, lines |-> a.lines, nl |-> FALSE]
  <2>5. b = r
    BY <2>4, FileExcept, Zenon DEF b
  <2>6. a.exists \in BOOLEAN /\ a.lines \in Seq(Line)
    BY <1>1, <2>1, <2>4
  <2>7. r \in File /\ r.exists = a.exists /\ r.lines = a.lines
    BY <2>6, FileRecord
  <2> HIDE DEF r
  <2> QED
    BY <2>2, <2>4, <2>5, <2>7 DEF l
<1>5. \/ \E k \in durable..Len(active.lines) :
            t = [active EXCEPT !.lines = SubSeq(active.lines, 1, k)]
      \/ \E k \in (durable + 1)..Len(active.lines) :
            t = [active EXCEPT !.lines = SubSeq(active.lines, 1, k), !.nl = FALSE]
  BY DEF Survivors
<1>6. CASE \E k \in durable..Len(active.lines) :
              t = [active EXCEPT !.lines = SubSeq(active.lines, 1, k)]
  BY <1>1, <1>2, <1>3, <1>6
<1>7. CASE \E k \in (durable + 1)..Len(active.lines) :
              t = [active EXCEPT !.lines = SubSeq(active.lines, 1, k), !.nl = FALSE]
  <2>1. PICK k \in (durable + 1)..Len(active.lines) :
              t = [active EXCEPT !.lines = SubSeq(active.lines, 1, k), !.nl = FALSE]
    BY <1>7
  <2>2. k \in durable..Len(active.lines) /\ k > durable
    BY <1>1
  <2> QED
    BY <1>1, <1>2, <1>4, <2>1, <2>2
<1> QED
  BY <1>5, <1>6, <1>7

\* The Log that Open restores from what is on disk.
LEMMA RestoreFacts ==
    ASSUME NEW file \in File
    PROVE  LET l == restoreChain(file) IN
           /\ l \in LogState /\ l.up
           /\ file.lines = <<>> => l.prev = 0
           /\ file.lines # <<>> => /\ l.prev = Last(file.lines).h /\ l.seq = Last(file.lines).seq
                                   /\ l.needsNewline = ~file.nl
<1>1. CASE file.lines = <<>>
  BY <1>1 DEF restoreChain, LogState
<1>2. CASE file.lines # <<>>
  <2> DEFINE p == Last(file.lines).h
             s == Last(file.lines).seq
             n == ~file.nl
  <2>1. file.lines \in Seq(Line) /\ n \in BOOLEAN
    BY DEF File
  <2>2. Last(file.lines) \in Line
    BY <1>2, <2>1, EmptySeq, ElementOfSeq DEF Last
  <2>3. p \in Nat /\ s \in Nat
    BY <2>2 DEF Line
  <2>4. restoreChain(file) = [up |-> TRUE, f |-> TRUE, prev |-> p, seq |-> s, needsNewline |-> n]
    BY <1>2 DEF restoreChain
  <2> HIDE DEF p, s, n
  <2>5. LET l == [up |-> TRUE, f |-> TRUE, prev |-> p, seq |-> s, needsNewline |-> n] IN
        /\ l \in LogState /\ l.up = TRUE /\ l.prev = p /\ l.seq = s /\ l.needsNewline = n
    BY <2>1, <2>3, LogRecord
  <2> QED
    BY <1>2, <2>4, <2>5 DEF p, s, n
<1> QED
  BY <1>1, <1>2

-----------------------------------------------------------------------------
(* Whatever the faults: BookInv.                                           *)

\* One more fault keeps within the bound.
LEMMA StrikesType ==
    ASSUME TypeOK, NEW kind, Strikes(kind)
    PROVE  faults' \in 0..MaxFaults /\ faulty' = TRUE /\ kind \in Faults
BY AuditAssumption DEF Strikes, TypeOK

\* The start of an Append: nothing moves, the full file becomes the youngest rotated
\* one, or the rename fails.
LEMMA RotateCases ==
    ASSUME TypeOK, maybeRotate
    PROVE  /\ log.up /\ pc = "idle" /\ pc' = "write" /\ UNCHANGED <<count, acked, anew>>
           /\ faults' \in 0..MaxFaults /\ faulty' \in BOOLEAN
           /\ log' \in LogState /\ log'.up = log.up /\ log'.prev = log.prev
           /\ \/ /\ UNCHANGED <<rotated, active, durable>>
                 /\ log'.seq = log.seq /\ log'.needsNewline = log.needsNewline
              \/ /\ rotated' = Append(rotated, active) /\ active.lines # <<>>
                 /\ active' \in File /\ active'.lines = <<>> /\ active'.nl
                 /\ durable' = 0
                 /\ log'.seq = 0
<1>0. log \in LogState /\ active.lines \in Seq(Line) /\ Len(<<>>) = 0
  BY EmptySeq DEF TypeOK, File
<1>1. /\ log.up /\ pc = "idle" /\ pc' = "write" /\ UNCHANGED <<count, acked, anew>>
  BY DEF maybeRotate
<1>2. CASE log.f /\ Len(active.lines) >= MaxLines
  <2>1. active.lines # <<>>
    BY <1>0, <1>2, AuditAssumption
  <2>2. CASE RotateRenamed
    <3>1. /\ rotated' = Append(rotated, active) /\ active' = EmptyFile /\ durable' = 0
          /\ faulty' = FALSE /\ faults' = faults
      BY <2>2 DEF RotateRenamed
    <3>2. /\ log' \in LogState /\ log'.up = log.up /\ log'.prev = log.prev /\ log'.seq = 0
      BY <2>2, <1>0, RotateFacts, Zenon DEF RotateRenamed
    <3> QED
      BY <1>1, <2>1, <3>1, <3>2, EmptyFileFacts DEF TypeOK
  <2>3. CASE RotateOpenFails
    <3>1. /\ rotated' = Append(rotated, active) /\ active' = NoFile /\ durable' = 0
          /\ Strikes("open")
      BY <2>3 DEF RotateOpenFails
    <3>2. /\ log' \in LogState /\ log'.up = log.up /\ log'.prev = log.prev /\ log'.seq = 0
      BY <2>3, <1>0, RotateFacts, Zenon DEF RotateOpenFails
    <3> QED
      BY <1>1, <2>1, <3>1, <3>2, EmptyFileFacts, StrikesType
  <2>4. CASE RotateRenameFails
    <3>1. /\ UNCHANGED <<rotated, active, durable>> /\ Strikes("rename")
          /\ log' \in {log, [log EXCEPT !.f = FALSE]}
      BY <2>4 DEF RotateRenameFails
    <3>2. /\ log' \in LogState /\ log'.up = log.up /\ log'.prev = log.prev
          /\ log'.seq = log.seq /\ log'.needsNewline = log.needsNewline
      BY <3>1, <1>0, RenameFacts, Zenon
    <3>3. faults' \in 0..MaxFaults /\ faulty' = TRUE
      BY <3>1, StrikesType
    <3> HIDE DEF LogState
    <3> QED
      BY <1>1, <3>1, <3>2, <3>3, Zenon
  <2> QED
    BY <1>2, <2>2, <2>3, <2>4 DEF maybeRotate
<1>3. CASE ~(log.f /\ Len(active.lines) >= MaxLines)
  <2>1. faulty' = FALSE /\ UNCHANGED <<rotated, active, durable, log, faults>>
    BY <1>3 DEF maybeRotate
  <2> QED
    BY <1>0, <1>1, <2>1 DEF TypeOK
<1> QED
  BY <1>2, <1>3

\* Every step keeps the books.
LEMMA BookNext == BookInv /\ [Next]_vars => BookInv'
<1> SUFFICES ASSUME BookInv, [Next]_vars PROVE BookInv'
  OBVIOUS
<1>0. /\ TypeOK /\ active \in File /\ active.lines \in Seq(Line) /\ Len(active.lines) \in Nat
      /\ durable \in Nat /\ durable <= Len(active.lines) /\ log \in LogState /\ count \in Nat
      /\ acked \in SUBSET (1..count) /\ Len(rotated) \in Nat
  BY LenProperties DEF BookInv, TypeOK, File
<1>1. CASE maybeRotate
  <2>1. /\ log.up /\ pc' = "write" /\ UNCHANGED <<count, acked, anew>>
        /\ faults' \in 0..MaxFaults /\ faulty' \in BOOLEAN
        /\ log' \in LogState /\ log'.up = log.up
    BY <1>0, <1>1, RotateCases
  <2>2. CASE UNCHANGED <<rotated, active, durable>>
    BY <2>1, <2>2 DEF BookInv, TypeOK
  <2>3. CASE /\ rotated' = Append(rotated, active) /\ durable' = 0
             /\ active' \in File /\ active'.lines = <<>>
    <3>1. rotated' \in Seq(File) /\ Len(rotated') = Len(rotated) + 1
      BY <1>0, <2>3, AppendProperties DEF TypeOK
    <3>a. anew' \subseteq 2..(Len(rotated') + 1)
      BY <1>0, <2>1, <3>1 DEF TypeOK
    <3>2. Len(active'.lines) = 0
      BY <2>3, EmptySeq
    <3> QED
      BY <2>1, <2>3, <3>1, <3>a, <3>2 DEF BookInv, TypeOK
  <2> QED
    BY <1>0, <1>1, <2>2, <2>3, RotateCases
<1>2. CASE OpenFails
  <2>1. faults' \in 0..MaxFaults /\ faulty' = TRUE
    BY <1>0, <1>2, StrikesType DEF OpenFails
  <2> QED
    BY <1>2, <2>1 DEF OpenFails, BookInv, TypeOK
<1>3. CASE Write
  <2>1. PICK long \in BOOLEAN :
        /\ pc = "write" /\ pc' = "sync" /\ count' = count + 1
        /\ UNCHANGED <<rotated, durable, acked, anew, faults, faulty>>
        /\ log' = CommitOf(NextEntry(long), TRUE)
        /\ active' = Written(Terminated(OpenFile(active)), NextEntry(long), "all")
    BY <1>3 DEF Write, NoFault
  <2>2. log' \in LogState /\ log'.up = log.up
    BY <1>0, <2>1, CommitFacts
  <2>3. active' \in File /\ active'.exists /\ Len(active'.lines) >= Len(active.lines)
    BY <2>1, TargetFacts
  <2>4. Len(active'.lines) \in Nat
    BY <2>3, LenProperties DEF File
  <2>5. durable' \in 0..Len(active'.lines)
    BY <1>0, <2>1, <2>3, <2>4
  <2>6. count' \in Nat /\ count' > 0 /\ count' \notin acked' /\ acked' \in SUBSET (1..count')
    BY <1>0, <2>1
  <2> QED
    BY <2>1, <2>2, <2>3, <2>5, <2>6 DEF BookInv, TypeOK
<1>4. CASE WriteFails
  <2>1. /\ pc' = "idle" /\ count' = count + 1
        /\ UNCHANGED <<rotated, durable, acked, anew>>
        /\ log' = CommitOf(NextEntry(FALSE), FALSE)
        /\ faults' \in 0..MaxFaults /\ faulty' = TRUE
    BY <1>0, <1>4, StrikesType DEF WriteFails
  <2>2. log' \in LogState /\ log'.up = log.up
    BY <1>0, <2>1, CommitFacts
  <2>3. active' \in File /\ active'.exists /\ Len(active'.lines) >= Len(active.lines)
    <3>1. CASE active' = OpenFile(active)
      BY <1>0, <3>1, OpenFileFacts DEF BookInv
    <3>2. ASSUME NEW part \in {"line", "some"}, NEW long \in BOOLEAN,
                 active' = Written(Terminated(OpenFile(active)), NextEntry(long), part)
          PROVE  active' \in File /\ active'.exists /\ Len(active'.lines) >= Len(active.lines)
      BY <3>2, TargetFacts
    <3> QED
      BY <1>4, <3>1, <3>2 DEF WriteFails
  <2>4. Len(active'.lines) \in Nat
    BY <2>3, LenProperties DEF File
  <2>5. durable' \in 0..Len(active'.lines)
    BY <1>0, <2>1, <2>3, <2>4
  <2>6. count' \in Nat /\ acked' \in SUBSET (1..count')
    BY <1>0, <2>1
  <2> QED
    BY <2>1, <2>2, <2>3, <2>5, <2>6 DEF BookInv, TypeOK
<1>5. CASE Sync
  <2>1. /\ pc = "sync" /\ pc' = "idle" /\ durable' = Len(active.lines)
        /\ acked' = acked \cup {count}
        /\ UNCHANGED <<faults, faulty, rotated, active, log, count, anew>>
    BY <1>5 DEF Sync, NoFault
  <2>2. acked' \in SUBSET (1..count')
    BY <1>0, <2>1 DEF BookInv
  <2>3. durable' \in 0..Len(active'.lines)
    BY <1>0, <2>1
  <2> QED
    BY <2>1, <2>2, <2>3 DEF BookInv, TypeOK
<1>6. CASE SyncFails
  <2>1. faults' \in 0..MaxFaults /\ faulty' = TRUE
    BY <1>0, <1>6, StrikesType DEF SyncFails
  <2> QED
    BY <1>6, <2>1 DEF SyncFails, BookInv, TypeOK
<1>7. CASE Crash
  <2>1. /\ active' \in Survivors /\ durable' = Len(active'.lines) /\ log' = LogDown
        /\ pc' = "idle" /\ UNCHANGED <<rotated, count, acked, anew>>
    BY <1>7 DEF Crash
  <2>2. faults' \in 0..MaxFaults /\ faulty' = TRUE
    BY <1>0, <1>7, StrikesType DEF Crash
  <2>3. /\ active' \in File /\ active'.exists = active.exists
        /\ Len(active'.lines) \in durable..Len(active.lines)
    BY <1>0, <2>1, SurvivorFacts
  <2>4. LogDown \in LogState
    BY DEF LogDown, LogState
  <2>5. durable' \in 0..Len(active'.lines)
    BY <1>0, <2>1, <2>3
  <2>6. ~active'.exists => active'.lines = <<>>
    <3>1. active'.lines \in Seq(Line) /\ (active.lines = <<>> => Len(active.lines) = 0)
      BY <2>3, EmptySeq DEF File
    <3> QED
      BY <1>0, <2>3, <3>1, EmptySeq DEF BookInv
  <2> QED
    BY <2>1, <2>2, <2>3, <2>4, <2>5, <2>6 DEF BookInv, TypeOK
<1>8. CASE Restart
  <2>1. /\ log' = restoreChain(active) /\ active' = OpenFile(active) /\ faulty' = FALSE
        /\ UNCHANGED <<rotated, durable, pc, count, acked, faults>>
    BY <1>8 DEF Restart
  <2>2. log' \in LogState /\ log'.up
    BY <1>0, <2>1, RestoreFacts
  <2>3. active' \in File /\ active'.exists /\ active'.lines = active.lines
    BY <1>0, <2>1, OpenFileFacts DEF BookInv
  <2>4. anew' \subseteq 2..(Len(rotated) + 1)
    <3>1. rotated # <<>> => Len(rotated) > 0
      BY <1>0, EmptySeq DEF TypeOK
    <3>2. anew \subseteq 2..(Len(rotated) + 1)
      BY <1>0 DEF TypeOK
    <3>3. \/ anew' = anew
          \/ rotated # <<>> /\ anew' = anew \cup {Len(rotated) + 1}
      BY <1>8 DEF Restart
    <3>4. rotated # <<>> => Len(rotated) + 1 \in 2..(Len(rotated) + 1)
      BY <1>0, <3>1
    <3> QED
      BY <3>2, <3>3, <3>4, Zenon
  <2> QED
    BY <2>1, <2>2, <2>3, <2>4 DEF BookInv, TypeOK
<1>9. CASE UNCHANGED vars
  BY <1>9 DEF vars, BookInv, TypeOK
<1> QED
  BY <1>1, <1>2, <1>3, <1>4, <1>5, <1>6, <1>7, <1>8, <1>9 DEF Next

\* A log that was never opened.
LEMMA BookInit == Init => BookInv
<1> SUFFICES ASSUME Init PROVE BookInv
  OBVIOUS
<1>1. <<>> \in Seq(File) /\ Len(<<>>) = 0
  BY EmptySeq
<1>2. LogDown \in LogState /\ 0 \in 0..MaxFaults
  BY AuditAssumption DEF LogDown, LogState
<1>3. Len(active.lines) = 0 /\ active \in File /\ active.lines = <<>>
  BY <1>1, EmptyFileFacts DEF Init
<1>4. /\ durable \in 0..Len(active.lines) /\ acked \in SUBSET (1..count)
      /\ anew \subseteq 2..(Len(rotated) + 1)
  BY <1>3 DEF Init
<1>5. /\ rotated \in Seq(File) /\ log \in LogState /\ pc \in {"idle", "write", "sync"}
      /\ count \in Nat /\ faults \in 0..MaxFaults /\ faulty \in BOOLEAN
  BY <1>1, <1>2 DEF Init
<1>6. TypeOK
  BY <1>3, <1>4, <1>5 DEF TypeOK
<1> QED
  BY <1>3, <1>6 DEF Init, BookInv

\* Append either fails for a fault of its own or acknowledges a new entry: an
\* Append that meets no fault is never silently dropped, also after rotations
\* that left the log without a handle.
THEOREM AppendsHeal == Spec => AppendHeals
<1>1. BookInv /\ [Next]_vars => [pc # "idle" /\ pc' = "idle" /\ ~faulty' => acked' # acked]_vars
  <2> SUFFICES ASSUME BookInv, Next, pc # "idle", pc' = "idle", ~faulty'
               PROVE  acked' # acked
    OBVIOUS
  <2>1. /\ ~maybeRotate /\ ~Write
    BY DEF maybeRotate, Write
  <2>2. /\ ~OpenFails /\ ~WriteFails /\ ~SyncFails /\ ~Crash
    BY DEF OpenFails, WriteFails, SyncFails, Crash, Strikes
  <2>3. ~Restart
    BY DEF Restart, BookInv
  <2>4. Sync
    BY <2>1, <2>2, <2>3 DEF Next
  <2> QED
    BY <2>4 DEF Sync, BookInv
<1> QED
  BY <1>1, BookInit, BookNext, PTL DEF Spec, AppendHeals

-----------------------------------------------------------------------------
(* Without torn writes: KeptInv.                                           *)

\* Every step keeps what was acknowledged.
LEMMA KeptNext ==
    ASSUME "short" \notin Faults, BookInv, BookInv', KeptInv, [Next]_vars
    PROVE  KeptInv'
<1>0. /\ TypeOK /\ active \in File /\ active.lines \in Seq(Line) /\ Len(active.lines) \in Nat
      /\ durable \in Nat /\ durable <= Len(active.lines) /\ log \in LogState /\ count \in Nat
      /\ rotated \in Seq(File) /\ Len(rotated) \in Nat
      /\ active' \in File /\ active'.lines \in Seq(Line) /\ Len(active'.lines) \in Nat
  BY LenProperties DEF BookInv, TypeOK, File
<1> DEFINE InRotated(h) == \E n \in 1..Len(rotated) : \E i \in 1..Len(rotated[n].lines) :
                              Holds(rotated[n], i, h)
           Synced(h) == \E i \in 1..durable : Holds(active, i, h)
<1>1. CASE maybeRotate
  <2>1. /\ log.up /\ pc' = "write" /\ UNCHANGED <<count, acked, anew>> /\ log'.up = log.up
    BY <1>0, <1>1, RotateCases
  <2>2. CASE /\ UNCHANGED <<rotated, active, durable>> /\ log'.needsNewline = log.needsNewline
    BY <2>1, <2>2 DEF KeptInv, Holds
  <2>3. CASE /\ rotated' = Append(rotated, active) /\ durable' = 0
             /\ active'.lines = <<>> /\ active'.nl
    <3>1. /\ Len(rotated') = Len(rotated) + 1 /\ rotated'[Len(rotated) + 1] = active
          /\ \A n \in 1..Len(rotated) : rotated'[n] = rotated[n]
      BY <1>0, <2>3, AppendProperties
    <3>2. ASSUME NEW h \in acked
          PROVE  \E n \in 1..Len(rotated') : \E i \in 1..Len(rotated'[n].lines) :
                     Holds(rotated'[n], i, h)
      <4>1. CASE InRotated(h)
        <5>1. PICK n \in 1..Len(rotated) : \E i \in 1..Len(rotated[n].lines) :
                       Holds(rotated[n], i, h)
          BY <4>1
        <5>2. n \in 1..Len(rotated') /\ rotated'[n] = rotated[n]
          BY <1>0, <3>1
        <5> QED
          BY <5>1, <5>2
      <4>2. CASE Synced(h)
        <5>1. PICK i \in 1..durable : Holds(active, i, h)
          BY <4>2
        <5>2. i \in 1..Len(active.lines) /\ Len(rotated) + 1 \in 1..Len(rotated')
          BY <1>0, <3>1
        <5> QED
          BY <3>1, <5>1, <5>2
      <4> QED
        BY <4>1, <4>2 DEF KeptInv
    <3> QED
      BY <2>1, <2>3, <3>2 DEF KeptInv
  <2> QED
    BY <1>0, <1>1, <2>2, <2>3, RotateCases
<1>2. CASE OpenFails
  BY <1>2 DEF OpenFails, KeptInv, Holds
<1>3. CASE Write
  <2>1. PICK long \in BOOLEAN :
        /\ pc' = "sync" /\ count' = count + 1
        /\ UNCHANGED <<rotated, durable, acked>>
        /\ active' = Written(Terminated(OpenFile(active)), NextEntry(long), "all")
    BY <1>3 DEF Write
  <2>2. log.up
    BY <1>3 DEF Write, BookInv
  <2>3. active'.nl /\ active'.lines = Append(active.lines, NextEntry(long))
    BY <2>1, <2>2, TargetFacts DEF KeptInv
  <2>4. NextEntry(long) \in Line /\ NextEntry(long).h = count' /\ NextEntry(long).kind = "entry"
    BY <1>0, <2>1, NextEntryFacts
  <2>5. /\ Len(active'.lines) = Len(active.lines) + 1
        /\ \A i \in 1..Len(active.lines) : active'.lines[i] = active.lines[i]
        /\ active'.lines[Len(active'.lines)] = NextEntry(long)
    BY <1>0, <2>3, <2>4, AppendProperties
  <2>6. active'.lines # <<>> /\ Holds(active', Len(active'.lines), count')
    BY <1>0, <2>4, <2>5, EmptySeq DEF Holds
  <2>7. ASSUME NEW h, Synced(h)
        PROVE  \E i \in 1..durable' : Holds(active', i, h)
    <3>1. PICK i \in 1..durable : Holds(active, i, h)
      BY <2>7
    <3>2. i \in 1..Len(active.lines) /\ durable' = durable
      BY <1>0, <2>1, <3>1
    <3>3. active'.lines[i] = active.lines[i] /\ i \in 1..Len(active'.lines)
      BY <1>0, <2>5, <3>2
    <3>4. Holds(active', i, h)
      BY <3>1, <3>2, <3>3 DEF Holds
    <3> QED
      BY <3>1, <3>2, <3>4
  <2> QED
    BY <2>1, <2>3, <2>6, <2>7 DEF KeptInv
<1>4. CASE WriteFails
  <2>1. /\ pc' = "idle" /\ UNCHANGED <<rotated, durable, acked>>
        /\ active' = OpenFile(active) /\ log' = CommitOf(NextEntry(FALSE), FALSE)
    BY <1>4 DEF WriteFails, Strikes
  <2>2. log'.up = log.up /\ log'.needsNewline = log.needsNewline
    BY <1>0, <2>1, CommitFacts
  <2>3. active'.lines = active.lines /\ (active.nl => active'.nl)
    BY <1>0, <2>1, OpenFileFacts DEF BookInv
  <2>4. log'.up /\ ~active'.nl => log'.needsNewline
    BY <2>2, <2>3, Zenon DEF KeptInv
  <2>5. pc' = "idle" /\ UNCHANGED <<rotated, durable, acked>>
    BY <2>1
  <2>6. ~active'.nl => durable' > 0
    BY <2>3, <2>5 DEF KeptInv
  <2>7. \A i : \A h : Holds(active', i, h) <=> Holds(active, i, h)
    BY <2>3 DEF Holds
  <2> QED
    BY <2>4, <2>5, <2>6, <2>7 DEF KeptInv
<1>5. CASE Sync
  <2>1. /\ pc = "sync" /\ pc' = "idle" /\ durable' = Len(active.lines)
        /\ acked' = acked \cup {count}
        /\ UNCHANGED <<rotated, active, log, count>>
    BY <1>5 DEF Sync
  <2>2. Len(active.lines) \in 1..durable' /\ Holds(active, Len(active.lines), count)
    BY <1>0, <2>1, EmptySeq DEF KeptInv
  <2>3. ASSUME NEW h, Synced(h)
        PROVE  \E i \in 1..durable' : Holds(active', i, h)
    BY <1>0, <2>1, <2>3
  <2>4. \E i \in 1..durable' : Holds(active', i, count)
    BY <2>1, <2>2
  <2> QED
    BY <2>1, <2>3, <2>4 DEF KeptInv
<1>6. CASE SyncFails
  BY <1>6 DEF SyncFails, KeptInv, Holds
<1>7. CASE Crash
  <2>1. /\ active' \in Survivors /\ durable' = Len(active'.lines) /\ log' = LogDown
        /\ pc' = "idle" /\ UNCHANGED <<rotated, count, acked>>
    BY <1>7 DEF Crash
  <2>2. /\ Len(active'.lines) \in durable..Len(active.lines)
        /\ \A i \in 1..Len(active'.lines) : active'.lines[i] = active.lines[i]
        /\ ~active'.nl => ~active.nl \/ Len(active'.lines) > durable
    BY <1>0, <2>1, SurvivorFacts
  <2>3. ~log'.up
    BY <2>1 DEF LogDown
  <2>4. ~active'.nl => durable' > 0
    BY <1>0, <2>1, <2>2 DEF KeptInv
  <2>5. ASSUME NEW h, Synced(h)
        PROVE  \E i \in 1..durable' : Holds(active', i, h)
    BY <1>0, <2>1, <2>2, <2>5 DEF Holds
  <2> QED
    BY <2>1, <2>3, <2>4, <2>5 DEF KeptInv
<1>8. CASE Restart
  <2>1. /\ log' = restoreChain(active) /\ active' = OpenFile(active)
        /\ UNCHANGED <<rotated, durable, pc, count, acked>> /\ ~log.up
    BY <1>8 DEF Restart
  <2>2. pc' = "idle"
    BY <2>1 DEF BookInv, TypeOK
  <2>3. active'.lines = active.lines /\ (active.nl => active'.nl)
    BY <1>0, <2>1, OpenFileFacts DEF BookInv
  <2>4. active.exists => active' = active
    BY <1>0, <2>1, OpenFileFacts
  <2>5. ~active'.nl => log'.needsNewline
    <3> SUFFICES ASSUME ~active'.nl PROVE log'.needsNewline
      OBVIOUS
    <3>1. ~active.nl
      BY <2>3
    <3>2. active.lines # <<>>
      BY <1>0, <3>1, EmptySeq DEF KeptInv
    <3> QED
      BY <1>0, <2>1, <3>1, <3>2, RestoreFacts
  <2> QED
    BY <2>1, <2>2, <2>3, <2>5 DEF KeptInv, Holds
<1>9. CASE UNCHANGED vars
  BY <1>9 DEF vars, KeptInv, Holds
<1> QED
  BY <1>1, <1>2, <1>3, <1>4, <1>5, <1>6, <1>7, <1>8, <1>9 DEF Next

-----------------------------------------------------------------------------
(* Without torn writes and emptied files: ChainInv.                        *)

\* A chain that continues with the right sequence number and hash is a chain.
LEMMA ExtendChain ==
    ASSUME NEW file, file.lines \in Seq(Line), Chained(file),
           NEW e \in Line, e.kind = "entry",
           file.lines # <<>> => e.seq = Last(file.lines).seq + 1 /\ e.prev = Last(file.lines).h,
           NEW t, t.lines = Append(file.lines, e)
    PROVE  Chained(t) /\ t.lines # <<>> /\ Last(t.lines) = e
           /\ t.lines[1] = IF file.lines = <<>> THEN e ELSE file.lines[1]
<1> DEFINE n == Len(file.lines)
<1>1. /\ n \in Nat /\ t.lines \in Seq(Line) /\ Len(t.lines) = n + 1
      /\ \A i \in 1..n : t.lines[i] = file.lines[i]
      /\ t.lines[n + 1] = e
  BY LenProperties, AppendProperties
<1>2. (n = 0 <=> file.lines = <<>>) /\ t.lines # <<>>
  <2>1. file.lines # <<>> => n # 0
    BY EmptySeq
  <2>2. Len(<<>>) = 0
    BY EmptySeq
  <2>3. t.lines # <<>>
    BY <1>1, <2>2
  <2> QED
    BY <2>1, <2>2, <2>3
<1>3. ASSUME NEW i \in 1..Len(t.lines)
      PROVE  /\ t.lines[i].kind = "entry"
             /\ i > 1 => /\ t.lines[i].seq = t.lines[i - 1].seq + 1
                         /\ t.lines[i].prev = t.lines[i - 1].h
  <2>1. CASE i \in 1..n
    <3>1. i > 1 => i - 1 \in 1..n
      BY <1>1, <2>1
    <3> QED
      BY <1>1, <2>1, <3>1 DEF Chained
  <2>2. CASE i = n + 1
    <3>1. i > 1 => n \in 1..n /\ i - 1 = n /\ file.lines # <<>>
      BY <1>1, <1>2, <2>2
    <3> QED
      BY <1>1, <2>2, <3>1 DEF Last
  <2> QED
    BY <1>1, <2>1, <2>2
<1>4. Chained(t)
  BY <1>3 DEF Chained
<1>5. Last(t.lines) = e
  BY <1>1 DEF Last
<1>6. t.lines[1] = IF file.lines = <<>> THEN e ELSE file.lines[1]
  <2>1. file.lines # <<>> => 1 \in 1..n
    BY <1>1, <1>2
  <2>2. file.lines = <<>> => n + 1 = 1
    BY <1>2
  <2> HIDE DEF n
  <2> QED
    BY <1>1, <2>1, <2>2
<1> QED
  BY <1>2, <1>4, <1>5, <1>6

\* A beginning of a chain is a chain.
LEMMA PrefixChain ==
    ASSUME NEW file, file.lines \in Seq(Line), Chained(file),
           NEW t, t.lines \in Seq(Line), Len(t.lines) <= Len(file.lines),
           \A i \in 1..Len(t.lines) : t.lines[i] = file.lines[i]
    PROVE  Chained(t) /\ (t.lines # <<>> => t.lines[1] = file.lines[1])
<1>1. Len(t.lines) \in Nat /\ Len(file.lines) \in Nat
  BY LenProperties
<1>2. ASSUME NEW i \in 1..Len(t.lines)
      PROVE  /\ t.lines[i].kind = "entry"
             /\ i > 1 => /\ t.lines[i].seq = t.lines[i - 1].seq + 1
                         /\ t.lines[i].prev = t.lines[i - 1].h
  <2>1. i \in 1..Len(file.lines) /\ (i > 1 => i - 1 \in 1..Len(t.lines))
    BY <1>1
  <2> QED
    BY <2>1 DEF Chained
<1>3. Chained(t)
  BY <1>2 DEF Chained
<1>4. ASSUME t.lines # <<>> PROVE t.lines[1] = file.lines[1]
  <2>1. 1 \in 1..Len(t.lines)
    BY <1>1, <1>4, EmptySeq
  <2> QED
    BY <2>1
<1> QED
  BY <1>3, <1>4

\* Every step keeps the chain.
LEMMA ChainNext ==
    ASSUME "short" \notin Faults, BookInv, BookInv', KeptInv, ChainInv, [Next]_vars
    PROVE  ChainInv'
<1>0. /\ TypeOK /\ active \in File /\ active.lines \in Seq(Line) /\ Len(active.lines) \in Nat
      /\ log \in LogState /\ rotated \in Seq(File) /\ Len(rotated) \in Nat
      /\ active' \in File /\ active'.lines \in Seq(Line) /\ Len(active'.lines) \in Nat
      /\ anew \subseteq 2..(Len(rotated) + 1)
  BY LenProperties DEF BookInv, TypeOK, File
<1>1. ASSUME UNCHANGED <<rotated, anew>>, active'.lines = active.lines,
             log'.up => log.up /\ log'.prev = log.prev /\ log'.seq = log.seq, log.up => log'.up
      PROVE  ChainInv'
  <2>1. Chained(active)'
    BY <1>1 DEF ChainInv, Chained
  <2> QED
    BY <1>1, <2>1 DEF ChainInv
<1>2. CASE maybeRotate
  <2>1. log.up /\ log'.up /\ log'.prev = log.prev /\ anew' = anew
    BY <1>0, <1>2, RotateCases
  <2>2. CASE UNCHANGED <<rotated, active, durable>> /\ log'.seq = log.seq
    BY <1>1, <2>1, <2>2
  <2>3. CASE /\ rotated' = Append(rotated, active) /\ active.lines # <<>>
             /\ active'.lines = <<>>
    <3> DEFINE N == Len(rotated)
    <3>1. /\ Len(rotated') = N + 1 /\ rotated'[N + 1] = active
          /\ \A n \in 1..N : rotated'[n] = rotated[n]
          /\ rotated' \in Seq(File)
      BY <1>0, <2>3, AppendProperties
    <3>2. rotated' # <<>> /\ (rotated # <<>> => N > 0) /\ (rotated = <<>> => N = 0)
      BY <1>0, <3>1, EmptySeq
    <3>a. N + 2 \notin anew /\ N + 2 # 1 /\ Len(rotated') + 1 = N + 2
      BY <1>0, <3>1
    <3>b. ASSUME NEW n \in 1..(N + 1)
          PROVE  Seed(rotated', anew', n) = Seed(rotated, anew, n)
      <4>1. n # 1 => n - 1 \in 1..N
        BY <1>0
      <4> QED
        BY <2>1, <3>1, <4>1 DEF Seed
    <3>3. ASSUME NEW n \in 1..Len(rotated')
          PROVE  /\ Chained(rotated'[n])
                 /\ rotated'[n].lines # <<>>
                 /\ rotated'[n].lines[1].prev = Seed(rotated', anew', n)
      <4>0. n \in 1..(N + 1)
        BY <3>1
      <4>1. CASE n \in 1..N
        BY <3>1, <3>b, <4>0, <4>1 DEF ChainInv
      <4>2. CASE n = N + 1
        <5>1. active.lines[1].prev = Seed(rotated, anew, N + 1) /\ Chained(active)
          BY <2>3 DEF ChainInv
        <5> QED
          BY <2>3, <3>1, <3>b, <4>0, <4>2, <5>1
      <4> QED
        BY <1>0, <4>0, <4>1, <4>2
    <3>4. Seed(rotated', anew', Len(rotated') + 1) = Last(active.lines).h
      <4>1. N + 2 - 1 = N + 1
        BY <1>0
      <4> QED
        BY <2>1, <3>1, <3>a, <4>1 DEF Seed
    <3>5. log'.prev = Seed(rotated', anew', Len(rotated') + 1)
      BY <2>1, <2>3, <3>4 DEF ChainInv
    <3>6. Chained(active')
      BY <2>3, EmptySeq DEF Chained
    <3> QED
      BY <2>1, <2>3, <3>3, <3>5, <3>6 DEF ChainInv
  <2> QED
    BY <1>0, <1>2, <2>2, <2>3, RotateCases
<1>3. CASE Write
  <2>1. PICK long \in BOOLEAN :
        /\ UNCHANGED <<rotated, anew>> /\ log' = CommitOf(NextEntry(long), TRUE)
        /\ active' = Written(Terminated(OpenFile(active)), NextEntry(long), "all")
    BY <1>3 DEF Write
  <2>2. log.up
    BY <1>3 DEF Write, BookInv
  <2>3. active'.lines = Append(active.lines, NextEntry(long))
    BY <2>1, <2>2, TargetFacts DEF KeptInv
  <2>4. /\ NextEntry(long) \in Line /\ NextEntry(long).kind = "entry" /\ NextEntry(long).h = count + 1
        /\ NextEntry(long).seq = log.seq + 1 /\ NextEntry(long).prev = log.prev
    BY <1>0, NextEntryFacts
  <2>5. log'.prev = NextEntry(long).h /\ log'.seq = NextEntry(long).seq
    BY <1>0, <2>1, <2>4, CommitFacts
  <2>6. active.lines # <<>> =>
          NextEntry(long).seq = Last(active.lines).seq + 1 /\ NextEntry(long).prev = Last(active.lines).h
    BY <2>2, <2>4 DEF ChainInv
  <2>7. Chained(active)
    BY DEF ChainInv
  <2>8. /\ Chained(active') /\ active'.lines # <<>> /\ Last(active'.lines) = NextEntry(long)
        /\ active'.lines[1] = IF active.lines = <<>> THEN NextEntry(long) ELSE active.lines[1]
    BY <1>0, <2>3, <2>4, <2>6, <2>7, ExtendChain
  <2>9. active'.lines[1].prev = Seed(rotated, anew, Len(rotated) + 1)
    BY <2>2, <2>4, <2>8 DEF ChainInv
  <2>10. log'.prev = Last(active'.lines).h /\ log'.seq = Last(active'.lines).seq
    BY <2>5, <2>8
  <2>11. UNCHANGED <<rotated, anew>>
    BY <2>1
  <2> QED
    BY <2>8, <2>9, <2>10, <2>11 DEF ChainInv
<1>4. CASE OpenFails
  BY <1>1, <1>4 DEF OpenFails
<1>5. CASE WriteFails
  <2>1. /\ UNCHANGED <<rotated, anew>> /\ active' = OpenFile(active) /\ log' = CommitOf(NextEntry(FALSE), FALSE)
    BY <1>5 DEF WriteFails, Strikes
  <2>2. log'.up = log.up /\ log'.prev = log.prev /\ log'.seq = log.seq
    BY <1>0, <2>1, CommitFacts
  <2>3. active'.lines = active.lines
    BY <1>0, <2>1, OpenFileFacts DEF BookInv
  <2> QED
    BY <1>1, <2>1, <2>2, <2>3, Zenon
<1>6. CASE Sync \/ SyncFails
  BY <1>1, <1>6 DEF Sync, SyncFails
<1>7. CASE Crash
  <2>1. /\ active' \in Survivors /\ log' = LogDown /\ UNCHANGED <<rotated, anew>>
    BY <1>7 DEF Crash
  <2>2. /\ Len(active'.lines) <= Len(active.lines)
        /\ \A i \in 1..Len(active'.lines) : active'.lines[i] = active.lines[i]
    BY <1>0, <2>1, SurvivorFacts DEF TypeOK
  <2>3. Chained(active)
    BY DEF ChainInv
  <2>4. /\ Chained(active')
        /\ active'.lines # <<>> => active'.lines[1] = active.lines[1]
    BY <1>0, <2>2, <2>3, PrefixChain
  <2>5. active'.lines # <<>> => active.lines # <<>>
    BY <1>0, <2>2, EmptySeq
  <2>6. ~log'.up
    BY <2>1 DEF LogDown
  <2> QED
    BY <2>1, <2>4, <2>5, <2>6 DEF ChainInv
<1>8. CASE Restart
  <2>1. /\ ~log.up /\ log' = restoreChain(active) /\ active' = OpenFile(active)
        /\ rotated' = rotated
        /\ anew' = IF rotated # <<>> /\ active.lines = <<>> THEN anew \cup {Len(rotated) + 1}
                    ELSE anew
    BY <1>8 DEF Restart
  <2>2. active'.lines = active.lines
    BY <1>0, <2>1, OpenFileFacts DEF BookInv
  <2>3. Chained(active')
    BY <2>2 DEF ChainInv, Chained
  <2>4. ASSUME NEW n \in 1..Len(rotated)
        PROVE  Seed(rotated', anew', n) = Seed(rotated, anew, n)
    <3>1. n # Len(rotated) + 1
      BY <1>0
    <3> QED
      BY <2>1, <3>1 DEF Seed
  <2>5. active.lines # <<>> => anew' = anew
    BY <2>1
  <2>6. active.lines = <<>> => Seed(rotated', anew', Len(rotated') + 1) = 0
    <3>1. rotated = <<>> => Len(rotated) + 1 = 1
      BY EmptySeq
    <3> QED
      BY <2>1, <3>1 DEF Seed
  <2>7. log'.up
    BY <1>0, <2>1, RestoreFacts
  <2>8. /\ active.lines = <<>> => log'.prev = 0
        /\ active.lines # <<>> =>
              log'.prev = Last(active.lines).h /\ log'.seq = Last(active.lines).seq
    BY <1>0, <2>1, RestoreFacts
  <2>9. rotated' = rotated
    BY <2>1
  <2> QED
    BY <2>2, <2>3, <2>4, <2>5, <2>6, <2>7, <2>8, <2>9 DEF ChainInv
<1>9. CASE UNCHANGED vars
  BY <1>1, <1>9 DEF vars
<1> QED
  BY <1>2, <1>3, <1>4, <1>5, <1>6, <1>7, <1>8, <1>9 DEF Next

-----------------------------------------------------------------------------
(* The theorems.                                                           *)

\* Nothing is written and nothing acknowledged before the first Open.
LEMMA LogInit == Init => KeptInv /\ ChainInv
<1> SUFFICES ASSUME Init PROVE KeptInv /\ ChainInv
  OBVIOUS
<1>1. /\ active.lines = <<>> /\ active.nl /\ ~log.up /\ pc = "idle" /\ acked = {}
      /\ rotated = <<>> /\ Len(<<>>) = 0
  BY EmptyFileFacts, EmptySeq DEF Init, LogDown
<1> QED
  BY <1>1 DEF KeptInv, ChainInv, Chained

\* An acknowledged entry is in the log for good if no write is torn, whatever
\* failed Syncs, renames, opens and crashes follow, crashes that empty the active
\* file included: it was synced, or rotated with the file it is in.
THEOREM AcknowledgedForGood ==
    ASSUME "short" \notin Faults
    PROVE  Spec => []AcknowledgedSurvives
<1>1. BookInv /\ KeptInv => AcknowledgedSurvives
  <2> SUFFICES ASSUME BookInv, KeptInv, NEW h \in acked
               PROVE  \E file \in {active} \cup ToSet(rotated) : \E i \in DOMAIN file.lines :
                          file.lines[i].h = h /\ file.lines[i].kind = "entry"
    BY DEF AcknowledgedSurvives
  <2>1. /\ active.lines \in Seq(Line) /\ rotated \in Seq(File)
        /\ DOMAIN active.lines = 1..Len(active.lines) /\ DOMAIN rotated = 1..Len(rotated)
        /\ durable \in 0..Len(active.lines) /\ Len(active.lines) \in Nat
    BY LenProperties DEF BookInv, TypeOK, File
  <2>2. CASE \E i \in 1..durable : Holds(active, i, h)
    <3>1. PICK i \in 1..durable : Holds(active, i, h)
      BY <2>2
    <3>2. i \in DOMAIN active.lines
      BY <2>1
    <3> QED
      BY <3>1, <3>2 DEF Holds
  <2>3. CASE \E n \in 1..Len(rotated) : \E i \in 1..Len(rotated[n].lines) :
                Holds(rotated[n], i, h)
    <3>1. PICK n \in 1..Len(rotated) : \E i \in 1..Len(rotated[n].lines) : Holds(rotated[n], i, h)
      BY <2>3
    <3>2. PICK i \in 1..Len(rotated[n].lines) : Holds(rotated[n], i, h)
      BY <3>1
    <3>3. rotated[n] \in File
      BY <2>1, ElementOfSeq
    <3>4. i \in DOMAIN rotated[n].lines
      BY <3>3, LenProperties DEF File
    <3>5. rotated[n] \in ToSet(rotated)
      BY <2>1 DEF ToSet
    <3> QED
      BY <3>2, <3>4, <3>5 DEF Holds
  <2> QED
    BY <2>2, <2>3 DEF KeptInv
<1>2. BookInv /\ KeptInv /\ [Next]_vars => (BookInv /\ KeptInv)'
  BY BookNext, KeptNext
<1> QED
  BY <1>1, <1>2, BookInit, LogInit, PTL DEF Spec

\* What the verifier compares the first prev_hash of segment i with, if it could
\* read the segment before.
LEMMA PrevLastFacts ==
    ASSUME NEW seg, NEW i \in Nat \ {0}
    PROVE  /\ i = 1 => PrevLast(seg, i) = 0
           /\ i # 1 /\ auditFileBounds(seg[i - 1]) => PrevLast(seg, i) = Last(seg[i - 1].lines).h
<1> DEFINE read == {j \in 1..(i - 1) : auditFileBounds(seg[j])}
<1>1. PrevLast(seg, i) = IF read = {} THEN 0 ELSE Last(seg[Max(read)].lines).h
  BY Zenon DEF PrevLast
<1>2. ASSUME i = 1 PROVE read = {}
  BY <1>2
<1>3. ASSUME i # 1, auditFileBounds(seg[i - 1]) PROVE read # {} /\ Max(read) = i - 1
  <2>1. i - 1 \in read /\ \A j \in read : j \in Int /\ i - 1 >= j
    BY <1>3
  <2> HIDE DEF read
  <2>2. ASSUME NEW x \in read, \A y \in read : x >= y PROVE x = i - 1
    BY <2>1, <2>2
  <2>3. Max(read) \in read /\ \A y \in read : Max(read) >= y
    BY <2>1 DEF Max
  <2> QED
    BY <2>1, <2>2, <2>3
<1> HIDE DEF read
<1> QED
  BY <1>1, <1>2, <1>3

\* Every file of the log is a chain that has an entry, the active one at least when
\* it is not empty.
LEMMA SegmentFacts ==
    ASSUME BookInv, ChainInv, active.lines # <<>>
    PROVE  LET seg == discoverAuditSegments IN
           /\ Len(seg) \in Nat
           /\ \A n \in 1..Len(seg) :
                /\ Chained(seg[n]) /\ seg[n].lines # <<>> /\ seg[n].lines[1].kind = "entry"
                /\ seg[n].lines[1].prev = Seed(seg, anew, n)
<1>1. /\ active.lines \in Seq(Line) /\ rotated \in Seq(File) /\ active \in File
      /\ Len(rotated) \in Nat
  BY LenProperties DEF BookInv, TypeOK, File
<1> DEFINE seg == Append(rotated, active)
           N == Len(rotated)
<1>2. discoverAuditSegments = seg
  BY DEF discoverAuditSegments, BookInv
<1>3. /\ Len(seg) = N + 1 /\ seg[N + 1] = active /\ \A n \in 1..N : seg[n] = rotated[n]
      /\ seg \in Seq(File)
  BY <1>1, AppendProperties
<1> HIDE DEF seg
<1>4. ASSUME NEW n \in 1..Len(seg)
      PROVE  /\ Chained(seg[n]) /\ seg[n].lines # <<>> /\ seg[n].lines[1].kind = "entry"
             /\ seg[n].lines[1].prev = Seed(seg, anew, n)
  <2>1. /\ Chained(seg[n]) /\ seg[n].lines # <<>>
        /\ seg[n].lines[1].prev = Seed(rotated, anew, n)
    <3>1. CASE n \in 1..N
      BY <1>3, <3>1 DEF ChainInv
    <3>2. CASE n = N + 1
      BY <1>3, <3>2 DEF ChainInv
    <3> QED
      BY <1>1, <1>3, <3>1, <3>2
  <2>2. Seed(rotated, anew, n) = Seed(seg, anew, n)
    <3>1. n # 1 => n - 1 \in 1..N
      BY <1>1, <1>3
    <3> QED
      BY <1>3, <3>1 DEF Seed
  <2>3. seg[n].lines[1].kind = "entry"
    <3>1. seg[n] \in File
      BY <1>3, ElementOfSeq
    <3>2. seg[n].lines \in Seq(Line)
      BY <3>1 DEF File
    <3>3. 1 \in 1..Len(seg[n].lines)
      BY <2>1, <3>2, EmptySeq, LenProperties
    <3> QED
      BY <2>1, <3>3 DEF Chained
  <2> QED
    BY <2>1, <2>2, <2>3
<1> QED
  BY <1>1, <1>2, <1>3, <1>4

\* If no write is torn, then whenever no Append is running verify --all reports no
\* segment but those with a record too long for it, the ones right behind them and
\* those that a crash left empty; every single file that can be scanned verifies;
\* and what a crash leaves can be opened again if it can be scanned.
THEOREM ChainAlwaysVerifies ==
    ASSUME "short" \notin Faults
    PROVE  Spec => []ChainVerifies
<1>1. BookInv /\ ChainInv => ChainVerifies
  <2> SUFFICES ASSUME BookInv, ChainInv PROVE ChainVerifies
    OBVIOUS
  <2>1. /\ active.lines \in Seq(Line) /\ rotated \in Seq(File) /\ active \in File
        /\ Len(rotated) \in Nat /\ Len(active.lines) \in Nat
    BY LenProperties DEF BookInv, TypeOK, File
  <2>2. Parses(active)
    <3>1. active.lines # <<>> => Len(active.lines) \in 1..Len(active.lines)
      BY <2>1, EmptySeq
    <3> QED
      BY <3>1 DEF Parses, ChainInv, Chained, Last
  <2>3. ASSUME active.lines # <<>> PROVE verifyAuditSegments \subseteq Unreadable
    <3> DEFINE seg == discoverAuditSegments
               long == {i \in 1..Len(seg) : ~Scans(seg[i])}
    <3>1. /\ Len(seg) \in Nat
          /\ \A n \in 1..Len(seg) :
                /\ Chained(seg[n]) /\ seg[n].lines # <<>> /\ seg[n].lines[1].kind = "entry"
                /\ seg[n].lines[1].prev = Seed(seg, anew, n)
      BY <2>3, SegmentFacts
    <3>2. Unreadable = long \cup {i + 1 : i \in long} \cup anew
      BY Zenon DEF Unreadable
    <3>3. verifyAuditSegments = {i \in 1..Len(seg) :
                                    \/ ~verifyAuditChain(seg[i])
                                    \/ ~auditFileBounds(seg[i])
                                    \/ seg[i].lines[1].prev # PrevLast(seg, i)}
      BY Zenon DEF verifyAuditSegments
    <3> HIDE DEF seg
    <3>4. ASSUME NEW i \in 1..Len(seg), i \notin long, i \notin {k + 1 : k \in long}, i \notin anew
          PROVE  /\ verifyAuditChain(seg[i]) /\ auditFileBounds(seg[i])
                 /\ seg[i].lines[1].prev = PrevLast(seg, i)
      <4>1. verifyAuditChain(seg[i]) /\ auditFileBounds(seg[i])
        BY <3>1, <3>4 DEF verifyAuditChain, auditFileBounds
      <4>2. CASE i = 1
        <5>1. PrevLast(seg, i) = 0
          BY <3>1, <4>2, PrevLastFacts
        <5>2. Seed(seg, anew, i) = 0
          BY <4>2 DEF Seed
        <5> QED
          BY <3>1, <4>1, <5>1, <5>2, Zenon
      <4>3. CASE i # 1
        <5>1. i - 1 \in 1..Len(seg) /\ i = (i - 1) + 1
          BY <3>1, <4>3
        <5>2. i - 1 \notin long
          BY <3>4, <5>1
        <5>3. auditFileBounds(seg[i - 1])
          BY <3>1, <5>1, <5>2 DEF auditFileBounds
        <5>4. PrevLast(seg, i) = Last(seg[i - 1].lines).h
          BY <3>1, <4>3, <5>3, PrevLastFacts
        <5>5. Seed(seg, anew, i) = Last(seg[i - 1].lines).h
          BY <3>4, <4>3 DEF Seed
        <5> QED
          BY <3>1, <4>1, <5>4, <5>5, Zenon
      <4> QED
        BY <4>1, <4>2, <4>3
    <3> HIDE DEF long
    <3> QED
      BY <3>2, <3>3, <3>4
  <2>4. ASSUME NEW file \in {active} \cup ToSet(rotated), Scans(file)
        PROVE  verifyAuditChain(file)
    <3>1. CASE file = active
      BY <2>4, <3>1 DEF ChainInv, verifyAuditChain
    <3>2. CASE file \in ToSet(rotated)
      <4>1. PICK n \in DOMAIN rotated : file = rotated[n]
        BY <3>2 DEF ToSet
      <4>2. n \in 1..Len(rotated)
        BY <2>1, LenProperties
      <4> QED
        BY <2>4, <4>1, <4>2 DEF ChainInv, verifyAuditChain
    <3> QED
      BY <3>1, <3>2
  <2> QED
    BY <2>2, <2>3, <2>4 DEF ChainVerifies
<1>2. BookInv /\ KeptInv /\ ChainInv /\ [Next]_vars => (BookInv /\ KeptInv /\ ChainInv)'
  BY BookNext, KeptNext, ChainNext
<1> QED
  BY <1>1, <1>2, BookInit, LogInit, PTL DEF Spec
=============================================================================
