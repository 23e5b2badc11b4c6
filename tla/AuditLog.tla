------------------------------ MODULE AuditLog ------------------------------
(***************************************************************************)
(* The append-only audit log of internal/server/audit.go and its rotation  *)
(* by size.  A mutex orders the writes of one process, but two processes   *)
(* append to one log: the server, for its requests, and                    *)
(* `dddns config rotate-secret`.  So a writer here is a process, and each  *)
(* system call of AuditLog.Write is a step.                                *)
(*                                                                         *)
(* A line is a unit of size: MaxSize lines stand for the 10 MB of the      *)
(* constant AuditMaxSize.                                                  *)
(* An open file stays what it was when the name moves on: after a rename   *)
(* the descriptor of a log refers to the .old file, after a second one to  *)
(* a file no name refers to.                                               *)
(***************************************************************************)
EXTENDS Naturals, Sequences, FiniteSets, SequencesExt

CONSTANTS
  Writers,    \* processes that append to the log
  MaxSize,    \* the size at which the log is rotated
  MaxLines,   \* bound: calls of Write
  MaxFails    \* bound: system calls that fail

ASSUME WritersAssumption == IsFiniteSet(Writers)
ASSUME SizeAssumption  == MaxSize \in Nat \ {0}
ASSUME BoundAssumption == MaxLines \in Nat /\ MaxFails \in Nat

Line == [by : Writers, at : 1 .. MaxLines]

VARIABLES
  log, old,   \* the lines of the two files
  exists,     \* is there a log file?
  pc,         \* pc[w]: the next system call of w, or "idle"
  fd,         \* fd[w]: the file w has open
  stamp,      \* stamp[w]: the time of w's entry
  clock,      \* the time: calls of Write so far
  done,       \* history: the lines written, in order
  raced,      \* history: a rotation fell between the system calls of another
  fails       \* system calls that failed

logVars == <<log, old, exists, pc, fd, stamp, clock, done, raced, fails>>

LogTypeOK ==
  /\ log \in Seq(Line) /\ old \in Seq(Line) /\ done \in Seq(Line)
  /\ exists \in BOOLEAN /\ raced \in BOOLEAN
  /\ ~exists => log = <<>>
  /\ pc \in [Writers -> {"idle", "stat", "rename", "open", "write"}]
  /\ fd \in [Writers -> {"none", "log", "old", "gone"}]
  /\ \A w \in Writers : fd[w] = "none" <=> pc[w] # "write"
  /\ stamp \in [Writers -> 0 .. MaxLines]
  /\ clock \in 0 .. MaxLines
  /\ fails \in 0 .. MaxFails

LogInit ==
  /\ log = <<>> /\ old = <<>> /\ done = <<>>
  /\ exists = FALSE
  /\ pc = [w \in Writers |-> "idle"]
  /\ fd = [w \in Writers |-> "none"]
  /\ stamp = [w \in Writers |-> 0]
  /\ clock = 0
  /\ raced = FALSE
  /\ fails = 0

Step(w, from, to) ==
  /\ pc[w] = from
  /\ pc' = [pc EXCEPT ![w] = to]

Fails ==
  /\ fails < MaxFails
  /\ fails' = fails + 1

(***************************************************************************)
(* AuditLog.Write                                                          *)
(***************************************************************************)

\* The mutex of the process is taken and the entry gets its time.
Begin(w) ==
  /\ clock < MaxLines
  /\ Step(w, "idle", "stat")
  /\ clock' = clock + 1
  /\ stamp' = [stamp EXCEPT ![w] = clock + 1]
  /\ UNCHANGED <<log, old, exists, fd, done, raced, fails>>

\* Mutant: the log is rotated only beyond its size.
StatBeyond(w) ==
  /\ Step(w, "stat", IF exists /\ Len(log) > MaxSize THEN "rename" ELSE "open")
  /\ UNCHANGED <<log, old, exists, fd, stamp, clock, done, raced, fails>>

Stat(w) ==
  /\ Step(w, "stat", IF exists /\ Len(log) >= MaxSize THEN "rename" ELSE "open")
  /\ UNCHANGED <<log, old, exists, fd, stamp, clock, done, raced, fails>>

Midway(w) == \E v \in Writers \ {w} : pc[v] # "idle"

\* Mutant: the log is removed instead of kept as .old.
RotateAway(w) ==
  /\ Step(w, "rename", "open")
  /\ log' = <<>>
  /\ exists' = FALSE
  /\ fd' = [v \in Writers |-> IF fd[v] = "log" THEN "gone" ELSE fd[v]]
  /\ raced' = (raced \/ Midway(w))
  /\ UNCHANGED <<old, stamp, clock, done, fails>>

\* os.Rename replaces an older .old; without a log (another process has just
\* renamed it) it fails, which Write ignores.
Rotate(w) ==
  /\ Step(w, "rename", "open")
  /\ IF exists
     THEN /\ old' = log
          /\ log' = <<>>
          /\ exists' = FALSE
          /\ fd' = [v \in Writers |-> CASE fd[v] = "log" -> "old"
                                        [] fd[v] = "old" -> "gone"
                                        [] OTHER         -> fd[v]]
          /\ raced' = (raced \/ Midway(w))
     ELSE UNCHANGED <<log, old, exists, fd, raced>>
  /\ UNCHANGED <<stamp, clock, done, fails>>

RotateFails(w) ==
  /\ Step(w, "rename", "open")
  /\ Fails
  /\ UNCHANGED <<log, old, exists, fd, stamp, clock, done, raced>>

\* O_APPEND | O_CREATE
Open(w) ==
  /\ Step(w, "open", "write")
  /\ exists' = TRUE
  /\ fd' = [fd EXCEPT ![w] = "log"]
  /\ UNCHANGED <<log, old, stamp, clock, done, raced, fails>>

OpenFails(w) ==
  /\ Step(w, "open", "idle")
  /\ Fails
  /\ UNCHANGED <<log, old, exists, fd, stamp, clock, done, raced>>

\* Mutant: the file is opened without O_APPEND, a write starts at its head.
AppendAtHead(w) ==
  LET line == [by |-> w, at |-> stamp[w]] IN
  /\ Step(w, "write", "idle")
  /\ log' = IF fd[w] = "log" THEN <<line>> \o log ELSE log
  /\ old' = IF fd[w] = "old" THEN <<line>> \o old ELSE old
  /\ fd' = [fd EXCEPT ![w] = "none"]
  /\ done' = Append(done, line)
  /\ UNCHANGED <<exists, stamp, clock, raced, fails>>

AppendLine(w) ==
  LET line == [by |-> w, at |-> stamp[w]] IN
  /\ Step(w, "write", "idle")
  /\ log' = IF fd[w] = "log" THEN Append(log, line) ELSE log
  /\ old' = IF fd[w] = "old" THEN Append(old, line) ELSE old
  /\ fd' = [fd EXCEPT ![w] = "none"]
  /\ done' = Append(done, line)
  /\ UNCHANGED <<exists, stamp, clock, raced, fails>>

AppendFails(w) ==
  /\ Step(w, "write", "idle")
  /\ Fails
  /\ fd' = [fd EXCEPT ![w] = "none"]
  /\ UNCHANGED <<log, old, exists, stamp, clock, done, raced>>

\* The process dies between two system calls.
Killed(w) ==
  /\ pc[w] # "idle"
  /\ Fails
  /\ pc' = [pc EXCEPT ![w] = "idle"]
  /\ fd' = [fd EXCEPT ![w] = "none"]
  /\ UNCHANGED <<log, old, exists, stamp, clock, done, raced>>

Write(w) ==
  \/ Begin(w) \/ Stat(w) \/ Rotate(w) \/ Open(w) \/ AppendLine(w)
  \/ RotateFails(w) \/ OpenFails(w) \/ AppendFails(w) \/ Killed(w)

LogNext == \E w \in Writers : Write(w)

LogSpec == LogInit /\ [][LogNext]_logVars

(***************************************************************************)
(* Properties                                                              *)
(***************************************************************************)
OnDisk == ToSet(log) \cup ToSet(old)

\* As long as no rotation falls into the write of another process, the last
\* MaxSize lines written are on disk at every moment, in the middle of a rotation
\* too, whatever system calls have failed: one .old file is enough
\* (audit.go:63-67; docs/udm-guide.md:258 "rotates itself at 10 MB to .old").
RecentKept ==
  ~raced => \A i \in DOMAIN done : i > Len(done) - MaxSize => done[i] \in OnDisk

\* What the two processes leave in .old and the log keeps, for each of them,
\* the order in which it wrote, races or not: a reader who takes .old before
\* the log sees no process go back in time.
OwnOrder ==
  LET all == old \o log IN
  \A i, j \in DOMAIN all : i < j /\ all[i].by = all[j].by => all[i].at < all[j].at

\* Neither file outgrows the threshold by more than one line for each process,
\* and one for each rotation that failed: testing the size and renaming are two
\* steps, but a writer that has tested too early adds a single line.
SizeBounded == \A f \in {log, old} : Len(f) < MaxSize + fails + Cardinality(Writers)
=============================================================================
