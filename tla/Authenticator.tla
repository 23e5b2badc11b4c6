--------------------------- MODULE Authenticator ---------------------------
(***************************************************************************)
(* The password check of serve mode with its sliding-window lockout        *)
(* (internal/server/auth.go).  Check holds the mutex from its first line   *)
(* to its last, so each of its three ways out is one step; the clock is    *)
(* Go's monotonic clock, in ticks.                                         *)
(***************************************************************************)
EXTENDS Naturals, FiniteSets

CONSTANTS
  MaxFailures,   \* MaxFailuresPerWindow
  Window,        \* FailureWindow
  Lockout,       \* LockoutDuration
  MaxTime,       \* bound: ticks of the clock
  MaxGuesses     \* bound: wrong passwords evaluated

ASSUME PolicyAssumption ==
  /\ MaxFailures \in Nat \ {0}
  /\ Window \in Nat
  /\ Lockout \in Nat
  /\ Window <= Lockout

ASSUME BoundsAssumption == MaxTime \in Nat /\ MaxGuesses \in Nat

VARIABLES
  now,           \* the clock
  failures,      \* the failures slice: [n : serial number, at : time]
  lockedUntil,   \* end of the lockout; 0 is Go's zero time
  guesses,       \* wrong passwords evaluated so far
  tries          \* history: those since the process started or let someone in

vars == <<now, failures, lockedUntil, guesses, tries>>

Failure == [n : Nat, at : Nat]

TypeOK ==
  /\ now \in 0 .. MaxTime
  /\ failures \subseteq Failure
  /\ lockedUntil \in 0 .. MaxTime + Lockout
  /\ guesses \in 0 .. MaxGuesses
  /\ tries \subseteq Failure

Init ==
  /\ now = 0
  /\ failures = {}
  /\ lockedUntil = 0
  /\ guesses = 0
  /\ tries = {}

\* The failures of the window that ends at time t: After(t - Window).
InWindow(fs, t) == {f \in fs : f.at <= t /\ t < f.at + Window}

LockedOut == now < lockedUntil

(***************************************************************************)
(* Check                                                                   *)
(***************************************************************************)

\* Mutant: a refused attempt prolongs the lockout.
RefuseProlongs ==
  /\ LockedOut
  /\ lockedUntil' = lockedUntil + Lockout
  /\ UNCHANGED <<now, failures, guesses, tries>>

\* AuthLockedOut, whatever the password.
Refuse ==
  /\ LockedOut
  /\ UNCHANGED vars

\* AuthOK: a success clears the tally.
Accept ==
  /\ ~LockedOut
  /\ failures' = {}
  /\ tries' = {}
  /\ UNCHANGED <<now, lockedUntil, guesses>>

\* Mutant: the limit is tested with > instead of >=.
RejectOneMore ==
  LET failure == [n |-> guesses + 1, at |-> now]
      kept    == InWindow(failures \cup {failure}, now)
  IN
  /\ ~LockedOut
  /\ guesses < MaxGuesses
  /\ guesses' = guesses + 1
  /\ tries' = tries \cup {failure}
  /\ IF Cardinality(kept) > MaxFailures
     THEN lockedUntil' = now + Lockout /\ failures' = {}
     ELSE failures' = kept /\ UNCHANGED lockedUntil
  /\ UNCHANGED now

\* Mutant: the window is never pruned.
RejectUnpruned ==
  LET kept == failures \cup {[n |-> guesses + 1, at |-> now]}
  IN
  /\ ~LockedOut
  /\ guesses < MaxGuesses
  /\ guesses' = guesses + 1
  /\ tries' = tries \cup {[n |-> guesses + 1, at |-> now]}
  /\ IF Cardinality(kept) >= MaxFailures
     THEN lockedUntil' = now + Lockout /\ failures' = {}
     ELSE failures' = kept /\ UNCHANGED lockedUntil
  /\ UNCHANGED now

\* AuthBadCredentials: record the failure, prune the window, lock at the limit.
Reject ==
  LET failure == [n |-> guesses + 1, at |-> now]
      kept    == InWindow(failures \cup {failure}, now)
  IN
  /\ ~LockedOut
  /\ guesses < MaxGuesses
  /\ guesses' = guesses + 1
  /\ tries' = tries \cup {failure}
  /\ IF Cardinality(kept) >= MaxFailures
     THEN lockedUntil' = now + Lockout /\ failures' = {}
     ELSE failures' = kept /\ UNCHANGED lockedUntil
  /\ UNCHANGED now

Check(passwordMatches) ==
  Refuse \/ IF passwordMatches THEN Accept ELSE Reject

(***************************************************************************)
(* Time and the supervisor                                                 *)
(***************************************************************************)
Tick ==
  /\ now < MaxTime
  /\ now' = now + 1
  /\ UNCHANGED <<failures, lockedUntil, guesses, tries>>

\* The supervisor respawns the process: NewAuthenticator starts from nothing.
Restart ==
  /\ failures' = {}
  /\ lockedUntil' = 0
  /\ tries' = {}
  /\ UNCHANGED <<now, guesses>>

Next == Refuse \/ Accept \/ Reject \/ Tick \/ Restart

Spec == Init /\ [][Next]_vars

(***************************************************************************)
(* Properties                                                              *)
(***************************************************************************)

\* No window of the process's life sees more than MaxFailures wrong passwords
\* evaluated, unless a right one came between (auth.go:73-87).
GuessBound == Cardinality(InWindow(tries, now)) <= MaxFailures

\* MaxFailures wrong passwords in one window, less than Lockout ago.
BurstAt(t) == Cardinality(InWindow(tries, t)) >= MaxFailures
RecentBurst == \E f \in tries : BurstAt(f.at) /\ now < f.at + Lockout

\* The lockout is neither missed, nor cut short, nor imposed without cause: a
\* check is refused exactly while a burst is recent (auth.go:64-66, 84-87).
LockoutIffBurst ==  LockedOut <=> RecentBurst
=============================================================================
