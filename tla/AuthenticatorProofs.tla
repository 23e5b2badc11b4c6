------------------------ MODULE AuthenticatorProofs ------------------------
(***************************************************************************)
(* The lockout policy for every limit, window, lockout and bound.          *)
(***************************************************************************)
EXTENDS Authenticator, FiniteSetTheorems, TLAPS

\* The variables keep their types through Check (auth.go:59-89), the clock and
\* restarts.
THEOREM TypeCorrect == Spec => []TypeOK
<1> USE PolicyAssumption, BoundsAssumption DEF TypeOK, Failure
<1>1. Init => TypeOK
  BY DEF Init
<1>2. TypeOK /\ [Next]_vars => TypeOK'
  <2> SUFFICES ASSUME TypeOK, [Next]_vars
               PROVE  TypeOK'
    OBVIOUS
  <2>1. CASE Refuse
    BY <2>1 DEF Refuse, vars
  <2>2. CASE Accept
    BY <2>2 DEF Accept
  <2>3. CASE Reject
    BY <2>3 DEF Reject, InWindow
  <2>4. CASE Tick
    BY <2>4 DEF Tick
  <2>5. CASE Restart
    BY <2>5 DEF Restart
  <2>6. CASE UNCHANGED vars
    BY <2>6 DEF vars
  <2>7. QED
    BY <2>1, <2>2, <2>3, <2>4, <2>5, <2>6 DEF Next
<1>3. QED
  BY <1>1, <1>2, PTL DEF Spec

(***************************************************************************)
(* The inductive invariant                                                 *)
(***************************************************************************)

\* The slice is what the history has not lost to pruning or to a lockout.
Tally ==
  /\ IsFiniteSet(tries)
  /\ failures \subseteq tries
  /\ \A f \in tries : f.at <= now
  /\ \A f \in tries \ failures : f.at + Window <= now \/ f.at + Lockout <= lockedUntil
  /\ Cardinality(failures) < MaxFailures

\* A lockout lasts exactly Lockout from the last of the bursts.
Locks ==
  /\ LockedOut => \E f \in tries : BurstAt(f.at) /\ f.at + Lockout = lockedUntil
  /\ \A f \in tries : BurstAt(f.at) => f.at + Lockout <= lockedUntil

Inv == TypeOK /\ Tally /\ GuessBound /\ Locks

\* At a failed attempt the window of the history and that of the slice agree:
\* whatever the slice has lost is out of the window by then (auth.go:74-82).
LEMMA SliceIsWindow ==
  ASSUME Inv, ~LockedOut, NEW failure \in Failure, failure.at = now
  PROVE  /\ InWindow(tries \cup {failure}, now) = InWindow(failures \cup {failure}, now)
         /\ IsFiniteSet(InWindow(failures \cup {failure}, now))
         /\ Cardinality(InWindow(failures \cup {failure}, now)) <= MaxFailures
<1> USE PolicyAssumption, BoundsAssumption DEF Inv, TypeOK, Tally, Failure
<1> DEFINE all == failures \cup {failure}
<1>1. InWindow(tries \cup {failure}, now) = InWindow(all, now)
  <2>1. ASSUME NEW f \in tries, f.at <= now, now < f.at + Window
        PROVE  f \in failures
    BY <2>1 DEF LockedOut
  <2>2. QED
    BY <2>1 DEF InWindow
<1>2. IsFiniteSet(failures) /\ Cardinality(failures) \in Nat
  BY FS_Subset, FS_CardinalityType
<1>3. IsFiniteSet(all) /\ Cardinality(all) \in Nat /\ Cardinality(all) <= Cardinality(failures) + 1
  <2>1. /\ IsFiniteSet(all)
        /\ Cardinality(all) = IF failure \in failures THEN Cardinality(failures)
                              ELSE Cardinality(failures) + 1
    BY ONLY <1>2, FS_AddElement, Zenon
  <2>2. QED
    BY ONLY <1>2, <2>1
<1>4. InWindow(all, now) \subseteq all
  BY DEF InWindow
<1>5. /\ IsFiniteSet(InWindow(all, now))
      /\ Cardinality(InWindow(all, now)) \in Nat
      /\ Cardinality(InWindow(all, now)) <= Cardinality(all)
  BY <1>3, <1>4, FS_Subset, FS_CardinalityType
<1>6. QED
  BY <1>1, <1>2, <1>3, <1>5

\* A failed attempt keeps the invariant (auth.go:73-88).
LEMMA RejectKeepsInv ==
  ASSUME Inv, Reject, TypeOK'
  PROVE  Inv'
<1> USE PolicyAssumption, BoundsAssumption
<1> DEFINE failure == [n |-> guesses + 1, at |-> now]
           kept    == InWindow(failures \cup {failure}, now)
<1>1. failure \in Failure /\ failure.at = now /\ failure.n = guesses + 1
  BY DEF Inv, TypeOK, Failure
<1>2. ~LockedOut /\ now' = now /\ tries' = tries \cup {failure}
  BY DEF Reject
<1>3. /\ InWindow(tries', now') = kept
      /\ IsFiniteSet(kept)
      /\ Cardinality(kept) <= MaxFailures
      /\ Cardinality(kept) \in Nat
  BY <1>1, <1>2, SliceIsWindow, FS_CardinalityType
<1>4. GuessBound'
  BY <1>3 DEF GuessBound
<1>5. IsFiniteSet(tries')
  BY <1>2, FS_AddElement DEF Inv, Tally
<1>6. \A f \in tries' : f \in Failure /\ f.at <= now'
  BY <1>1, <1>2 DEF Inv, TypeOK, Tally, Failure
<1>7. kept \subseteq tries'
  BY <1>2 DEF InWindow, Inv, Tally
<1>8. \A f \in tries : f.at < now => InWindow(tries', f.at) = InWindow(tries, f.at)
  BY <1>1, <1>2, <1>6 DEF InWindow, Failure
<1>9. \A f \in tries' : f.at = now \/ (f \in tries /\ f.at < now)
  BY <1>1, <1>2, <1>6 DEF Failure, Inv, TypeOK
<1>10. CASE Cardinality(kept) >= MaxFailures
  <2>1. lockedUntil' = now + Lockout /\ failures' = {}
    BY <1>10 DEF Reject
  <2>2. Tally'
    BY <2>1, <1>2, <1>5, <1>6, FS_EmptySet DEF Tally, Inv, TypeOK, Failure
  <2>3. PICK f \in tries' : f.at = now
    BY <1>1, <1>2
  <2>4. Locks'
    <3>1. BurstAt(f.at)' /\ f.at + Lockout = lockedUntil'
      BY <1>2, <1>3, <1>10, <2>1, <2>3 DEF BurstAt
    <3>2. \A g \in tries' : g.at + Lockout <= lockedUntil'
      BY <1>2, <1>6, <2>1 DEF Inv, TypeOK, Failure
    <3>3. QED
      BY <3>1, <3>2 DEF Locks, BurstAt
  <2>5. QED
    BY <1>4, <2>2, <2>4 DEF Inv
<1>11. CASE ~(Cardinality(kept) >= MaxFailures)
  <2>1. lockedUntil' = lockedUntil /\ failures' = kept
    BY <1>11 DEF Reject
  <2>2. \A f \in tries' \ kept : f.at + Window <= now
    BY <1>2, <1>3, <1>6 DEF InWindow, Failure, Inv, TypeOK
  <2>3. Tally'
    <3>1. \A f \in tries' \ failures' : f.at + Window <= now'
      BY <1>2, <2>1, <2>2
    <3>2. Cardinality(failures') < MaxFailures
      BY <1>3, <1>11, <2>1
    <3>3. QED
      BY <1>5, <1>6, <1>7, <2>1, <3>1, <3>2 DEF Tally
  <2>4. ~LockedOut'
    BY <1>2, <2>1 DEF LockedOut
  <2>5. ASSUME NEW f \in tries', BurstAt(f.at)'
        PROVE  f.at + Lockout <= lockedUntil'
    <3>1. f.at # now
      BY <1>2, <1>3, <1>11, <2>5 DEF BurstAt
    <3>2. f \in tries /\ BurstAt(f.at)
      BY <1>8, <1>9, <2>5, <3>1 DEF BurstAt
    <3>3. QED
      BY <2>1, <3>2 DEF Inv, Locks
  <2>6. Locks'
    BY <2>4, <2>5 DEF Locks
  <2>7. QED
    BY <1>4, <2>3, <2>6 DEF Inv
<1>12. QED
  BY <1>10, <1>11

\* Time only takes failures out of the window.
LEMMA TickKeepsInv ==
  ASSUME Inv, Tick, TypeOK'
  PROVE  Inv'
<1> USE PolicyAssumption, BoundsAssumption DEF Inv, TypeOK, Failure
<1>1. Tally'
  BY DEF Tally, Tick
<1>2. Locks'
  BY DEF Locks, LockedOut, BurstAt, Tick
<1>3. GuessBound'
  <2>1. InWindow(tries', now') \subseteq InWindow(tries, now)
    BY DEF InWindow, Tally, Tick
  <2>2. InWindow(tries, now) \subseteq tries
    BY DEF InWindow
  <2>3. IsFiniteSet(InWindow(tries, now))
    BY <2>2, FS_Subset DEF Tally
  <2>4. /\ Cardinality(InWindow(tries', now')) <= Cardinality(InWindow(tries, now))
        /\ Cardinality(InWindow(tries', now')) \in Nat
        /\ Cardinality(InWindow(tries, now)) \in Nat
    BY <2>1, <2>3, FS_Subset, FS_CardinalityType
  <2>5. QED
    BY <2>4 DEF GuessBound
<1>4. QED
  BY <1>1, <1>2, <1>3

\* The slice, the history and lockedUntil stay in step (auth.go:59-89).
LEMMA InvAlways == Spec => []Inv
<1> USE PolicyAssumption, BoundsAssumption
<1>1. Init /\ TypeOK => Inv
  <2> SUFFICES ASSUME Init, TypeOK
               PROVE  Inv
    OBVIOUS
  <2>1. tries = {} /\ failures = {} /\ ~LockedOut
    BY DEF Init, LockedOut
  <2>2. InWindow(tries, now) = {}
    BY <2>1 DEF InWindow
  <2>3. QED
    BY <2>1, <2>2, FS_EmptySet DEF Inv, Tally, GuessBound, Locks
<1>2. Inv /\ TypeOK' /\ [Next]_vars => Inv'
  <2> SUFFICES ASSUME Inv, TypeOK', [Next]_vars
               PROVE  Inv'
    OBVIOUS
  <2>1. CASE Refuse \/ UNCHANGED vars
    BY <2>1 DEF Refuse, vars, Inv, TypeOK, Tally, GuessBound, Locks, LockedOut, BurstAt
  <2>2. CASE Reject
    BY <2>2, RejectKeepsInv
  <2>3. CASE Tick
    BY <2>3, TickKeepsInv
  <2>4. CASE Accept \/ Restart
    <3>1. tries' = {} /\ failures' = {} /\ ~LockedOut'
      BY <2>4 DEF Accept, Restart, LockedOut, Inv, TypeOK
    <3>2. InWindow(tries', now') = {}
      BY <3>1 DEF InWindow
    <3>3. QED
      BY <3>1, <3>2, FS_EmptySet DEF Inv, Tally, GuessBound, Locks
  <2>5. QED
    BY <2>1, <2>2, <2>3, <2>4 DEF Next
<1>3. QED
  BY TypeCorrect, <1>1, <1>2, PTL DEF Spec

(***************************************************************************)
(* The theorems                                                            *)
(***************************************************************************)

\* However attempts, time and restarts interleave, no window sees more than
\* MaxFailures wrong passwords evaluated without a right one between them
\* (auth.go:73-87).
THEOREM GuessesAreBounded == Spec => []GuessBound
<1>1. Inv => GuessBound
  BY DEF Inv
<1>2. QED
  BY InvAlways, <1>1, PTL

\* Check refuses exactly while a burst of MaxFailures failures in one window is
\* less than Lockout old (auth.go:64-66, 84-87).
THEOREM LockoutIsExact == Spec => []LockoutIffBurst
<1>1. Inv => LockoutIffBurst
  BY PolicyAssumption DEF Inv, TypeOK, Failure, Locks, LockoutIffBurst, RecentBurst, LockedOut
<1>2. QED
  BY InvAlways, <1>1, PTL
=============================================================================
