--------------------------- MODULE UpdaterProofs ---------------------------
(***************************************************************************)
(* What Updater guarantees for every set of runs, addresses, options and   *)
(* faults, and for every bound.                                            *)
(***************************************************************************)
EXTENDS Updater, TLAPS

(***************************************************************************)
(* The steps                                                               *)
(***************************************************************************)

\* Whoever steps is a run that starts, a run inside Update (updater.go:128-273),
\* well or badly, or the world around the runs.
LEMMA StepKinds ==
  ASSUME [Next]_vars
  PROVE  \/ \E r \in Runs : \/ \E o \in Choices : Start(r, o)
                            \/ Works(r)
                            \/ Fails(r)
         \/ \E v \in IPs : LateApply(v) \/ WanMoves(v) \/ RecordEdited(v)
         \/ UNCHANGED vars
BY DEF Next, Run, Environment

(***************************************************************************)
(* Type correctness                                                        *)
(***************************************************************************)

\* The variables keep their types through every step of the flow
\* (updater.go:128-273) and of its environment.
THEOREM TypeCorrect == Spec => []TypeOK
<1> USE NoIPAssumption, ChoicesAssumption, FaultsAssumption, BoundsAssumption
<1> USE DEF TypeOK, Steps, Outcomes
<1>1. Init => TypeOK
  BY DEF Init, Options, Plain
<1>2. TypeOK /\ [Next]_vars => TypeOK'
  <2> SUFFICES ASSUME TypeOK, [Next]_vars
               PROVE  TypeOK'
    OBVIOUS
  <2>0. CASE UNCHANGED vars
    BY <2>0 DEF vars
  <2>1. ASSUME NEW r \in Runs, NEW o \in Choices, Start(r, o)
        PROVE  TypeOK'
    BY <2>1 DEF Start, Goto, world
  <2>2. ASSUME NEW r \in Runs, Works(r)
        PROVE  TypeOK'
    <3>1. CASE Resolve(r)
      BY <3>1 DEF Resolve, Goto, Options, record, world
    <3>2. CASE CacheHit(r)
      BY <3>2 DEF CacheHit, Return, Goto, record, world, locals
    <3>3. CASE CacheMiss(r)
      BY <3>3 DEF CacheMiss, Goto, record, world, locals
    <3>4. CASE DnsMatches(r)
      BY <3>4 DEF DnsMatches, Goto, record, world, locals
    <3>5. CASE DnsDiffers(r)
      BY <3>5 DEF DnsDiffers, GoOn, Return, Goto, record, world, locals
    <3>6. CASE Apply(r)
      BY <3>6 DEF Apply, Publish, Goto, world, locals
    <3>7. CASE Reply(r)
      BY <3>7 DEF Reply, Goto, record, world, locals
    <3>8. CASE OpenCache(r)
      BY <3>8 DEF OpenCache, Goto, record, world, locals
    <3>9. CASE WriteCache(r)
      BY <3>9 DEF WriteCache, Goto, record, world, locals
    <3>10. QED
      BY <2>2, <3>1, <3>2, <3>3, <3>4, <3>5, <3>6, <3>7, <3>8, <3>9 DEF Works
  <2>3. ASSUME NEW r \in Runs, Fails(r)
        PROVE  TypeOK'
    <3>1. CASE ResolveFails(r)
      BY <3>1 DEF ResolveFails, Fault, Return, Goto, record, world, locals
    <3>2. CASE ListFails(r)
      BY <3>2 DEF ListFails, Fault, GoOn, Return, Goto, record, world, locals
    <3>3. CASE GiveUp(r)
      BY <3>3 DEF GiveUp, Fault, Return, Goto, record, world, locals
    <3>4. CASE Rejected(r)
      BY <3>4 DEF Rejected, Fault, Return, Goto, record, world, locals
    <3>5. CASE TimesOut(r)
      BY <3>5 DEF TimesOut, Fault, Return, Goto, world, locals
    <3>6. CASE ReplyLost(r)
      BY <3>6 DEF ReplyLost, Fault, Return, Goto, record, world, locals
    <3>7. CASE OpenFails(r)
      BY <3>7 DEF OpenFails, Fault, Goto, record, world, locals
    <3>8. CASE WriteFails(r)
      BY <3>8 DEF WriteFails, Fault, Goto, record, world, locals
    <3>9. CASE Crash(r)
      BY <3>9 DEF Crash, Fault, record, world, locals
    <3>10. QED
      BY <2>3, <3>1, <3>2, <3>3, <3>4, <3>5, <3>6, <3>7, <3>8, <3>9 DEF Fails
  <2>4. ASSUME NEW v \in IPs, LateApply(v) \/ WanMoves(v) \/ RecordEdited(v)
        PROVE  TypeOK'
    BY <2>4 DEF LateApply, WanMoves, RecordEdited, Publish, Fault, record, locals, world
  <2>5. QED
    BY StepKinds, <2>0, <2>1, <2>2, <2>3, <2>4
<1>3. QED
  BY <1>1, <1>2, PTL DEF Spec

(***************************************************************************)
(* Truthful results                                                        *)
(***************************************************************************)

\* HonestReport, made inductive: a run whose UPSERT has been applied has seen
\* the record hold its address although it has not reported it yet, and the
\* present value of the record is one every run has seen.
Witnessed ==
  \A r \in Runs :
    /\ dns \in since[r]
    /\ pc[r] = "resolve" => outcome[r] = "none"
    /\ pc[r] = "applied" => ip[r] \in since[r]
    /\ outcome[r] \in {"updated", "nochg-dns"} => ip[r] \in since[r]

\* Every run that returns "updated" or "nochg-dns" (updater.go:190-200, 220-235)
\* ran while the record held its address, for any number of overlapping runs
\* and any failures.
THEOREM ReportsAreHonest == Spec => []HonestReport
<1>1. Init => Witnessed
  BY DEF Init, Witnessed
<1>2. TypeOK /\ Witnessed /\ [Next]_vars => Witnessed'
  <2> SUFFICES ASSUME TypeOK, Witnessed, [Next]_vars
               PROVE  Witnessed'
    OBVIOUS
  <2> USE DEF TypeOK, Witnessed
  <2>0. CASE UNCHANGED vars
    BY <2>0 DEF vars
  <2>1. ASSUME NEW r \in Runs, NEW o \in Choices, Start(r, o)
        PROVE  Witnessed'
    BY <2>1 DEF Start, Goto, world
  <2>2. ASSUME NEW r \in Runs, Works(r)
        PROVE  Witnessed'
    <3>1. CASE Resolve(r)
      BY <3>1 DEF Resolve, Goto, record
    <3>2. CASE CacheHit(r)
      BY <3>2 DEF CacheHit, Return, Goto, record, locals
    <3>3. CASE CacheMiss(r)
      BY <3>3 DEF CacheMiss, Goto, record, locals
    <3>4. CASE DnsMatches(r)
      BY <3>4 DEF DnsMatches, DnsSaysUnchanged, Goto, record, locals
    <3>5. CASE DnsDiffers(r)
      BY <3>5 DEF DnsDiffers, GoOn, Return, Goto, record, locals
    <3>6. CASE Apply(r)
      BY <3>6 DEF Apply, Publish, Goto, locals
    <3>7. CASE Reply(r)
      BY <3>7 DEF Reply, Goto, record, locals
    <3>8. CASE OpenCache(r)
      BY <3>8 DEF OpenCache, Goto, record, locals
    <3>9. CASE WriteCache(r)
      BY <3>9 DEF WriteCache, Goto, record, locals
    <3>10. QED
      BY <2>2, <3>1, <3>2, <3>3, <3>4, <3>5, <3>6, <3>7, <3>8, <3>9 DEF Works
  <2>3. ASSUME NEW r \in Runs, Fails(r)
        PROVE  Witnessed'
    <3>1. CASE ResolveFails(r)
      BY <3>1 DEF ResolveFails, Return, Goto, record, locals
    <3>2. CASE ListFails(r)
      BY <3>2 DEF ListFails, GoOn, Return, Goto, record, locals
    <3>3. CASE GiveUp(r)
      BY <3>3 DEF GiveUp, Return, Goto, record, locals
    <3>4. CASE Rejected(r)
      BY <3>4 DEF Rejected, Return, Goto, record, locals
    <3>5. CASE TimesOut(r)
      BY <3>5 DEF TimesOut, Return, Goto, locals
    <3>6. CASE ReplyLost(r)
      BY <3>6 DEF ReplyLost, Return, Goto, record, locals
    <3>7. CASE OpenFails(r)
      BY <3>7 DEF OpenFails, Goto, record, locals
    <3>8. CASE WriteFails(r)
      BY <3>8 DEF WriteFails, Goto, record, locals
    <3>9. CASE Crash(r)
      BY <3>9 DEF Crash, record, locals
    <3>10. QED
      BY <2>3, <3>1, <3>2, <3>3, <3>4, <3>5, <3>6, <3>7, <3>8, <3>9 DEF Fails
  <2>4. ASSUME NEW v \in IPs, LateApply(v) \/ WanMoves(v) \/ RecordEdited(v)
        PROVE  Witnessed'
    BY <2>4 DEF LateApply, WanMoves, RecordEdited, Publish, record, locals
  <2>5. QED
    BY StepKinds, <2>0, <2>1, <2>2, <2>3, <2>4
<1>3. Witnessed => HonestReport
  BY DEF Witnessed, HonestReport
<1>4. QED
  BY TypeCorrect, <1>1, <1>2, <1>3, PTL DEF Spec

(***************************************************************************)
(* The cache file names published addresses                                *)
(***************************************************************************)

\* CacheNeverInvents, made inductive: a run on its way to the cache file
\* carries an address the record has held.
Published ==
  /\ dns \in held
  /\ cache # NoIP => cache \in held
  /\ \A r \in Runs : pc[r] \in {"applied", "open", "write"} => ip[r] \in held

\* Published is an invariant of the flow (updater.go:190-193, 226-228).
LEMMA PublishedAlways == Spec => []Published
<1>1. Init => Published
  BY DEF Init, Published
<1>2. TypeOK /\ Published /\ [Next]_vars => Published'
  <2> SUFFICES ASSUME TypeOK, Published, [Next]_vars
               PROVE  Published'
    OBVIOUS
  <2> USE DEF TypeOK, Published
  <2>0. CASE UNCHANGED vars
    BY <2>0 DEF vars
  <2>1. ASSUME NEW r \in Runs, NEW o \in Choices, Start(r, o)
        PROVE  Published'
    BY <2>1 DEF Start, Goto, world
  <2>2. ASSUME NEW r \in Runs, Works(r)
        PROVE  Published'
    <3>1. CASE Resolve(r)
      BY <3>1 DEF Resolve, Goto, record
    <3>2. CASE CacheHit(r)
      BY <3>2 DEF CacheHit, Return, Goto, record, locals
    <3>3. CASE CacheMiss(r)
      BY <3>3 DEF CacheMiss, Goto, record, locals
    <3>4. CASE DnsMatches(r)
      BY <3>4 DEF DnsMatches, DnsSaysUnchanged, Goto, record, locals
    <3>5. CASE DnsDiffers(r)
      BY <3>5 DEF DnsDiffers, GoOn, Return, Goto, record, locals
    <3>6. CASE Apply(r)
      BY <3>6 DEF Apply, Publish, Goto, locals
    <3>7. CASE Reply(r)
      BY <3>7 DEF Reply, Goto, record, locals
    <3>8. CASE OpenCache(r)
      BY <3>8 DEF OpenCache, Goto, record, locals
    <3>9. CASE WriteCache(r)
      BY <3>9 DEF WriteCache, Goto, record, locals
    <3>10. QED
      BY <2>2, <3>1, <3>2, <3>3, <3>4, <3>5, <3>6, <3>7, <3>8, <3>9 DEF Works
  <2>3. ASSUME NEW r \in Runs, Fails(r)
        PROVE  Published'
    <3>1. CASE ResolveFails(r)
      BY <3>1 DEF ResolveFails, Return, Goto, record, locals
    <3>2. CASE ListFails(r)
      BY <3>2 DEF ListFails, GoOn, Return, Goto, record, locals
    <3>3. CASE GiveUp(r)
      BY <3>3 DEF GiveUp, Return, Goto, record, locals
    <3>4. CASE Rejected(r)
      BY <3>4 DEF Rejected, Return, Goto, record, locals
    <3>5. CASE TimesOut(r)
      BY <3>5 DEF TimesOut, Return, Goto, locals
    <3>6. CASE ReplyLost(r)
      BY <3>6 DEF ReplyLost, Return, Goto, record, locals
    <3>7. CASE OpenFails(r)
      BY <3>7 DEF OpenFails, Goto, record, locals
    <3>8. CASE WriteFails(r)
      BY <3>8 DEF WriteFails, Goto, record, locals
    <3>9. CASE Crash(r)
      BY <3>9 DEF Crash, record, locals
    <3>10. QED
      BY <2>3, <3>1, <3>2, <3>3, <3>4, <3>5, <3>6, <3>7, <3>8, <3>9 DEF Fails
  <2>4. ASSUME NEW v \in IPs, LateApply(v) \/ WanMoves(v) \/ RecordEdited(v)
        PROVE  Published'
    BY <2>4 DEF LateApply, WanMoves, RecordEdited, Publish, record, locals
  <2>5. QED
    BY StepKinds, <2>0, <2>1, <2>2, <2>3, <2>4
<1>3. QED
  BY TypeCorrect, <1>1, <1>2, PTL DEF Spec

\* Whatever overlaps and whatever fails, the cache file never names an address
\* that was not published (updater.go:190-193, 226-228).
THEOREM CacheIsPublished == Spec => []CacheNeverInvents
<1>1. Published => CacheNeverInvents
  BY DEF Published, CacheNeverInvents
<1>2. QED
  BY PublishedAlways, <1>1, PTL

(***************************************************************************)
(* Dry runs                                                                *)
(***************************************************************************)

\* Whoever has passed the dry-run branch is no dry run.
PassedDryRun == \A r \in Runs : pc[r] \in {"upsert", "applied"} => ~opts[r].dryRun

\* No dry run sends the UPSERT, whatever lookups fail before it
\* (updater.go:182-216): both ways past the comparison go through the branch.
THEOREM DryRunsOnlyLook == Spec => DryRunNeverPublishes
<1>1. Init => PassedDryRun
  BY DEF Init, PassedDryRun
<1>2. TypeOK /\ PassedDryRun /\ [Next]_vars => PassedDryRun'
  <2> SUFFICES ASSUME TypeOK, PassedDryRun, [Next]_vars
               PROVE  PassedDryRun'
    OBVIOUS
  <2>0. pc \in [Runs -> Steps] /\ opts \in [Runs -> Options]
    BY DEF TypeOK
  <2>1. ASSUME NEW r \in Runs, NEW o \in Choices, Start(r, o)
        PROVE  PassedDryRun'
    BY <2>0, <2>1 DEF Start, Goto, PassedDryRun
  <2>2. ASSUME NEW r \in Runs, NEW from \in Steps, NEW to \in Steps, Goto(r, from, to), opts' = opts,
               to \in {"upsert", "applied"} => ~opts[r].dryRun
        PROVE  PassedDryRun'
    BY <2>0, <2>2 DEF Goto, PassedDryRun
  <2>3. ASSUME NEW r \in Runs, GoOn(r), opts' = opts
        PROVE  PassedDryRun'
    <3>1. CASE opts[r].dryRun
      BY <2>2, <2>3, <3>1 DEF GoOn, Return, Steps
    <3>2. CASE ~opts[r].dryRun
      BY <2>2, <2>3, <3>2 DEF GoOn, Steps
    <3>3. QED
      BY <3>1, <3>2
  <2>4. ASSUME NEW r \in Runs, Works(r)
        PROVE  PassedDryRun'
    <3>1. CASE Resolve(r) \/ CacheHit(r) \/ CacheMiss(r) \/ DnsMatches(r)
      BY <2>2, <3>1 DEF Resolve, CacheHit, CacheMiss, DnsMatches, Return, locals, Steps
    <3>2. CASE DnsDiffers(r)
      BY <2>3, <3>2 DEF DnsDiffers, locals
    <3>3. CASE Apply(r)
      <4>1. Goto(r, "upsert", "applied") /\ opts' = opts /\ pc[r] = "upsert"
        BY <3>3 DEF Apply, Goto, locals
      <4>2. QED
        BY <2>2, <4>1 DEF PassedDryRun, Steps
    <3>4. CASE Reply(r) \/ OpenCache(r) \/ WriteCache(r)
      BY <2>2, <3>4 DEF Reply, OpenCache, WriteCache, locals, Steps
    <3>5. QED
      BY <2>4, <3>1, <3>2, <3>3, <3>4 DEF Works
  <2>5. ASSUME NEW r \in Runs, Fails(r)
        PROVE  PassedDryRun'
    <3>1. CASE ListFails(r)
      BY <2>3, <3>1 DEF ListFails, locals
    <3>2. CASE ResolveFails(r) \/ GiveUp(r) \/ Rejected(r) \/ TimesOut(r) \/ ReplyLost(r)
      BY <2>2, <3>2 DEF ResolveFails, GiveUp, Rejected, TimesOut, ReplyLost, Return, locals, Steps
    <3>3. CASE OpenFails(r) \/ WriteFails(r)
      BY <2>2, <3>3 DEF OpenFails, WriteFails, locals, Steps
    <3>4. CASE Crash(r)
      BY <2>0, <3>4 DEF Crash, locals, PassedDryRun
    <3>5. QED
      BY <2>5, <3>1, <3>2, <3>3, <3>4 DEF Fails
  <2>6. CASE Environment \/ UNCHANGED vars
    <3>1. pc' = pc /\ opts' = opts
      BY <2>6 DEF Environment, LateApply, WanMoves, RecordEdited, locals, vars
    <3>2. QED
      BY <3>1 DEF PassedDryRun
  <2>7. QED
    BY <2>1, <2>4, <2>5, <2>6 DEF Next, Run
<1>3. PassedDryRun => \A r \in Runs : opts[r].dryRun => ~Apply(r)
  BY DEF PassedDryRun, Apply, Goto
<1>4. QED
  BY TypeCorrect, <1>1, <1>2, <1>3, PTL DEF Spec, DryRunNeverPublishes

(***************************************************************************)
(* Skipping on the word of the cache file, one run at a time               *)
(***************************************************************************)

\* Cron mode: no two runs overlap.
Serial == \A p, q \in Runs : p = q

\* Nobody passes --ip.
NoOverride == \A o \in Choices : o.override = NoIP

\* Once the record has held the WAN address it still does; a run that has not
\* published yet carries an address the record holds or has never held.
Fresh ==
  /\ late = {}
  /\ wan \in held => dns = wan
  /\ \A r \in Runs : opts[r].override = NoIP
  /\ \A r \in Runs : pc[r] \in {"read", "list", "upsert"} =>
       /\ ip[r] \in held => dns = ip[r]
       /\ ip[r] # wan => wan \notin held

\* With one run at a time, no --ip, and a WAN that takes a new address each time
\* it moves, a skipped publication (updater.go:160-168) is one the record does
\* not need, whichever calls fail and wherever the process dies.
THEOREM SerialSkipsAreSafe ==
  ASSUME Serial, NoOverride, Faults \cap {"late", "edit", "flap"} = {}
  PROVE  Spec => SkipOnlyWhenPublished
<1> USE Serial, NoOverride, Faults \cap {"late", "edit", "flap"} = {} DEF Serial, NoOverride
<1>1. Init => Fresh
  BY DEF Init, Fresh, Plain
<1>2. TypeOK /\ Published /\ Fresh /\ [Next]_vars => Fresh'
  <2> SUFFICES ASSUME TypeOK, Published, Fresh, [Next]_vars
               PROVE  Fresh'
    OBVIOUS
  <2> USE DEF TypeOK, Fresh
  <2>0. CASE UNCHANGED vars
    BY <2>0 DEF vars
  <2>1. ASSUME NEW r \in Runs, NEW o \in Choices, Start(r, o)
        PROVE  Fresh'
    BY <2>1 DEF Start, Goto, world
  <2>2. ASSUME NEW r \in Runs, Works(r)
        PROVE  Fresh'
    <3>1. CASE Resolve(r)
      BY <3>1 DEF Resolve, Goto, record, world
    <3>2. CASE CacheHit(r)
      BY <3>2 DEF CacheHit, Return, Goto, record, locals, world
    <3>3. CASE CacheMiss(r)
      BY <3>3 DEF CacheMiss, Goto, record, locals, world
    <3>4. CASE DnsMatches(r)
      BY <3>4 DEF DnsMatches, DnsSaysUnchanged, Goto, record, locals, world
    <3>5. CASE DnsDiffers(r)
      BY <3>5 DEF DnsDiffers, GoOn, Return, Goto, record, locals, world
    <3>6. CASE Apply(r)
      BY <3>6 DEF Apply, Publish, Goto, locals, world
    <3>7. CASE Reply(r)
      BY <3>7 DEF Reply, Goto, record, locals, world
    <3>8. CASE OpenCache(r)
      BY <3>8 DEF OpenCache, Goto, record, locals, world
    <3>9. CASE WriteCache(r)
      BY <3>9 DEF WriteCache, Goto, record, locals, world
    <3>10. QED
      BY <2>2, <3>1, <3>2, <3>3, <3>4, <3>5, <3>6, <3>7, <3>8, <3>9 DEF Works
  <2>3. ASSUME NEW r \in Runs, Fails(r)
        PROVE  Fresh'
    <3>1. CASE ResolveFails(r)
      BY <3>1 DEF ResolveFails, Return, Goto, record, locals, world
    <3>2. CASE ListFails(r)
      BY <3>2 DEF ListFails, GoOn, Return, Goto, record, locals, world
    <3>3. CASE GiveUp(r)
      BY <3>3 DEF GiveUp, Return, Goto, record, locals, world
    <3>4. CASE Rejected(r)
      BY <3>4 DEF Rejected, Return, Goto, record, locals, world
    <3>5. CASE TimesOut(r)
      BY <3>5 DEF TimesOut, Fault, Return, Goto, locals, world
    <3>6. CASE ReplyLost(r)
      BY <3>6 DEF ReplyLost, Fault, Return, Goto, record, locals, world
    <3>7. CASE OpenFails(r)
      BY <3>7 DEF OpenFails, Fault, Goto, record, locals, world
    <3>8. CASE WriteFails(r)
      BY <3>8 DEF WriteFails, Goto, record, locals, world
    <3>9. CASE Crash(r)
      BY <3>9 DEF Crash, Fault, record, locals, world
    <3>10. QED
      BY <2>3, <3>1, <3>2, <3>3, <3>4, <3>5, <3>6, <3>7, <3>8, <3>9 DEF Fails
  <2>4. ASSUME NEW v \in IPs, LateApply(v) \/ WanMoves(v) \/ RecordEdited(v)
        PROVE  Fresh'
    BY <2>4 DEF LateApply, WanMoves, RecordEdited, Publish, Fault, record, locals, world
  <2>5. QED
    BY StepKinds, <2>0, <2>1, <2>2, <2>3, <2>4
<1>3. TypeOK /\ Published /\ Fresh => \A r \in Runs : CacheHit(r) => dns = ip[r]
  BY DEF TypeOK, Published, Fresh, CacheHit, CacheSaysUnchanged, Return, Goto
<1>4. QED
  BY TypeCorrect, PublishedAlways, <1>1, <1>2, <1>3, PTL DEF Spec, SkipOnlyWhenPublished

(***************************************************************************)
(* Skipping on the word of the cache file, WAN at rest                     *)
(***************************************************************************)

\* Every run, every abandoned UPSERT and the cache file carry the one address.
OneAddress ==
  /\ late \subseteq {wan}
  /\ cache \in {NoIP, wan}
  /\ cache = wan => dns = wan
  /\ \A r \in Runs :
       /\ opts[r].override = NoIP
       /\ pc[r] \notin {"idle", "resolve"} => ip[r] = wan
       /\ pc[r] \in {"applied", "open", "write"} => dns = wan

\* While the WAN stays put, overlapping runs, retries, UPSERTs applied late and
\* crashes never make a skip (updater.go:160-168) wrong.
THEOREM SkipsAreSafeAtRest ==
  ASSUME MaxMoves = 0, NoOverride, "edit" \notin Faults
  PROVE  Spec => SkipOnlyWhenPublished
<1> USE MaxMoves = 0, NoOverride, "edit" \notin Faults, NoIPAssumption DEF NoOverride
<1>1. Init => OneAddress
  BY DEF Init, OneAddress, Plain
<1>2. TypeOK /\ OneAddress /\ [Next]_vars => OneAddress'
  <2> SUFFICES ASSUME TypeOK, OneAddress, [Next]_vars
               PROVE  OneAddress'
    OBVIOUS
  <2> USE DEF TypeOK, OneAddress
  <2>0. CASE UNCHANGED vars
    BY <2>0 DEF vars
  <2>1. ASSUME NEW r \in Runs, NEW o \in Choices, Start(r, o)
        PROVE  OneAddress'
    BY <2>1 DEF Start, Goto, world
  <2>2. ASSUME NEW r \in Runs, Works(r)
        PROVE  OneAddress'
    <3>1. CASE Resolve(r)
      BY <3>1 DEF Resolve, Goto, record, world
    <3>2. CASE CacheHit(r)
      BY <3>2 DEF CacheHit, Return, Goto, record, locals, world
    <3>3. CASE CacheMiss(r)
      BY <3>3 DEF CacheMiss, Goto, record, locals, world
    <3>4. CASE DnsMatches(r)
      BY <3>4 DEF DnsMatches, DnsSaysUnchanged, Goto, record, locals, world
    <3>5. CASE DnsDiffers(r)
      BY <3>5 DEF DnsDiffers, GoOn, Return, Goto, record, locals, world
    <3>6. CASE Apply(r)
      BY <3>6 DEF Apply, Publish, Goto, locals, world
    <3>7. CASE Reply(r)
      BY <3>7 DEF Reply, Goto, record, locals, world
    <3>8. CASE OpenCache(r)
      BY <3>8 DEF OpenCache, Goto, record, locals, world
    <3>9. CASE WriteCache(r)
      BY <3>9 DEF WriteCache, Goto, record, locals, world
    <3>10. QED
      BY <2>2, <3>1, <3>2, <3>3, <3>4, <3>5, <3>6, <3>7, <3>8, <3>9 DEF Works
  <2>3. ASSUME NEW r \in Runs, Fails(r)
        PROVE  OneAddress'
    <3>1. CASE ResolveFails(r)
      BY <3>1 DEF ResolveFails, Return, Goto, record, locals, world
    <3>2. CASE ListFails(r)
      BY <3>2 DEF ListFails, GoOn, Return, Goto, record, locals, world
    <3>3. CASE GiveUp(r)
      BY <3>3 DEF GiveUp, Return, Goto, record, locals, world
    <3>4. CASE Rejected(r)
      BY <3>4 DEF Rejected, Return, Goto, record, locals, world
    <3>5. CASE TimesOut(r)
      BY <3>5 DEF TimesOut, Fault, Return, Goto, locals, world
    <3>6. CASE ReplyLost(r)
      BY <3>6 DEF ReplyLost, Fault, Return, Goto, record, locals, world
    <3>7. CASE OpenFails(r)
      BY <3>7 DEF OpenFails, Fault, Goto, record, locals, world
    <3>8. CASE WriteFails(r)
      BY <3>8 DEF WriteFails, Goto, record, locals, world
    <3>9. CASE Crash(r)
      BY <3>9 DEF Crash, Fault, record, locals, world
    <3>10. QED
      BY <2>3, <3>1, <3>2, <3>3, <3>4, <3>5, <3>6, <3>7, <3>8, <3>9 DEF Fails
  <2>4. ASSUME NEW v \in IPs, LateApply(v) \/ WanMoves(v) \/ RecordEdited(v)
        PROVE  OneAddress'
    BY <2>4 DEF LateApply, WanMoves, RecordEdited, Publish, Fault, record, locals, world
  <2>5. QED
    BY StepKinds, <2>0, <2>1, <2>2, <2>3, <2>4
<1>3. TypeOK /\ OneAddress => \A r \in Runs : CacheHit(r) => dns = ip[r]
  BY DEF TypeOK, OneAddress, CacheHit, CacheSaysUnchanged, Return, Goto
<1>4. QED
  BY TypeCorrect, <1>1, <1>2, <1>3, PTL DEF Spec, SkipOnlyWhenPublished

(***************************************************************************)
(* The flow implements the abstract cache                                  *)
(***************************************************************************)

\* Between publication and truncation the file is not to be trusted; otherwise
\* what it names is what the record holds.
Settled ==
  /\ late = {}
  /\ cache # NoIP => cache = dns \/ \E r \in Runs : Unsettled(r)
  /\ \A r \in Runs :
       /\ pc[r] \in {"applied", "open", "write"} => dns = ip[r]
       /\ pc[r] = "write" => cache = NoIP
       /\ pc[r] = "open" => outcome[r] \in {"updated", "nochg-dns"}

\* With one run at a time and no fault between the publication and the
\* truncation of the file, every step of the flow is a step of RecordCache or
\* leaves record and memo alone (updater.go:128-236).
THEOREM FlowImplementsCache ==
  ASSUME Serial, Faults \subseteq {"resolve", "list", "reject", "write", "flap"}
  PROVE  Spec => ImplementsRecordCache
<1> USE Serial, Faults \subseteq {"resolve", "list", "reject", "write", "flap"},
        NoIPAssumption DEF Serial
<1>1. Init => Settled
  BY DEF Init, Settled
<1>2. TypeOK /\ Settled /\ [Next]_vars => Settled'
  <2> SUFFICES ASSUME TypeOK, Settled, [Next]_vars
               PROVE  Settled'
    OBVIOUS
  <2> USE DEF TypeOK, Settled, Unsettled
  <2>0. CASE UNCHANGED vars
    BY <2>0 DEF vars
  <2>1. ASSUME NEW r \in Runs, NEW o \in Choices, Start(r, o)
        PROVE  Settled'
    BY <2>1 DEF Start, Goto, world
  <2>2. ASSUME NEW r \in Runs, Works(r)
        PROVE  Settled'
    <3>1. CASE Resolve(r)
      BY <3>1 DEF Resolve, Goto, record, world
    <3>2. CASE CacheHit(r)
      BY <3>2 DEF CacheHit, Return, Goto, record, locals, world
    <3>3. CASE CacheMiss(r)
      BY <3>3 DEF CacheMiss, Goto, record, locals, world
    <3>4. CASE DnsMatches(r)
      BY <3>4 DEF DnsMatches, DnsSaysUnchanged, Goto, record, locals, world
    <3>5. CASE DnsDiffers(r)
      BY <3>5 DEF DnsDiffers, GoOn, Return, Goto, record, locals, world
    <3>6. CASE Apply(r)
      BY <3>6 DEF Apply, Publish, Goto, locals, world
    <3>7. CASE Reply(r)
      BY <3>7 DEF Reply, Goto, record, locals, world
    <3>8. CASE OpenCache(r)
      BY <3>8 DEF OpenCache, Goto, record, locals, world
    <3>9. CASE WriteCache(r)
      BY <3>9 DEF WriteCache, Goto, record, locals, world
    <3>10. QED
      BY <2>2, <3>1, <3>2, <3>3, <3>4, <3>5, <3>6, <3>7, <3>8, <3>9 DEF Works
  <2>3. ASSUME NEW r \in Runs, Fails(r)
        PROVE  Settled'
    <3>1. CASE ResolveFails(r)
      BY <3>1 DEF ResolveFails, Return, Goto, record, locals, world
    <3>2. CASE ListFails(r)
      BY <3>2 DEF ListFails, GoOn, Return, Goto, record, locals, world
    <3>3. CASE GiveUp(r)
      BY <3>3 DEF GiveUp, Return, Goto, record, locals, world
    <3>4. CASE Rejected(r)
      BY <3>4 DEF Rejected, Return, Goto, record, locals, world
    <3>5. CASE TimesOut(r)
      BY <3>5 DEF TimesOut, Fault, Return, Goto, locals, world
    <3>6. CASE ReplyLost(r)
      BY <3>6 DEF ReplyLost, Fault, Return, Goto, record, locals, world
    <3>7. CASE OpenFails(r)
      BY <3>7 DEF OpenFails, Fault, Goto, record, locals, world
    <3>8. CASE WriteFails(r)
      BY <3>8 DEF WriteFails, Goto, record, locals, world
    <3>9. CASE Crash(r)
      BY <3>9 DEF Crash, Fault, record, locals, world
    <3>10. QED
      BY <2>3, <3>1, <3>2, <3>3, <3>4, <3>5, <3>6, <3>7, <3>8, <3>9 DEF Fails
  <2>4. ASSUME NEW v \in IPs, LateApply(v) \/ WanMoves(v) \/ RecordEdited(v)
        PROVE  Settled'
    BY <2>4 DEF LateApply, WanMoves, RecordEdited, Publish, Fault, record, locals, world
  <2>5. QED
    BY StepKinds, <2>0, <2>1, <2>2, <2>3, <2>4
<1>3. Init => RC!Init
  BY DEF Init, RC!Init, Memo
<1>4. TypeOK /\ Settled /\ [Next]_vars => [RC!Next]_<<dns, Memo>>
  <2> SUFFICES ASSUME TypeOK, Settled, [Next]_vars
               PROVE  RC!Next \/ UNCHANGED <<dns, Memo>>
    OBVIOUS
  <2> USE DEF TypeOK, Settled, Unsettled, Memo
  <2>0. CASE UNCHANGED vars
    BY <2>0 DEF vars, RC!Next, RC!Publish, RC!Forget, RC!Remember
  <2>1. ASSUME NEW r \in Runs, NEW o \in Choices, Start(r, o)
        PROVE  RC!Next \/ UNCHANGED <<dns, Memo>>
    BY <2>1 DEF Start, Goto, world, RC!Next, RC!Publish, RC!Forget, RC!Remember
  <2>2. ASSUME NEW r \in Runs, Works(r)
        PROVE  RC!Next \/ UNCHANGED <<dns, Memo>>
    <3>1. CASE Resolve(r)
      BY <3>1 DEF Resolve, Goto, record, world, RC!Next, RC!Publish, RC!Forget, RC!Remember
    <3>2. CASE CacheHit(r)
      BY <3>2 DEF CacheHit, Return, Goto, record, locals, world, RC!Next, RC!Publish, RC!Forget, RC!Remember
    <3>3. CASE CacheMiss(r)
      BY <3>3 DEF CacheMiss, Goto, record, locals, world, RC!Next, RC!Publish, RC!Forget, RC!Remember
    <3>4. CASE DnsMatches(r)
      BY <3>4 DEF DnsMatches, DnsSaysUnchanged, Goto, record, locals, world, RC!Next, RC!Publish, RC!Forget, RC!Remember
    <3>5. CASE DnsDiffers(r)
      BY <3>5 DEF DnsDiffers, GoOn, Return, Goto, record, locals, world, RC!Next, RC!Publish, RC!Forget, RC!Remember
    <3>6. CASE Apply(r)
      BY <3>6 DEF Apply, Publish, Goto, locals, world, RC!Next, RC!Publish, RC!Forget, RC!Remember
    <3>7. CASE Reply(r)
      BY <3>7 DEF Reply, Goto, record, locals, world, RC!Next, RC!Publish, RC!Forget, RC!Remember
    <3>8. CASE OpenCache(r)
      BY <3>8 DEF OpenCache, Goto, record, locals, world, RC!Next, RC!Publish, RC!Forget, RC!Remember
    <3>9. CASE WriteCache(r)
      BY <3>9 DEF WriteCache, Goto, record, locals, world, RC!Next, RC!Publish, RC!Forget, RC!Remember
    <3>10. QED
      BY <2>2, <3>1, <3>2, <3>3, <3>4, <3>5, <3>6, <3>7, <3>8, <3>9 DEF Works
  <2>3. ASSUME NEW r \in Runs, Fails(r)
        PROVE  RC!Next \/ UNCHANGED <<dns, Memo>>
    <3>1. CASE ResolveFails(r)
      BY <3>1 DEF ResolveFails, Return, Goto, record, locals, world, RC!Next, RC!Publish, RC!Forget, RC!Remember
    <3>2. CASE ListFails(r)
      BY <3>2 DEF ListFails, GoOn, Return, Goto, record, locals, world, RC!Next, RC!Publish, RC!Forget, RC!Remember
    <3>3. CASE GiveUp(r)
      BY <3>3 DEF GiveUp, Return, Goto, record, locals, world, RC!Next, RC!Publish, RC!Forget, RC!Remember
    <3>4. CASE Rejected(r)
      BY <3>4 DEF Rejected, Return, Goto, record, locals, world, RC!Next, RC!Publish, RC!Forget, RC!Remember
    <3>5. CASE TimesOut(r)
      BY <3>5 DEF TimesOut, Fault, Return, Goto, locals, world, RC!Next, RC!Publish, RC!Forget, RC!Remember
    <3>6. CASE ReplyLost(r)
      BY <3>6 DEF ReplyLost, Fault, Return, Goto, record, locals, world, RC!Next, RC!Publish, RC!Forget, RC!Remember
    <3>7. CASE OpenFails(r)
      BY <3>7 DEF OpenFails, Fault, Goto, record, locals, world, RC!Next, RC!Publish, RC!Forget, RC!Remember
    <3>8. CASE WriteFails(r)
      BY <3>8 DEF WriteFails, Goto, record, locals, world, RC!Next, RC!Publish, RC!Forget, RC!Remember
    <3>9. CASE Crash(r)
      BY <3>9 DEF Crash, Fault, record, locals, world, RC!Next, RC!Publish, RC!Forget, RC!Remember
    <3>10. QED
      BY <2>3, <3>1, <3>2, <3>3, <3>4, <3>5, <3>6, <3>7, <3>8, <3>9 DEF Fails
  <2>4. ASSUME NEW v \in IPs, LateApply(v) \/ WanMoves(v) \/ RecordEdited(v)
        PROVE  RC!Next \/ UNCHANGED <<dns, Memo>>
    BY <2>4 DEF LateApply, WanMoves, RecordEdited, Publish, Fault, record, locals, world, RC!Next, RC!Publish, RC!Forget, RC!Remember
  <2>5. QED
    BY StepKinds, <2>0, <2>1, <2>2, <2>3, <2>4
<1>5. QED
  BY TypeCorrect, <1>1, <1>2, <1>3, <1>4, PTL DEF Spec, ImplementsRecordCache, RC!Spec
=============================================================================
