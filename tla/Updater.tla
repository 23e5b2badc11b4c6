------------------------------ MODULE Updater ------------------------------
(***************************************************************************)
(* The update flow every mode of dddns shares (internal/updater): resolve  *)
(* the public address, compare it with the cache file, compare it with the *)
(* Route53 record, UPSERT, refresh the cache file.                         *)
(*                                                                         *)
(* A run is one execution of updateWithResolver.  Cron mode is Runs with   *)
(* one element, started again and again; serve mode, where net/http calls  *)
(* the handler concurrently, and a manual `dddns update` beside it, are    *)
(* Runs with several.  Runs share the cache file, the record and the WAN.  *)
(*                                                                         *)
(* Every interaction with the file system, Route53 or the WAN interface is *)
(* a step of its own; between two of them any other run, a crash or a WAN  *)
(* change may intervene.                                                   *)
(***************************************************************************)
EXTENDS Naturals

CONSTANTS
  Runs,       \* executions of the flow that may overlap
  IPs,        \* public addresses
  NoIP,       \* the empty string: no cache entry, no record, no override
  Choices,    \* the option records callers use
  Faults,     \* the kinds of fault the environment may inject
  MaxMoves,   \* bound: changes of the WAN address
  MaxFaults   \* bound: faults injected

Options == [force : BOOLEAN, dryRun : BOOLEAN, override : IPs \cup {NoIP}]

\* What cron and the serve handler pass (the handler's own WAN lookup is the
\* resolve step of the flow).
Plain == [force |-> FALSE, dryRun |-> FALSE, override |-> NoIP]

FaultKinds ==
  { "resolve",   \* the address lookup fails
    "list",      \* GetCurrentIP fails
    "reject",    \* the UPSERT is refused or never reaches Route53
    "lost",      \* the UPSERT is applied, its reply is lost
    "late",      \* the caller times out first, the UPSERT may still apply
    "open",      \* the cache file or its directory cannot be opened
    "write",     \* the cache file is truncated, the write fails
    "crash",     \* the process dies
    "edit",      \* somebody else changes the record
    "flap" }     \* the WAN returns to an address it had before

ASSUME NoIPAssumption      == NoIP \notin IPs
ASSUME ChoicesAssumption   == Choices \subseteq Options
ASSUME FaultsAssumption    == Faults \subseteq FaultKinds
ASSUME BoundsAssumption    == MaxMoves \in Nat /\ MaxFaults \in Nat

VARIABLES
  wan,        \* the address of the WAN interface
  dns,        \* the A record at Route53
  cache,      \* last_known_ip in the cache file; NoIP: absent or empty
  late,       \* addresses of abandoned UPSERTs Route53 may still apply
  pc,         \* where each run stands
  opts,       \* the options of each run
  ip,         \* currentIP of each run
  outcome,    \* Result.Action each run returns (set when it is decided)
  held,       \* history: every value the record has had
  since,      \* history: the values it has had since each run began
  moves,      \* WAN changes so far
  faults      \* faults so far

vars == <<wan, dns, cache, late, pc, opts, ip, outcome, held, since, moves, faults>>

record == <<dns, late, held, since>>
world  == <<wan, moves>>
locals == <<opts, ip>>

Steps == {"idle", "resolve", "read", "list", "upsert", "applied", "open", "write"}

Outcomes == {"none", "error", "nochg-cache", "nochg-dns", "dry-run", "updated"}

TypeOK ==
  /\ wan \in IPs
  /\ dns \in IPs \cup {NoIP}
  /\ cache \in IPs \cup {NoIP}
  /\ late \subseteq IPs
  /\ pc \in [Runs -> Steps]
  /\ opts \in [Runs -> Options]
  /\ ip \in [Runs -> IPs \cup {NoIP}]
  /\ \A r \in Runs : pc[r] \notin {"idle", "resolve"} => ip[r] # NoIP
  /\ outcome \in [Runs -> Outcomes]
  /\ held \subseteq IPs \cup {NoIP}
  /\ since \in [Runs -> SUBSET (IPs \cup {NoIP})]
  /\ moves \in 0 .. MaxMoves
  /\ faults \in 0 .. MaxFaults

Init ==
  /\ wan \in IPs
  /\ dns \in IPs \cup {NoIP}
  /\ cache = NoIP
  /\ late = {}
  /\ pc = [r \in Runs |-> "idle"]
  /\ opts = [r \in Runs |-> Plain]
  /\ ip = [r \in Runs |-> NoIP]
  /\ outcome = [r \in Runs |-> "none"]
  /\ held = {dns}
  /\ since = [r \in Runs |-> {dns}]
  /\ moves = 0
  /\ faults = 0

(***************************************************************************)
(* Building blocks                                                         *)
(***************************************************************************)
Fault(kind) ==
  /\ kind \in Faults
  /\ faults < MaxFaults
  /\ faults' = faults + 1

Goto(r, from, to) ==
  /\ pc[r] = from
  /\ pc' = [pc EXCEPT ![r] = to]

\* The run returns, with the given Action or an error.
Return(r, from, action) ==
  /\ Goto(r, from, "idle")
  /\ outcome' = [outcome EXCEPT ![r] = action]

\* Route53 applies an UPSERT of v.
Publish(v) ==
  /\ dns' = v
  /\ held' = held \cup {v}
  /\ since' = [r \in Runs |-> since[r] \cup {v}]

(***************************************************************************)
(* The steps of a run                                                      *)
(***************************************************************************)
Start(r, o) ==
  /\ Goto(r, "idle", "resolve")
  /\ opts' = [opts EXCEPT ![r] = o]
  /\ ip' = [ip EXCEPT ![r] = NoIP]
  /\ outcome' = [outcome EXCEPT ![r] = "none"]
  /\ since' = [since EXCEPT ![r] = {dns}]
  /\ UNCHANGED <<dns, late, held, cache, faults, world>>

Resolve(r) ==
  /\ Goto(r, "resolve", "read")
  /\ ip' = [ip EXCEPT ![r] = IF opts[r].override # NoIP THEN opts[r].override ELSE wan]
  /\ UNCHANGED <<record, cache, opts, outcome, faults, world>>

ResolveFails(r) ==
  /\ opts[r].override = NoIP
  /\ Fault("resolve")
  /\ Return(r, "resolve", "error")
  /\ UNCHANGED <<record, cache, locals, world>>

CacheSaysUnchanged(r) == ~opts[r].force /\ ip[r] = cache

CacheHit(r) ==
  /\ CacheSaysUnchanged(r)
  /\ Return(r, "read", "nochg-cache")
  /\ UNCHANGED <<record, cache, locals, faults, world>>

CacheMiss(r) ==
  /\ ~CacheSaysUnchanged(r)
  /\ Goto(r, "read", "list")
  /\ UNCHANGED <<record, cache, locals, outcome, faults, world>>

DnsSaysUnchanged(r) == ~opts[r].force /\ ip[r] = dns

\* Mutant: the nochg-dns branch returns an Action the handler does not know.
DnsMatchesUnnamed(r) ==
  /\ DnsSaysUnchanged(r)
  /\ Goto(r, "list", "open")
  /\ outcome' = [outcome EXCEPT ![r] = "nochg"]
  /\ UNCHANGED <<record, cache, locals, faults, world>>

\* The nochg-dns branch precedes the dry-run one: a dry run refreshes the
\* cache file here too.
DnsMatches(r) ==
  /\ DnsSaysUnchanged(r)
  /\ Goto(r, "list", "open")
  /\ outcome' = [outcome EXCEPT ![r] = "nochg-dns"]
  /\ UNCHANGED <<record, cache, locals, faults, world>>

\* Mutant: the dry-run branch is lost.
GoOnRegardless(r) == Goto(r, "list", "upsert") /\ UNCHANGED outcome

\* Past the comparison: a dry run returns, any other run goes on to UPSERT.
GoOn(r) ==
  IF opts[r].dryRun
  THEN Return(r, "list", "dry-run")
  ELSE Goto(r, "list", "upsert") /\ UNCHANGED outcome

DnsDiffers(r) ==
  /\ ~DnsSaysUnchanged(r)
  /\ GoOn(r)
  /\ UNCHANGED <<record, cache, locals, faults, world>>

\* Mutant: a failed lookup counts as "nothing to change".
ListFailsAsMatch(r) ==
  /\ Fault("list")
  /\ Goto(r, "list", "open")
  /\ outcome' = [outcome EXCEPT ![r] = "nochg-dns"]
  /\ UNCHANGED <<record, cache, locals, world>>

\* GetCurrentIP failed while the context is alive: only a warning.
ListFails(r) ==
  /\ Fault("list")
  /\ GoOn(r)
  /\ UNCHANGED <<record, cache, locals, world>>

\* No client could be built, or GetCurrentIP failed because the context ended.
GiveUp(r) ==
  /\ Fault("list")
  /\ Return(r, "list", "error")
  /\ UNCHANGED <<record, cache, locals, world>>

Apply(r) ==
  /\ Goto(r, "upsert", "applied")
  /\ Publish(ip[r])
  /\ UNCHANGED <<late, cache, locals, outcome, faults, world>>

\* Mutant: the error of UpdateIP is only logged.
RejectedIgnored(r) ==
  /\ Fault("reject")
  /\ Goto(r, "upsert", "open")
  /\ outcome' = [outcome EXCEPT ![r] = "updated"]
  /\ UNCHANGED <<record, cache, locals, world>>

Rejected(r) ==
  /\ Fault("reject")
  /\ Return(r, "upsert", "error")
  /\ UNCHANGED <<record, cache, locals, world>>

\* Mutant: a timed-out UPSERT is taken for applied.
TimesOutAsApplied(r) ==
  /\ Fault("late")
  /\ late' = late \cup {ip[r]}
  /\ Goto(r, "upsert", "open")
  /\ UNCHANGED <<dns, held, since, cache, locals, outcome, world>>

TimesOut(r) ==
  /\ Fault("late")
  /\ late' = late \cup {ip[r]}
  /\ Return(r, "upsert", "error")
  /\ UNCHANGED <<dns, held, since, cache, locals, world>>

Reply(r) ==
  /\ Goto(r, "applied", "open")
  /\ outcome' = [outcome EXCEPT ![r] = "updated"]
  /\ UNCHANGED <<record, cache, locals, faults, world>>

ReplyLost(r) ==
  /\ Fault("lost")
  /\ Return(r, "applied", "error")
  /\ UNCHANGED <<record, cache, locals, world>>

\* Mutant: the file is opened without truncating it.
OpenCacheKeepsOld(r) ==
  /\ Goto(r, "open", "write")
  /\ UNCHANGED <<record, cache, locals, outcome, faults, world>>

\* os.WriteFile opens with O_TRUNC: readers see an empty file until the write.
OpenCache(r) ==
  /\ Goto(r, "open", "write")
  /\ cache' = NoIP
  /\ UNCHANGED <<record, locals, outcome, faults, world>>

\* A failing cache refresh is a warning, the run still returns its Action.
OpenFails(r) ==
  /\ Fault("open")
  /\ Goto(r, "open", "idle")
  /\ UNCHANGED <<record, cache, locals, outcome, world>>

\* Mutant: the refresh asks for the address again instead of using currentIP.
WriteCacheResolvesAgain(r) ==
  /\ Goto(r, "write", "idle")
  /\ cache' = wan
  /\ UNCHANGED <<record, locals, outcome, faults, world>>

WriteCache(r) ==
  /\ Goto(r, "write", "idle")
  /\ cache' = ip[r]
  /\ UNCHANGED <<record, locals, outcome, faults, world>>

WriteFails(r) ==
  /\ Fault("write")
  /\ Goto(r, "write", "idle")
  /\ UNCHANGED <<record, cache, locals, outcome, world>>

Crash(r) ==
  /\ Fault("crash")
  /\ pc[r] # "idle"
  /\ pc' = [pc EXCEPT ![r] = "idle"]
  /\ outcome' = [outcome EXCEPT ![r] = "none"]
  /\ UNCHANGED <<record, cache, locals, world>>

(***************************************************************************)
(* The environment                                                         *)
(***************************************************************************)
LateApply(v) ==
  /\ v \in late
  /\ late' = late \ {v}
  /\ Publish(v)
  /\ UNCHANGED <<cache, pc, locals, outcome, faults, world>>

\* An address the record has held is only taken again when "flap" is allowed.
WanMoves(v) ==
  /\ moves < MaxMoves
  /\ v # wan
  /\ v \in held => "flap" \in Faults
  /\ wan' = v
  /\ moves' = moves + 1
  /\ UNCHANGED <<record, cache, pc, locals, outcome, faults>>

RecordEdited(v) ==
  /\ Fault("edit")
  /\ v # dns
  /\ Publish(v)
  /\ UNCHANGED <<late, cache, pc, locals, outcome, world>>

(***************************************************************************)
(* The specification                                                       *)
(***************************************************************************)
Works(r) ==
  \/ Resolve(r) \/ CacheHit(r) \/ CacheMiss(r)
  \/ DnsMatches(r) \/ DnsDiffers(r)
  \/ Apply(r) \/ Reply(r)
  \/ OpenCache(r) \/ WriteCache(r)

Fails(r) ==
  \/ ResolveFails(r) \/ ListFails(r) \/ GiveUp(r)
  \/ Rejected(r) \/ TimesOut(r) \/ ReplyLost(r)
  \/ OpenFails(r) \/ WriteFails(r) \/ Crash(r)

Run(r) == Works(r) \/ Fails(r) \/ \E o \in Choices : Start(r, o)

Environment == \E v \in IPs : LateApply(v) \/ WanMoves(v) \/ RecordEdited(v)

Next == Environment \/ \E r \in Runs : Run(r)

Spec == Init /\ [][Next]_vars

\* Cron starts a run whenever its turn comes and none is active, and a run
\* that is not killed goes on to its end: every call it makes has a deadline.
Fairness == \A r \in Runs : SF_vars(Start(r, Plain)) /\ WF_vars(Works(r))

FairSpec == Spec /\ Fairness

(***************************************************************************)
(* Properties                                                              *)
(***************************************************************************)

\* A run that reports the record as updated or already right tells the truth:
\* at some moment of the run the record held its address (updater.go:190-200,
\* 220-235), whatever the other runs, late UPSERTs and failures did.
HonestReport ==
  \A r \in Runs : outcome[r] \in {"updated", "nochg-dns"} => ip[r] \in since[r]

\* The cache file never names an address the record has not held: it is written
\* only after a confirmed UPSERT or a matching lookup (updater.go:190-193, 226).
CacheNeverInvents == cache # NoIP => cache \in held

\* A dry run never gets as far as the UPSERT (updater.go:205-216).
DryRunNeverPublishes ==
  [][\A r \in Runs : opts[r].dryRun => ~Apply(r)]_vars

\* A run that skips because of the cache file skips a publication the record
\* does not need (updater.go:160-168).
SkipOnlyWhenPublished ==
  [][\A r \in Runs : CacheHit(r) => dns = ip[r]]_vars

\* What the next reader may take from the cache file: nothing while a run has
\* published an address and not yet truncated the file.
Unsettled(r) == pc[r] = "applied" \/ (pc[r] = "open" /\ outcome[r] = "updated")

Memo == IF \E r \in Runs : Unsettled(r) THEN NoIP ELSE cache

RC == INSTANCE RecordCache WITH memo <- Memo

\* The flow implements the abstract cache: what the cache file offers a reader
\* is only ever the address the record holds (updater.go:128-236).
ImplementsRecordCache == RC!Spec

\* Once the WAN stops moving the record ends up at the WAN address and stays
\* there (README.md:13, the purpose of the program).
Converges == <>[](dns = wan)

\* With exclusive modes and requests served concurrently, the cache file agrees
\* with the record whenever no run is active (ai_docs/5_unifi-ddns-bridge.md:11).
NoCacheRace == (\A r \in Runs : pc[r] = "idle") => cache \in {NoIP, dns}
=============================================================================
