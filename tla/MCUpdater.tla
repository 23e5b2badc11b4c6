----------------------------- MODULE MCUpdater -----------------------------
(***************************************************************************)
(* Instances of Updater for TLC: the option records each mode passes and   *)
(* the faults each run of the checker allows.                              *)
(***************************************************************************)
EXTENDS Updater, TLC

Forced == [Plain EXCEPT !.force = TRUE]
Dry    == [Plain EXCEPT !.dryRun = TRUE]

Addresses == Permutations(IPs)

\* What the program is run with when nobody passes --ip.
Detected == {Plain, Forced, Dry}

\* Every option record.
AnyChoice == Options

\* Cron alone, options as generated by the boot script.
OnlyPlain == {Plain}

\* Every fault but those that move the record behind the program's back or let
\* the WAN come back to an old address.
OwnFaults == FaultKinds \ {"late", "edit", "flap"}

\* Faults after which the cache file is still truncated before the run ends.
ReliableFaults == {"resolve", "list", "reject", "write", "flap"}

\* Nobody else touches the record.
NoEdits == FaultKinds \ {"edit"}

CrashAndFlap == {"crash", "flap"}
=============================================================================
