----------------------------- MODULE Installer -----------------------------
(***************************************************************************)
(* scripts/install-on-unifi-os.sh on the host of BootScript: install and   *)
(* upgrade with their snapshot, mode switch, smoke test and automatic      *)
(* rollback, --rollback, --disable, --uninstall; and the two dddns         *)
(* commands an operator mixes with them, set-mode and rotate-secret.       *)
(*                                                                         *)
(* One of these runs at a time, but it can be killed, and the host can     *)
(* lose power, between any two steps.  Steps that change nothing on the    *)
(* host (download, pre-flight, prompts) only decide whether it begins.     *)
(***************************************************************************)
EXTENDS BootScript

CONSTANTS
  Faults,      \* the kinds of fault allowed
  MaxFaults    \* bound: faults injected

FaultKinds ==
  { "apply",    \* rotate-secret or set-mode fails
    "smoke",    \* the installed binary or the configuration is rejected
    "script",   \* a command of the boot script fails, and the script with it
    "systemctl",\* a systemctl fails whose failure is ignored
    "kill",     \* the command is killed
    "power",    \* the host restarts in the middle of a command
    "die" }     \* the service dies

ASSUME FaultsAssumption == Faults \subseteq FaultKinds /\ MaxFaults \in Nat

VARIABLES
  prev,      \* the .prev snapshots of the four files
  job,       \* the command that runs, or Idle
  retired,   \* history: "yes": --disable completed and nothing asked for a
             \* scheduler since; "rolledback", "cut": as before, but an upgrade
             \* failed and restored snapshots, or was cut off with the old
             \* binary gone and the new one not there; else "no"
  faults     \* faults so far

vars == <<hostVars, prev, job, retired, faults>>

StateFiles == <<"binary", "boot", "cron", "unit">>

Idle == [op |-> "none"]

Jobs == [op : {"install", "rollback", "disable", "uninstall", "setmode"},
         at : {"save", "place", "create", "copy", "config", "secret", "open", "write", "run", "smoke",
               "restore", "kick", "stop", "disable", "rmunit", "rmcron", "rmboot", "rmbinary"},
         n : 1 .. 4,                       \* the file save or restore is at
         mode : Modes \cup {"disabled"},
         version : Versions,
         before : Tree]                    \* the files as the command found them

TypeOK ==
  /\ HostTypeOK
  /\ prev \in Tree
  /\ job \in Jobs \cup {Idle}
  /\ retired \in {"no", "yes", "rolledback", "cut"}
  /\ faults \in 0 .. MaxFaults

Init ==
  /\ HostInit
  /\ prev = [f \in Files |-> "none"]
  /\ job = Idle
  /\ retired = "no"
  /\ faults = 0

AtRest == job = Idle /\ script = "done"

Begin(op, at, mode, v) ==
  job' = [op |-> op, at |-> at, n |-> 1, mode |-> mode, version |-> v, before |-> live]

At(step) == job # Idle /\ job.at = step

Goto(step) == job' = [job EXCEPT !.at = step]

Fault(kind) ==
  /\ kind \in Faults
  /\ faults < MaxFaults
  /\ faults' = faults + 1

AnyVersion == CHOOSE v \in Versions : TRUE

(***************************************************************************)
(* Install and upgrade                                                     *)
(***************************************************************************)

\* Mutant: the check is missing.
DisabledForgotten == FALSE

\* The binary is there, the boot script, cron entry and unit are not.
Disabled == live["binary"] # "none" /\ \A f \in Files \ {"binary"} : live[f] = "none"

\* The mode of an installation: --mode, else disabled stays disabled, else the
\* mode of the boot script, else cron; a fresh one asks, unless --force.
ModeOf(m, force, answer) ==
  CASE m # "none"                  -> m
    [] m = "none" /\ Disabled      -> "disabled"
    [] m = "none" /\ ~Disabled /\ config ->
         IF live["boot"] = "serve" THEN "serve" ELSE "cron"
    [] OTHER                       -> IF force THEN "cron" ELSE answer

\* An upgrade to the version at hand is nothing to do, unless --force.
Install(v, m, force, answer) ==
  LET mode == ModeOf(m, force, answer) IN
  /\ AtRest
  /\ ~(config /\ ~force /\ live["binary"] = v)
  /\ mode = "serve" => secret < MaxSecrets
  /\ Begin("install", "save", mode, v)
  /\ retired' = IF m # "none" THEN "no" ELSE retired
  /\ UNCHANGED <<hostVars, prev, faults>>

OnFile(step, next) ==
  /\ At(step)
  /\ job' = IF job.n < 4 THEN [job EXCEPT !.n = @ + 1] ELSE [job EXCEPT !.n = 1, !.at = next]

\* Mutant: an older snapshot is not replaced.
SaveOnce ==
  LET f == StateFiles[job.n] IN
  /\ OnFile("save", "place")
  /\ prev' = [prev EXCEPT ![f] = IF @ = "none" THEN live[f] ELSE @]
  /\ UNCHANGED <<hostVars, retired, faults>>

\* save_state: absent files leave an older snapshot in place.
Save ==
  LET f == StateFiles[job.n] IN
  /\ OnFile("save", "place")
  /\ prev' = [prev EXCEPT ![f] = IF live[f] # "none" THEN live[f] ELSE @]
  /\ UNCHANGED <<hostVars, retired, faults>>

\* mv from /tmp, another file system: the old binary is unlinked, the new one
\* created and then filled.
Place ==
  /\ At("place") /\ Goto("create")
  /\ live' = [live EXCEPT !["binary"] = "none"]
  /\ UNCHANGED <<settings, systemd, script, settled, prev, retired, faults>>

Create ==
  /\ At("create") /\ Goto("copy")
  /\ live' = [live EXCEPT !["binary"] = "torn"]
  /\ UNCHANGED <<settings, systemd, script, settled, prev, retired, faults>>

Copy ==
  /\ At("copy") /\ Goto("config")
  /\ live' = [live EXCEPT !["binary"] = job.version]
  /\ UNCHANGED <<settings, systemd, script, settled, prev, retired, faults>>

\* Mutant: apply_mode is not skipped for a disabled installation.
CreateConfigAndApply ==
  /\ At("config")
  /\ Goto(IF job.mode = "serve" THEN "secret" ELSE "open")
  /\ config' = TRUE
  /\ UNCHANGED <<live, secret, systemd, script, settled, prev, retired, faults>>

CreateConfig ==
  /\ At("config")
  /\ Goto(CASE job.mode = "serve" -> "secret" [] job.mode = "cron" -> "open" [] OTHER -> "smoke")
  /\ config' = TRUE
  /\ UNCHANGED <<live, secret, systemd, script, settled, prev, retired, faults>>

\* rotate-secret --init, on every installation in serve mode.
InitSecret ==
  /\ At("secret") /\ Goto("open")
  /\ secret' = secret + 1
  /\ settled' = FALSE
  /\ UNCHANGED <<live, config, systemd, script, prev, retired, faults>>

\* set-mode: os.WriteFile truncates the boot script, then writes it.
OpenBoot ==
  /\ At("open") /\ Goto("write")
  /\ live' = [live EXCEPT !["boot"] = "torn"]
  /\ settled' = FALSE
  /\ UNCHANGED <<settings, systemd, script, prev, retired, faults>>

WriteBoot ==
  /\ At("write")
  /\ live' = [live EXCEPT !["boot"] = job.mode]
  /\ IF job.op = "install" THEN Goto("run") ELSE job' = Idle
  /\ UNCHANGED <<settings, systemd, script, settled, prev, retired, faults>>

RunBoot ==
  /\ At("run") /\ Goto("smoke")
  /\ script' = FirstCommand
  /\ UNCHANGED <<live, settings, systemd, settled, prev, retired, faults>>

\* The outcome of the boot script does not matter.
Smoke ==
  /\ At("smoke") /\ script = "done"
  /\ job' = Idle
  /\ UNCHANGED <<hostVars, prev, retired, faults>>

RollBack ==
  /\ Goto("restore")
  /\ settled' = FALSE
  /\ retired' = IF retired = "yes" THEN "rolledback" ELSE retired
  /\ UNCHANGED <<live, settings, systemd, script, prev>>

ApplyFails ==
  /\ At("secret") \/ At("open") \/ At("write")
  /\ Fault("apply")
  /\ IF job.op = "install"
     THEN RollBack
     ELSE job' = Idle /\ UNCHANGED <<hostVars, prev, retired>>

SmokeFails ==
  /\ At("smoke") /\ script = "done"
  /\ Fault("smoke")
  /\ RollBack

(***************************************************************************)
(* Rollback                                                                *)
(***************************************************************************)
Rollback ==
  /\ AtRest
  /\ prev["binary"] # "none"
  /\ Begin("rollback", "restore", "disabled", AnyVersion)
  /\ settled' = FALSE
  /\ retired' = "no"
  /\ UNCHANGED <<live, settings, systemd, script, prev, faults>>

\* A file without a snapshot stays as it is.
Restore ==
  LET f == StateFiles[job.n] IN
  /\ OnFile("restore", "kick")
  /\ live' = [live EXCEPT ![f] = IF prev[f] # "none" THEN prev[f] ELSE @]
  /\ prev' = [prev EXCEPT ![f] = "none"]
  /\ UNCHANGED <<settings, systemd, script, settled, retired, faults>>

Kick ==
  /\ At("kick")
  /\ job' = Idle
  /\ IF live["unit"] = "on" THEN RestartService ELSE UNCHANGED systemd
  /\ UNCHANGED <<live, settings, script, settled, prev, retired, faults>>

(***************************************************************************)
(* Disable and uninstall                                                   *)
(***************************************************************************)
Disable(op) ==
  /\ AtRest
  /\ Begin(op, "stop", "disabled", AnyVersion)
  /\ settled' = FALSE
  /\ UNCHANGED <<live, settings, systemd, script, prev, retired, faults>>

\* Mutant: the unit is removed first, and systemctl no longer knows it.
StopLosesUnit ==
  /\ UnitThere /\ At("stop") /\ Goto("disable")
  /\ live' = [live EXCEPT !["unit"] = "none"]
  /\ UNCHANGED <<settings, systemd, script, settled, prev, retired, faults>>

SkipUnit ==
  /\ ~UnitThere /\ At("stop") /\ Goto("rmcron")
  /\ UNCHANGED <<hostVars, prev, retired, faults>>

Stop ==
  /\ UnitThere /\ At("stop") /\ Goto("disable")
  /\ StopService
  /\ UNCHANGED <<live, settings, script, settled, prev, retired, faults>>

StopIgnored ==
  /\ UnitThere /\ At("stop") /\ Goto("disable")
  /\ StopFails
  /\ Fault("systemctl")
  /\ UNCHANGED <<live, settings, script, settled, prev, retired>>

DisableAtBoot ==
  /\ At("disable") /\ Goto("rmunit")
  /\ DisableService
  /\ UNCHANGED <<live, settings, script, settled, prev, retired, faults>>

\* The other failures that are ignored: of disable, and of a rollback's restart.
Ignored ==
  /\ \/ At("disable") /\ Goto("rmunit")
     \/ At("kick") /\ live["unit"] = "on" /\ job' = Idle
  /\ Fault("systemctl")
  /\ UNCHANGED <<hostVars, prev, retired>>

Remove(step, f, next) ==
  /\ At(step) /\ Goto(next)
  /\ live' = [live EXCEPT ![f] = "none"]
  /\ UNCHANGED <<settings, systemd, script, settled, prev, retired, faults>>

\* The boot script goes last; --uninstall then removes the install directory.
RemoveBoot ==
  /\ At("rmboot")
  /\ live' = [live EXCEPT !["boot"] = "none"]
  /\ IF job.op = "uninstall"
     THEN Goto("rmbinary") /\ UNCHANGED <<settled, retired>>
     ELSE /\ job' = Idle
          /\ settled' = TRUE
          /\ retired' = IF live["binary"] # "none" THEN "yes" ELSE "no"
  /\ UNCHANGED <<settings, systemd, script, prev, faults>>

RemoveBinary ==
  /\ At("rmbinary")
  /\ job' = Idle
  /\ live' = [live EXCEPT !["binary"] = "none"]
  /\ prev' = [prev EXCEPT !["binary"] = "none"]
  /\ settled' = TRUE
  /\ retired' = "no"
  /\ UNCHANGED <<settings, systemd, script, faults>>

(***************************************************************************)
(* The operator's commands                                                 *)
(***************************************************************************)
SetMode(m) ==
  /\ AtRest
  /\ live["binary"] \in Versions /\ config
  /\ m = "serve" => secret # 0
  /\ Begin("setmode", "open", m, AnyVersion)
  /\ retired' = "no"
  /\ UNCHANGED <<hostVars, prev, faults>>

RunScript ==
  /\ AtRest
  /\ FirstCommand # "done"
  /\ script' = FirstCommand
  /\ UNCHANGED <<live, settings, systemd, settled, prev, job, retired, faults>>

\* The running server keeps the secret it has loaded.
RotateSecret ==
  /\ AtRest
  /\ live["binary"] \in Versions /\ config
  /\ secret < MaxSecrets
  /\ secret' = secret + 1
  /\ settled' = FALSE
  /\ UNCHANGED <<live, config, systemd, script, prev, job, retired, faults>>

(***************************************************************************)
(* What happens to the host                                                *)
(***************************************************************************)
\* What becomes of a disabled installation whose upgrade is cut off.
CutOff == retired' = IF retired = "yes" /\ live["binary"] = "none" THEN "cut" ELSE retired

Interrupted ==
  /\ job' = Idle
  /\ CutOff
  /\ IF AtRest THEN UNCHANGED <<settled, faults>> ELSE Fault("power") /\ settled' = FALSE

Reboot ==
  /\ Interrupted
  /\ BootWith(live, enabled)
  /\ UNCHANGED prev

\* The root file system is new: no cron entry, no unit, none of their snapshots.
Wiped(t) == [t EXCEPT !["cron"] = "none", !["unit"] = "none"]

FirmwareUpgrade ==
  /\ Interrupted
  /\ BootWith(Wiped(live), FALSE)
  /\ prev' = Wiped(prev)

Killed ==
  /\ ~AtRest
  /\ Fault("kill")
  /\ job' = Idle
  /\ script' = "done"
  /\ settled' = FALSE
  /\ CutOff
  /\ UNCHANGED <<live, settings, systemd, prev>>

Systemd ==
  \/ Revive /\ UNCHANGED <<prev, job, retired, faults>>
  \/ ServiceDies /\ Fault("die") /\ UNCHANGED <<prev, job, retired>>

Script ==
  \/ ScriptStep /\ UNCHANGED <<prev, job, retired, faults>>
  \/ ScriptAborts /\ Fault("script") /\ UNCHANGED <<prev, job, retired>>
  \/ (StopUnitFails \/ Unheeded) /\ Fault("systemctl") /\ UNCHANGED <<prev, job, retired>>

Step ==
  \/ Save \/ Place \/ Create \/ Copy \/ CreateConfig \/ InitSecret \/ OpenBoot \/ WriteBoot
  \/ RunBoot \/ Smoke \/ Restore \/ Kick
  \/ SkipUnit \/ Stop \/ StopIgnored \/ DisableAtBoot \/ Ignored
  \/ Remove("rmunit", "unit", "rmcron") \/ Remove("rmcron", "cron", "rmboot")
  \/ RemoveBoot \/ RemoveBinary

Operator ==
  \/ \E v \in Versions, m \in Modes \cup {"none"}, force \in BOOLEAN, answer \in Modes :
       Install(v, m, force, answer)
  \/ Rollback
  \/ \E op \in {"disable", "uninstall"} : Disable(op)
  \/ \E m \in Modes : SetMode(m)
  \/ RunScript
  \/ RotateSecret

Next ==
  \/ Operator \/ Step \/ Script \/ Systemd
  \/ ApplyFails \/ SmokeFails \/ Killed \/ Reboot \/ FirmwareUpgrade

Spec == Init /\ [][Next]_vars

(***************************************************************************)
(* Properties                                                              *)
(***************************************************************************)

\* Once a boot script has run to its end, and until something other than the
\* script changes its work, the host is in the one mode of the script: whatever
\* mixture of files, from kills, rollbacks or firmware upgrades, it found; and
\* the server, if it is up, has the configured secret (bootscript.go:39-41:
\* "running it repeatedly leaves the system in the same state").  The files are
\* as they should be even where systemctl failed; the service is, unless its
\* stop did (bootscript.go:86).
HostMatchesScript ==
  AtRest /\ settled =>
    /\ live["cron"] = IF live["boot"] = "cron" THEN "on" ELSE "none"
    /\ live["unit"] = IF live["boot"] = "serve" THEN "on" ELSE "none"
    /\ live["boot"] = "serve" => active /\ service \in {0, secret}
    /\ live["boot"] # "serve" => unstopped \/ (~active /\ service = 0)

\* A service runs without its unit file only where a `systemctl stop` has failed,
\* and then no longer than to the next boot or start: neither kills nor aborts
\* between the commands, rollbacks nor firmware upgrades take the file from a
\* service that runs.  The scripts look for the file to decide whether there is
\* a service to stop (bootscript.go:85, install-on-unifi-os.sh:1112), so that
\* running them again would never stop it.
NoOrphanService == (active \/ service # 0) /\ ~UnitThere => unstopped

\* A failed installation gives back every file it found, as it found it, however
\* many earlier installations and rollbacks left snapshots behind
\* (install-on-unifi-os.sh:29-33).
FailedInstallRestores ==
  At("kick") /\ job.op = "install" =>
    \A f \in Files : job.before[f] # "none" => live[f] = job.before[f]

NoScheduler == \A f \in Files \ {"binary"} : live[f] = "none"

Off == NoScheduler /\ service = 0 /\ ~active

\* --disable lasts: upgrades, reboots, firmware upgrades and kills do not bring
\* the update loop back (install-on-unifi-os.sh:172-184, 1325-1343).  A service
\* it failed to stop (install-on-unifi-os.sh:1113) runs until the next boot, and
\* is off from then on.  An upgrade that fails, or is cut off inside its mv
\* (install-on-unifi-os.sh:540), may end it, see DisabledStaysDisabled.
RetiredStaysOff == retired = "yes" => NoScheduler /\ (Off \/ unstopped)

\* "Subsequent installer runs upgrade the binary only while preserving the
\* disabled state" (install-on-unifi-os.sh:1198), those that fail included.
DisabledStaysDisabled == AtRest /\ retired # "no" => Off
=============================================================================
