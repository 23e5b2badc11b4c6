----------------------------- MODULE BootScript -----------------------------
(***************************************************************************)
(* A UniFi device as dddns sees it: the binary, the on_boot.d script that  *)
(* `dddns config set-mode` generates, the cron entry and the systemd unit  *)
(* the script installs, and the service systemd runs from the unit.        *)
(*                                                                         *)
(* The script runs at every boot and after an installation.  Each of its   *)
(* commands is a step, so it can be killed, or stopped by `set -e`,        *)
(* between any two; `cat >` truncates a file before it writes it.          *)
(*                                                                         *)
(* The script does not care whether systemctl stop, disable and enable     *)
(* succeed (`|| true`).  Nor does it of its daemon-reload after the unit   *)
(* is removed and of the restarts of cron, which change nothing below: a   *)
(* service is revived from the unit systemd has loaded, whatever became of *)
(* the file, and cron looks for new entries by itself.                     *)
(*                                                                         *)
(* /etc, where cron entry and unit live, survives a reboot but not a       *)
(* firmware upgrade; /data survives both.                                  *)
(***************************************************************************)
EXTENDS Naturals

CONSTANTS
  Versions,    \* releases of dddns
  MaxSecrets   \* bound: secrets generated

Modes == {"cron", "serve"}

ASSUME VersionsAssumption ==
  Versions # {} /\ Versions \cap ({"none", "torn", "on"} \cup Modes) = {}
ASSUME SecretsAssumption  == MaxSecrets \in Nat

Files == {"binary", "boot", "cron", "unit"}

\* What a file may hold; "none" is an absent file, "torn" one cut short.
Contents == [binary |-> Versions \cup {"none", "torn"},
             boot   |-> Modes \cup {"none", "torn"},
             cron   |-> {"none", "torn", "on"},
             unit   |-> {"none", "torn", "on"}]

Tree == {t \in [Files -> UNION {Contents[f] : f \in Files}] : \A f \in Files : t[f] \in Contents[f]}

VARIABLES
  live,      \* the four files
  config,    \* is there a configuration?
  secret,    \* the secret of its server block; 0: no server block
  enabled,   \* systemd starts the unit at boot
  active,    \* systemd keeps the service running (Restart=always)
  service,   \* the secret the running service has loaded; 0: it does not run
  unstopped, \* history: a `systemctl stop` failed, and since then the service
             \* was neither stopped nor started anew, and the host not restarted
  script,    \* the next command of a running boot script, or "done"
  settled    \* history: the script ran to its end, nothing has touched what
             \* it set up since

hostVars == <<live, config, secret, enabled, active, service, unstopped, script, settled>>

settings == <<config, secret>>
systemd  == <<enabled, active, service, unstopped>>

Commands == {"done", "stop", "disable", "rmunit", "opencron", "writecron",
             "rmcron", "openunit", "writeunit", "enable", "start"}

HostTypeOK ==
  /\ live \in Tree
  /\ config \in BOOLEAN
  /\ secret \in 0 .. MaxSecrets
  /\ enabled \in BOOLEAN
  /\ active \in BOOLEAN
  /\ service \in 0 .. MaxSecrets
  /\ unstopped \in BOOLEAN
  /\ script \in Commands
  /\ settled \in BOOLEAN

HostInit ==
  /\ live = [f \in Files |-> "none"]
  /\ config \in BOOLEAN
  /\ secret = 0
  /\ enabled = FALSE
  /\ active = FALSE
  /\ service = 0
  /\ unstopped = FALSE
  /\ script = "done"
  /\ settled = TRUE

(***************************************************************************)
(* systemd                                                                 *)
(***************************************************************************)

\* dddns serve needs a configuration with a secret (NewServer).
CanStart == live["binary"] \in Versions /\ config /\ secret # 0

\* systemctl restart, at once or, if it cannot start yet, by and by.
RestartService ==
  /\ active' = TRUE
  /\ service' = IF CanStart THEN secret ELSE 0
  /\ unstopped' = FALSE
  /\ UNCHANGED enabled

StopService ==
  /\ active' = FALSE
  /\ service' = 0
  /\ unstopped' = FALSE
  /\ UNCHANGED enabled

\* systemctl stop may fail, and then the service runs on.
StopFails ==
  /\ unstopped' = TRUE
  /\ UNCHANGED <<enabled, active, service>>

DisableService ==
  /\ enabled' = FALSE
  /\ UNCHANGED <<active, service, unstopped>>

\* Restart=always, RestartSec=5.
Revive ==
  /\ active /\ service = 0 /\ CanStart
  /\ service' = secret
  /\ UNCHANGED <<live, settings, enabled, active, unstopped, script, settled>>

ServiceDies ==
  /\ service # 0
  /\ service' = 0
  /\ UNCHANGED <<live, settings, enabled, active, unstopped, script, settled>>

(***************************************************************************)
(* The commands of the script                                              *)
(***************************************************************************)

\* The first command: a script cut short has no mode and does nothing.
FirstCommand ==
  CASE live["boot"] = "cron"  -> "stop"
    [] live["boot"] = "serve" -> "rmcron"
    [] OTHER                  -> "done"

Command(c, next) == script = c /\ script' = next

UnitThere == live["unit"] # "none"

NoUnit ==
  /\ ~UnitThere /\ Command("stop", "opencron")
  /\ UNCHANGED <<live, settings, systemd, settled>>

StopUnit ==
  /\ UnitThere /\ Command("stop", "disable")
  /\ StopService
  /\ UNCHANGED <<live, settings, settled>>

StopUnitFails ==
  /\ UnitThere /\ Command("stop", "disable")
  /\ StopFails
  /\ UNCHANGED <<live, settings, settled>>

DisableUnit ==
  /\ Command("disable", "rmunit")
  /\ DisableService
  /\ UNCHANGED <<live, settings, settled>>

\* The unit goes, stopped or not.
RemoveUnit ==
  /\ Command("rmunit", "opencron")
  /\ live' = [live EXCEPT !["unit"] = "none"]
  /\ UNCHANGED <<settings, systemd, settled>>

OpenCron ==
  /\ Command("opencron", "writecron")
  /\ live' = [live EXCEPT !["cron"] = "torn"]
  /\ UNCHANGED <<settings, systemd, settled>>

WriteCron ==
  /\ Command("writecron", "done")
  /\ live' = [live EXCEPT !["cron"] = "on"]
  /\ settled' = TRUE
  /\ UNCHANGED <<settings, systemd>>

\* Mutant: a stale cron entry is left alone.
KeepCron ==
  /\ Command("rmcron", "openunit")
  /\ UNCHANGED <<live, settings, systemd, settled>>

RemoveCron ==
  /\ Command("rmcron", "openunit")
  /\ live' = [live EXCEPT !["cron"] = "none"]
  /\ UNCHANGED <<settings, systemd, settled>>

OpenUnit ==
  /\ Command("openunit", "writeunit")
  /\ live' = [live EXCEPT !["unit"] = "torn"]
  /\ UNCHANGED <<settings, systemd, settled>>

WriteUnit ==
  /\ Command("writeunit", "enable")
  /\ live' = [live EXCEPT !["unit"] = "on"]
  /\ UNCHANGED <<settings, systemd, settled>>

EnableUnit ==
  /\ Command("enable", "start")
  /\ enabled' = TRUE
  /\ UNCHANGED <<live, settings, active, service, unstopped, settled>>

\* Mutant: a service that runs already is left running.
StartIfStopped ==
  /\ Command("start", "done")
  /\ IF service = 0 THEN RestartService ELSE UNCHANGED systemd
  /\ settled' = TRUE
  /\ UNCHANGED <<live, settings>>

StartUnit ==
  /\ Command("start", "done")
  /\ RestartService
  /\ settled' = TRUE
  /\ UNCHANGED <<live, settings>>

ScriptStep ==
  \/ NoUnit \/ StopUnit \/ DisableUnit \/ RemoveUnit \/ OpenCron \/ WriteCron
  \/ RemoveCron \/ OpenUnit \/ WriteUnit \/ EnableUnit \/ StartUnit

\* A disable or enable fails without effect, and the script goes on.
Unheeded ==
  /\ Command("disable", "rmunit") \/ Command("enable", "start")
  /\ UNCHANGED <<live, settings, systemd, settled>>

\* set -eu: any other command fails and the script goes no further.  At "stop"
\* that is a command of the header, at "enable" the daemon-reload before it.
ScriptAborts ==
  /\ script \notin {"done", "disable"}
  /\ script' = "done"
  /\ settled' = FALSE
  /\ UNCHANGED <<live, settings, systemd>>

(***************************************************************************)
(* The host                                                                *)
(***************************************************************************)

\* udm-boot runs the script; systemd starts what is enabled.  `t` is what the
\* restart leaves of the files.
BootWith(t, on) ==
  /\ live' = t
  /\ enabled' = on
  /\ active' = (on /\ t["unit"] = "on")
  /\ service' = 0
  /\ unstopped' = FALSE
  /\ script' = FirstCommand
  /\ UNCHANGED settings
=============================================================================
