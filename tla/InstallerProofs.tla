-------------------------- MODULE InstallerProofs --------------------------
(***************************************************************************)
(* The host and the installer for every set of releases and every number   *)
(* of secrets and faults.                                                  *)
(***************************************************************************)
EXTENDS Installer, TLAPS

(***************************************************************************)
(* The inductive invariants                                                *)
(***************************************************************************)
Running == job # Idle

\* Which command may be at which stage; the boot script runs beside no stage but
\* the smoke test.
Stages ==
  /\ script # "done" /\ Running => job.at = "smoke"
  /\ Running =>
       /\ job.at \in {"save", "place", "create", "copy", "config", "secret", "run", "smoke"} =>
            job.op = "install"
       /\ job.at \in {"open", "write"} => job.op \in {"install", "setmode"} /\ job.mode \in Modes
       /\ job.at \in {"restore", "kick"} => job.op \in {"install", "rollback"}
       /\ job.at \in {"stop", "disable", "rmunit", "rmcron", "rmboot"} => job.op \in {"disable", "uninstall"}
       /\ job.at = "rmbinary" => job.op = "uninstall"
       /\ job.at = "secret" => job.mode = "serve"

\* A secret is generated only where there is room for one.
Room ==
  Running /\ job.mode = "serve" /\ job.at \in {"save", "place", "create", "copy", "config", "secret"} =>
    (job.op = "install" => secret < MaxSecrets)

\* While one of these stages is at work the host is not settled.
Unsettled ==
  Running /\ job.at \in {"write", "restore", "kick", "stop", "disable",
                        "rmunit", "rmcron", "rmboot", "rmbinary"}
    => ~settled

\* The service is down, unless its stop failed.
Stopped == unstopped \/ (~active /\ service = 0)

\* The unit file goes only after the service.
UnitLast ==
  /\ script \in {"disable", "rmunit"} => Stopped
  /\ At("disable") \/ At("rmunit") => Stopped

\* What a boot script has set up at each of its commands, what a removal has at
\* each of its steps, and what is there at rest.
CronSide == live["unit"] = "none" /\ Stopped
Fitting ==
  /\ live["cron"] = IF live["boot"] = "cron" THEN "on" ELSE "none"
  /\ live["unit"] = IF live["boot"] = "serve" THEN "on" ELSE "none"
  /\ live["boot"] = "serve" => active /\ service \in {0, secret}
  /\ live["boot"] # "serve" => Stopped

Progress ==
  /\ script \in {"stop", "disable", "rmunit", "opencron", "writecron"} => live["boot"] = "cron"
  /\ script \in {"rmcron", "openunit", "writeunit", "enable", "start"} => live["boot"] = "serve"
  /\ script \in {"opencron", "writecron"} => CronSide
  /\ script \in {"openunit", "writeunit", "enable", "start"} => live["cron"] = "none"
  /\ script \in {"enable", "start"} => live["unit"] = "on"
  /\ At("rmcron") => CronSide
  /\ At("rmboot") => CronSide /\ live["cron"] = "none"
  /\ At("rmbinary") => CronSide /\ live["cron"] = "none" /\ live["boot"] = "none"
  /\ settled /\ script = "done" => Fitting

\* The snapshots that matter to a rollback: before, during and after the saving,
\* and what is restored already.
Before(f) == job.before[f]
SavedFrom(n) == {StateFiles[i] : i \in n .. 4}
SavedTo(n)   == {StateFiles[i] : i \in 1 .. (n - 1)}
Snapshots ==
  Running /\ job.op = "install" =>
    /\ job.at = "save" =>
         /\ live = job.before
         /\ \A f \in SavedTo(job.n) : Before(f) # "none" => prev[f] = Before(f)
    /\ job.at \in {"place", "create", "copy", "config", "secret", "open", "write", "run", "smoke"} =>
         /\ job.n = 1
         /\ \A f \in Files : Before(f) # "none" => prev[f] = Before(f)
    /\ job.at = "restore" =>
         /\ \A f \in SavedFrom(job.n) : Before(f) # "none" => prev[f] = Before(f)
         /\ \A f \in SavedTo(job.n) : Before(f) # "none" => live[f] = Before(f)
    /\ job.at = "kick" => \A f \in Files : Before(f) # "none" => live[f] = Before(f)

\* Since --disable nothing that runs can bring the scheduler back; the binary is
\* missing only while an upgrade replaces it.
Retired ==
  retired = "yes" =>
    /\ NoScheduler
    /\ Stopped
    /\ live["binary"] # "none" \/ At("create")
    /\ script = "done"
    /\ Running => \/ job.op = "install" /\ job.mode = "disabled"
                     /\ job.at \in {"save", "place", "create", "copy", "config", "smoke"}
                  \/ job.op \in {"disable", "uninstall"}

(***************************************************************************)
(* The files and the job                                                   *)
(***************************************************************************)
Stage == {"save", "place", "create", "copy", "config", "secret", "open", "write", "run", "smoke",
          "restore", "kick", "stop", "disable", "rmunit", "rmcron", "rmboot", "rmbinary"}

\* What each file may hold.
LEMMA Holding ==
  /\ \A f \in Files : {"none", "torn"} \subseteq Contents[f]
  /\ Contents["binary"] = Versions \cup {"none", "torn"}
  /\ Contents["boot"] = Modes \cup {"none", "torn"}
  /\ "on" \in Contents["cron"] /\ "on" \in Contents["unit"]
<1>1. /\ Contents["binary"] = Versions \cup {"none", "torn"}
      /\ Contents["boot"] = Modes \cup {"none", "torn"}
      /\ Contents["cron"] = {"none", "torn", "on"}
      /\ Contents["unit"] = {"none", "torn", "on"}
  BY DEF Contents
<1>2. QED
  BY <1>1 DEF Files

\* A tree is a function of the files, and stays a tree when one file changes.
LEMMA Trees ==
  /\ \A t \in Tree : t \in [Files -> UNION {Contents[f] : f \in Files}]
  /\ \A t \in Tree, f \in Files : t[f] \in Contents[f]
  /\ \A t \in Tree, f \in Files : \A v \in Contents[f] : [t EXCEPT ![f] = v] \in Tree
BY DEF Tree

\* A firmware upgrade leaves a tree.
LEMMA WipedTrees == \A t \in Tree : Wiped(t) \in Tree
<1>1. {"cron", "unit"} \subseteq Files /\ "none" \in Contents["cron"] /\ "none" \in Contents["unit"]
  BY Holding DEF Files
<1>2. \A t \in Tree : [[t EXCEPT !["cron"] = "none"] EXCEPT !["unit"] = "none"] \in Tree
  BY <1>1, Trees
<1>3. \A t \in Tree : Wiped(t) = [[t EXCEPT !["cron"] = "none"] EXCEPT !["unit"] = "none"]
  BY <1>1, Trees DEF Wiped
<1>4. QED
  BY <1>2, <1>3

\* What going on to a stage makes of the job.
LEMMA Going ==
  ASSUME job \in Jobs, NEW s \in Stage, Goto(s)
  PROVE  /\ job' \in Jobs /\ job' # Idle /\ job'.at = s
         /\ job'.op = job.op /\ job'.n = job.n /\ job'.mode = job.mode
         /\ job'.version = job.version /\ job'.before = job.before
BY DEF Goto, Jobs, Stage, Idle

\* What a command that begins makes of it.
LEMMA Beginning ==
  ASSUME NEW op \in {"install", "rollback", "disable", "uninstall", "setmode"},
         NEW s \in Stage, NEW m \in Modes \cup {"disabled"}, NEW v \in Versions,
         live \in Tree, Begin(op, s, m, v)
  PROVE  /\ job' \in Jobs /\ job' # Idle /\ job'.at = s /\ job'.op = op /\ job'.n = 1
         /\ job'.mode = m /\ job'.version = v /\ job'.before = live
BY DEF Begin, Jobs, Stage, Idle

\* What the saving or restoring of a file makes of it.
LEMMA Filing ==
  ASSUME job \in Jobs, NEW s \in Stage, NEW next \in Stage, OnFile(s, next)
  PROVE  /\ job' \in Jobs /\ job' # Idle
         /\ job'.op = job.op /\ job'.mode = job.mode /\ job'.before = job.before
         /\ \/ job.n \in 1 .. 3 /\ job'.n = job.n + 1 /\ job'.at = job.at
            \/ job.n = 4 /\ job'.n = 1 /\ job'.at = next
<1>1. CASE job.n < 4
  BY <1>1 DEF OnFile, Jobs, Stage, Idle
<1>2. CASE ~(job.n < 4)
  <2>1. job.n = 4
    BY <1>2 DEF Jobs
  <2>2. job' = [job EXCEPT !.n = 1, !.at = next]
    BY <1>2 DEF OnFile
  <2>3. QED
    <3>1. job' \in Jobs /\ job'.n = 1 /\ job'.at = next
      <4> DEFINE j == [job EXCEPT !.n = 1]
      <4>1. j \in Jobs /\ j.n = 1
        BY DEF Jobs
      <4>2. job' = [j EXCEPT !.at = next]
        BY <2>2, <4>1 DEF Jobs
      <4> HIDE DEF j
      <4>3. QED
        BY <4>1, <4>2 DEF Jobs, Stage
    <3>2. job'.op = job.op /\ job'.mode = job.mode /\ job'.before = job.before
      BY <2>2 DEF Jobs
    <3>3. QED
      BY <2>1, <3>1, <3>2 DEF Jobs, Idle
<1>3. QED
  BY <1>1, <1>2

(***************************************************************************)
(* Types                                                                   *)
(***************************************************************************)

\* The modes of an installation.
LEMMA ModeTypes ==
  \A m \in Modes \cup {"none"}, force \in BOOLEAN, answer \in Modes :
    ModeOf(m, force, answer) \in Modes \cup {"disabled"}
BY DEF ModeOf, Modes

\* A file that is rewritten or removed leaves the types alone.
LEMMA Rewriting ==
  ASSUME HostTypeOK, NEW f \in Files, NEW v \in Contents[f],
         live' = [live EXCEPT ![f] = v], UNCHANGED <<settings, systemd>>,
         script' \in Commands, settled' \in BOOLEAN
  PROVE  HostTypeOK'
BY Trees DEF HostTypeOK, settings, systemd

\* What a boot script does, where a systemctl fails without stopping it too.
ScriptMoves == ScriptStep \/ StopUnitFails \/ Unheeded

\* The commands of the boot script keep the types of the host.
LEMMA ScriptTypes ==
  ASSUME HostTypeOK, ScriptMoves
  PROVE  HostTypeOK'
<1> USE DEF HostTypeOK, Command, Commands, settings, systemd
<1>1. CASE NoUnit \/ StopUnitFails \/ Unheeded
  BY <1>1 DEF NoUnit, StopUnitFails, StopFails, Unheeded
<1>11. CASE StopUnit
  <2>1. 0 \in 0 .. MaxSecrets
    BY SecretsAssumption
  <2>2. QED
    BY <1>11, <2>1 DEF StopUnit, StopService
<1>12. CASE DisableUnit
  BY <1>12 DEF DisableUnit, DisableService
<1>2. CASE RemoveUnit
  BY <1>2, Rewriting, Holding DEF RemoveUnit, Files
<1>3. CASE OpenCron
  BY <1>3, Rewriting, Holding DEF OpenCron, Files
<1>4. CASE WriteCron
  BY <1>4, Rewriting, Holding DEF WriteCron, Files
<1>5. CASE RemoveCron
  BY <1>5, Rewriting, Holding DEF RemoveCron, Files
<1>6. CASE OpenUnit
  BY <1>6, Rewriting, Holding DEF OpenUnit, Files
<1>7. CASE WriteUnit
  BY <1>7, Rewriting, Holding DEF WriteUnit, Files
<1>8. CASE EnableUnit
  BY <1>8 DEF EnableUnit
<1>9. CASE StartUnit
  <2>1. 0 \in 0 .. MaxSecrets /\ CanStart \in BOOLEAN
    BY SecretsAssumption DEF CanStart
  <2>2. service' \in 0 .. MaxSecrets
    BY <1>9, <2>1 DEF StartUnit, RestartService
  <2>3. QED
    BY <1>9, <2>2 DEF StartUnit, RestartService
<1>10. QED
  <2> HIDE DEF HostTypeOK, Command, Commands, settings, systemd
  <2>1. CASE ScriptStep
    BY <1>1, <1>2, <1>3, <1>4, <1>5, <1>6, <1>7, <1>8, <1>9, <1>11, <1>12, <2>1, Zenon DEF ScriptStep
  <2>2. QED
    BY <1>1, <2>1, Zenon DEF ScriptMoves

\* A restart keeps the types of the host.
LEMMA BootTypes ==
  ASSUME HostTypeOK, NEW t \in Tree, NEW on \in BOOLEAN, BootWith(t, on), settled' \in BOOLEAN
  PROVE  HostTypeOK'
<1>1. active' \in BOOLEAN
  BY DEF BootWith
<1>2. script' \in Commands
  BY DEF BootWith, FirstCommand, Commands
<1>3. service' \in 0 .. MaxSecrets
  BY SecretsAssumption DEF BootWith
<1>4. QED
  BY <1>1, <1>2, <1>3 DEF BootWith, HostTypeOK, settings

\* A restart of the service does too.
LEMMA RestartTypes ==
  ASSUME HostTypeOK, RestartService, UNCHANGED <<live, settings, script, settled>>
  PROVE  HostTypeOK'
<1>1. active' \in BOOLEAN /\ service' \in 0 .. MaxSecrets
  BY SecretsAssumption DEF RestartService, HostTypeOK
<1>2. QED
  BY <1>1 DEF RestartService, HostTypeOK, settings

\* Every step keeps the types; where a secret is generated there is room for it.
LEMMA TypeStep ==
  ASSUME TypeOK, Stages, Room, [Next]_vars
  PROVE  TypeOK'
<1>0. /\ HostTypeOK /\ live \in Tree /\ prev \in Tree
      /\ Running => job \in Jobs
      /\ retired \in {"no", "yes", "rolledback", "cut"} /\ faults \in 0 .. MaxFaults
  BY DEF TypeOK, HostTypeOK, Running
<1>1. \A kind : Fault(kind) => faults' \in 0 .. MaxFaults
  BY <1>0, FaultsAssumption DEF Fault
<1>2. AnyVersion \in Versions
  BY VersionsAssumption DEF AnyVersion
<1>3. UNCHANGED hostVars => HostTypeOK'
  BY <1>0 DEF hostVars, HostTypeOK
<1>4. ASSUME NEW v \in Versions, NEW m \in Modes \cup {"none"}, NEW force \in BOOLEAN,
             NEW answer \in Modes, Install(v, m, force, answer)
      PROVE  TypeOK'
  <2>1. job' \in Jobs
    BY <1>0, <1>4, ModeTypes, Beginning DEF Install, Stage
  <2>2. QED
    BY <1>0, <1>3, <1>4, <2>1 DEF Install, TypeOK
<1>5. CASE Rollback
  <2>1. job' \in Jobs
    BY <1>0, <1>2, <1>5, Beginning DEF Rollback, Stage
  <2>2. HostTypeOK'
    BY <1>0, <1>5 DEF Rollback, HostTypeOK, settings, systemd
  <2>3. QED
    BY <1>0, <1>5, <2>1, <2>2 DEF Rollback, TypeOK
<1>6. ASSUME NEW op \in {"disable", "uninstall"}, Disable(op)
      PROVE  TypeOK'
  <2>1. job' \in Jobs
    BY <1>0, <1>2, <1>6, Beginning DEF Disable, Stage
  <2>2. HostTypeOK'
    BY <1>0, <1>6 DEF Disable, HostTypeOK, settings, systemd
  <2>3. QED
    BY <1>0, <1>6, <2>1, <2>2 DEF Disable, TypeOK
<1>7. ASSUME NEW m \in Modes, SetMode(m)
      PROVE  TypeOK'
  <2>1. job' \in Jobs
    BY <1>0, <1>2, <1>7, Beginning DEF SetMode, Stage
  <2>2. QED
    BY <1>0, <1>3, <1>7, <2>1 DEF SetMode, TypeOK
<1>8. CASE RunScript
  <2>1. script' \in Commands
    BY <1>8 DEF RunScript, FirstCommand, Commands
  <2>2. QED
    BY <1>0, <1>8, <2>1 DEF RunScript, TypeOK, HostTypeOK, settings, systemd
<1>9. CASE RotateSecret
  <2>1. secret' \in 0 .. MaxSecrets
    BY <1>0, <1>9, SecretsAssumption DEF RotateSecret, HostTypeOK
  <2>2. QED
    BY <1>0, <1>9, <2>1 DEF RotateSecret, TypeOK, HostTypeOK, systemd
<1>10. CASE Save
  <2>1. job' \in Jobs
    BY <1>0, <1>10, Filing DEF Save, OnFile, At, Running, Stage
  <2>2. StateFiles[job.n] \in Files
    BY <1>0, <1>10 DEF Save, OnFile, At, Running, Jobs, StateFiles, Files
  <2>3. prev' \in Tree
    BY <1>0, <1>10, <2>2, Trees DEF Save
  <2>4. QED
    BY <1>0, <1>3, <1>10, <2>1, <2>3 DEF Save, TypeOK
<1>11. CASE Restore
  <2>1. job' \in Jobs
    BY <1>0, <1>11, Filing DEF Restore, OnFile, At, Running, Stage
  <2>2. StateFiles[job.n] \in Files
    BY <1>0, <1>11 DEF Restore, OnFile, At, Running, Jobs, StateFiles, Files
  <2>3. prev' \in Tree /\ live' \in Tree
    BY <1>0, <1>11, <2>2, Trees, Holding DEF Restore
  <2>4. HostTypeOK'
    BY <1>0, <1>11, <2>3 DEF Restore, HostTypeOK, settings, systemd
  <2>5. QED
    BY <1>0, <1>11, <2>1, <2>3, <2>4 DEF Restore, TypeOK
<1>12. CASE Place \/ Create \/ Copy
  <2>1. job' \in Jobs
    BY <1>0, <1>12, Going DEF Place, Create, Copy, At, Running, Stage
  <2>2. live' \in Tree
    <3>1. {"none", "torn"} \subseteq Contents["binary"] /\ "binary" \in Files
      BY Holding DEF Files
    <3>2. At("copy") => job.version \in Contents["binary"]
      BY <1>0, Holding DEF At, Running, Jobs
    <3>3. CASE Place
      BY <1>0, <3>1, <3>3, Trees DEF Place
    <3>6. CASE Create
      BY <1>0, <3>1, <3>6, Trees DEF Create
    <3>4. CASE Copy
      <4>1. job.version \in Contents["binary"] /\ live' = [live EXCEPT !["binary"] = job.version]
        BY <3>2, <3>4 DEF Copy
      <4>2. QED
        BY <1>0, <3>1, <4>1, Trees
    <3>5. QED
      BY <1>12, <3>3, <3>4, <3>6
  <2>3. HostTypeOK'
    BY <1>0, <1>12, <2>2 DEF Place, Create, Copy, HostTypeOK, settings, systemd
  <2>4. QED
    BY <1>0, <1>12, <2>1, <2>3 DEF Place, Create, Copy, TypeOK
<1>13. CASE CreateConfig
  <2>1. job' \in Jobs
    BY <1>0, <1>13, Going DEF CreateConfig, At, Running, Stage
  <2>2. HostTypeOK'
    BY <1>0, <1>13 DEF CreateConfig, HostTypeOK, systemd
  <2>3. QED
    BY <1>0, <1>13, <2>1, <2>2 DEF CreateConfig, TypeOK
<1>14. CASE InitSecret
  <2>1. job' \in Jobs
    BY <1>0, <1>14, Going DEF InitSecret, At, Running, Stage
  <2>2. secret < MaxSecrets
    BY <1>14 DEF InitSecret, At, Running, Stages, Room
  <2>3. secret' \in 0 .. MaxSecrets
    BY <1>0, <1>14, <2>2, SecretsAssumption DEF InitSecret, HostTypeOK
  <2>4. QED
    BY <1>0, <1>14, <2>1, <2>3 DEF InitSecret, TypeOK, HostTypeOK, systemd
<1>15. CASE OpenBoot
  <2>1. job' \in Jobs
    BY <1>0, <1>15, Going DEF OpenBoot, At, Running, Stage
  <2>2. HostTypeOK'
    BY <1>0, <1>15, Rewriting, Holding DEF OpenBoot, HostTypeOK, Files, settings, systemd
  <2>3. QED
    BY <1>0, <1>15, <2>1, <2>2 DEF OpenBoot, TypeOK
<1>16. CASE WriteBoot
  <2>1. job' \in Jobs \cup {Idle}
    BY <1>0, <1>16, Going DEF WriteBoot, At, Running, Stage
  <2>2. job.mode \in Contents["boot"] /\ "boot" \in Files
    BY <1>16, Holding DEF WriteBoot, At, Running, Stages, Files
  <2>3. HostTypeOK'
    BY <1>0, <1>16, <2>2, Rewriting DEF WriteBoot, HostTypeOK, settings, systemd
  <2>4. QED
    BY <1>0, <1>16, <2>1, <2>3 DEF WriteBoot, TypeOK
<1>17. CASE RunBoot
  <2>1. job' \in Jobs
    BY <1>0, <1>17, Going DEF RunBoot, At, Running, Stage
  <2>2. script' \in Commands
    BY <1>17 DEF RunBoot, FirstCommand, Commands
  <2>3. QED
    BY <1>0, <1>17, <2>1, <2>2 DEF RunBoot, TypeOK, HostTypeOK, settings, systemd
<1>18. CASE Smoke
  BY <1>0, <1>3, <1>18 DEF Smoke, TypeOK
<1>19. CASE Kick
  <2>1. HostTypeOK'
    <3>1. CASE live["unit"] = "on"
      BY <1>0, <1>19, <3>1, RestartTypes DEF Kick
    <3>2. CASE live["unit"] # "on"
      BY <1>0, <1>19, <3>2 DEF Kick, HostTypeOK, settings, systemd
    <3>3. QED
      BY <3>1, <3>2
  <2>2. QED
    BY <1>0, <1>19, <2>1 DEF Kick, TypeOK
<1>20. CASE SkipUnit \/ Stop \/ StopIgnored \/ DisableAtBoot
  <2>1. job' \in Jobs
    BY <1>0, <1>20, Going DEF SkipUnit, Stop, StopIgnored, DisableAtBoot, At, Running, Stage
  <2>2. HostTypeOK'
    <3>1. CASE SkipUnit
      BY <1>3, <3>1 DEF SkipUnit
    <3>2. CASE Stop
      <4>1. 0 \in 0 .. MaxSecrets
        BY SecretsAssumption
      <4>2. QED
        BY <1>0, <3>2, <4>1 DEF Stop, StopService, HostTypeOK, settings
    <3>3. CASE StopIgnored
      BY <1>0, <3>3 DEF StopIgnored, StopFails, HostTypeOK, settings
    <3>4. CASE DisableAtBoot
      BY <1>0, <3>4 DEF DisableAtBoot, DisableService, HostTypeOK, settings
    <3>5. QED
      BY <1>20, <3>1, <3>2, <3>3, <3>4
  <2>3. prev' = prev /\ retired' = retired /\ (faults' = faults \/ Fault("systemctl"))
    BY <1>20 DEF SkipUnit, Stop, StopIgnored, DisableAtBoot
  <2>4. QED
    BY <1>0, <1>1, <2>1, <2>2, <2>3 DEF TypeOK
<1>37. CASE Ignored
  <2>1. job' \in Jobs \cup {Idle}
    BY <1>0, <1>37, Going DEF Ignored, At, Running, Stage
  <2>2. QED
    BY <1>0, <1>1, <1>3, <1>37, <2>1 DEF Ignored, TypeOK
<1>21. ASSUME NEW step \in {"rmunit", "rmcron"}, NEW f \in {"unit", "cron"},
              NEW next \in {"rmcron", "rmboot"}, Remove(step, f, next)
       PROVE  TypeOK'
  <2>1. job' \in Jobs
    BY <1>0, <1>21, Going DEF Remove, At, Running, Stage
  <2>2. f \in Files /\ "none" \in Contents[f]
    BY Holding DEF Files
  <2>3. HostTypeOK'
    BY <1>0, <1>21, <2>2, Rewriting DEF Remove, HostTypeOK, settings, systemd
  <2>4. QED
    BY <1>0, <1>21, <2>1, <2>3 DEF Remove, TypeOK
<1>22. CASE RemoveBoot
  <2>1. job' \in Jobs \cup {Idle}
    BY <1>0, <1>22, Going DEF RemoveBoot, At, Running, Stage
  <2>2. "boot" \in Files /\ "none" \in Contents["boot"]
    BY Holding DEF Files
  <2>3. settled' \in BOOLEAN /\ retired' \in {"no", "yes", "rolledback", "cut"}
    BY <1>0, <1>22 DEF RemoveBoot, HostTypeOK
  <2>4. HostTypeOK'
    BY <1>0, <1>22, <2>2, <2>3, Rewriting DEF RemoveBoot, HostTypeOK
  <2>5. QED
    BY <1>0, <1>22, <2>1, <2>3, <2>4 DEF RemoveBoot, TypeOK
<1>23. CASE RemoveBinary
  <2>1. "binary" \in Files /\ "none" \in Contents["binary"]
    BY Holding DEF Files
  <2>2. prev' \in Tree
    BY <1>0, <1>23, <2>1, Trees DEF RemoveBinary
  <2>3. HostTypeOK'
    BY <1>0, <1>23, <2>1, Rewriting DEF RemoveBinary, HostTypeOK
  <2>4. QED
    BY <1>0, <1>23, <2>2, <2>3 DEF RemoveBinary, TypeOK
<1>24. CASE Script
  <2>1. CASE ScriptStep /\ UNCHANGED <<prev, job, retired, faults>>
    BY <1>0, <2>1, ScriptTypes DEF ScriptMoves, TypeOK
  <2>2. CASE ScriptAborts /\ Fault("script") /\ UNCHANGED <<prev, job, retired>>
    BY <1>0, <1>1, <2>2 DEF ScriptAborts, TypeOK, HostTypeOK, Commands, settings, systemd
  <2>3. CASE (StopUnitFails \/ Unheeded) /\ Fault("systemctl") /\ UNCHANGED <<prev, job, retired>>
    BY <1>0, <1>1, <2>3, ScriptTypes DEF ScriptMoves, TypeOK
  <2>4. QED
    BY <1>24, <2>1, <2>2, <2>3 DEF Script
<1>25. CASE Systemd
  <2>1. CASE Revive /\ UNCHANGED <<prev, job, retired, faults>>
    BY <1>0, <2>1 DEF Revive, TypeOK, HostTypeOK, settings
  <2>2. CASE ServiceDies /\ Fault("die") /\ UNCHANGED <<prev, job, retired>>
    BY <1>0, <1>1, <2>2, SecretsAssumption DEF ServiceDies, TypeOK, HostTypeOK, settings
  <2>3. QED
    BY <1>25, <2>1, <2>2 DEF Systemd
<1>26. RollBack /\ Running => job' \in Jobs /\ HostTypeOK' /\ prev' = prev /\ retired' \in {"no", "yes", "rolledback", "cut"}
  <2> SUFFICES ASSUME RollBack, Running
               PROVE  job' \in Jobs /\ HostTypeOK' /\ prev' = prev /\ retired' \in {"no", "yes", "rolledback", "cut"}
    OBVIOUS
  <2>1. job' \in Jobs
    BY <1>0, Going DEF RollBack, Stage
  <2>2. HostTypeOK'
    BY <1>0 DEF RollBack, HostTypeOK, settings, systemd
  <2>3. QED
    BY <1>0, <2>1, <2>2 DEF RollBack
<1>27. CASE ApplyFails
  <2>1. Running /\ faults' \in 0 .. MaxFaults
    BY <1>1, <1>27 DEF ApplyFails, At, Running
  <2>2. CASE job.op = "install"
    BY <1>26, <1>27, <2>1, <2>2 DEF ApplyFails, TypeOK
  <2>3. CASE job.op # "install"
    BY <1>0, <1>3, <1>27, <2>1, <2>3 DEF ApplyFails, TypeOK
  <2>4. QED
    BY <2>2, <2>3
<1>28. CASE SmokeFails
  BY <1>0, <1>1, <1>26, <1>28 DEF SmokeFails, At, Running, TypeOK
<1>29. CASE Killed
  BY <1>0, <1>1, <1>29 DEF Killed, CutOff, TypeOK, HostTypeOK, Commands, settings, systemd
<1>30. Interrupted => /\ job' = Idle /\ settled' \in BOOLEAN /\ faults' \in 0 .. MaxFaults
                      /\ retired' \in {"no", "yes", "rolledback", "cut"}
  <2>1. CASE AtRest
    BY <1>0, <2>1 DEF Interrupted, CutOff, HostTypeOK
  <2>2. CASE ~AtRest
    BY <1>0, <1>1, <2>2 DEF Interrupted, CutOff
  <2>3. QED
    BY <2>1, <2>2
<1>31. CASE Reboot
  <2>1. HostTypeOK'
    BY <1>0, <1>30, <1>31, BootTypes DEF Reboot, HostTypeOK
  <2>2. QED
    BY <1>0, <1>30, <1>31, <2>1 DEF Reboot, TypeOK
<1>32. CASE FirmwareUpgrade
  <2>1. \A t \in Tree : Wiped(t) \in Tree
    BY WipedTrees
  <2>2. HostTypeOK'
    BY <1>0, <1>30, <1>32, <2>1, BootTypes DEF FirmwareUpgrade
  <2>3. QED
    BY <1>0, <1>30, <1>32, <2>1, <2>2 DEF FirmwareUpgrade, TypeOK
<1>33. CASE UNCHANGED vars
  BY <1>0, <1>3, <1>33 DEF vars, TypeOK
<1>34. CASE Step
  BY <1>10, <1>11, <1>12, <1>13, <1>14, <1>15, <1>16, <1>17, <1>18, <1>19, <1>20, <1>21, <1>22,
     <1>23, <1>34, <1>37 DEF Step
<1>35. CASE Operator
  BY <1>4, <1>5, <1>6, <1>7, <1>8, <1>9, <1>35 DEF Operator
<1>36. QED
  BY <1>24, <1>25, <1>27, <1>28, <1>29, <1>31, <1>32, <1>33, <1>34, <1>35 DEF Next

(***************************************************************************)
(* Which command is at which stage                                         *)
(***************************************************************************)

\* The stages of a command follow each other, and the boot script runs alone.
LEMMA StagesStep ==
  ASSUME TypeOK, Stages, Room, [Next]_vars
  PROVE  Stages' /\ Room'
<1>0. /\ Running => job \in Jobs
      /\ Running /\ job.at # "smoke" => script = "done"
  BY DEF TypeOK, Running, Stages
<1>1. live \in Tree /\ AnyVersion \in Versions
  BY VersionsAssumption DEF TypeOK, HostTypeOK, AnyVersion
<1>2. ASSUME job' = Idle
      PROVE  Stages' /\ Room'
  BY <1>2 DEF Stages, Room, Running
<1>3. ASSUME job' = job, secret' = secret, script' # "done" => script # "done" \/ ~Running
      PROVE  Stages' /\ Room'
  BY <1>3 DEF Stages, Room, Running
<1>4. ASSUME NEW v \in Versions, NEW m \in Modes \cup {"none"}, NEW force \in BOOLEAN,
             NEW answer \in Modes, Install(v, m, force, answer)
      PROVE  Stages' /\ Room'
  <2> DEFINE mode == ModeOf(m, force, answer)
  <2>1. mode \in Modes \cup {"disabled"}
    BY ModeTypes
  <2>2. /\ Begin("install", "save", mode, v) /\ script = "done"
        /\ mode = "serve" => secret < MaxSecrets
        /\ secret' = secret /\ script' = script
    BY <1>4 DEF Install, AtRest, hostVars
  <2> HIDE DEF mode
  <2>3. job'.at = "save" /\ job'.op = "install" /\ job'.mode = mode
    BY <1>1, <2>1, <2>2, Beginning DEF Stage
  <2>4. QED
    BY <2>2, <2>3 DEF Stages, Room, Running
<1>5. CASE Rollback
  <2>1. job'.at = "restore" /\ job'.op = "rollback" /\ script' = "done"
    BY <1>1, <1>5, Beginning DEF Rollback, AtRest, Stage
  <2>2. QED
    BY <2>1 DEF Stages, Room, Running
<1>6. ASSUME NEW op \in {"disable", "uninstall"}, Disable(op)
      PROVE  Stages' /\ Room'
  <2>1. job'.at = "stop" /\ job'.op = op /\ script' = "done"
    BY <1>1, <1>6, Beginning DEF Disable, AtRest, Stage
  <2>2. QED
    BY <2>1 DEF Stages, Room, Running
<1>7. ASSUME NEW m \in Modes, SetMode(m)
      PROVE  Stages' /\ Room'
  <2>1. job'.at = "open" /\ job'.op = "setmode" /\ job'.mode = m /\ script' = "done"
    BY <1>1, <1>7, Beginning DEF SetMode, AtRest, Stage, hostVars
  <2>2. QED
    BY <2>1 DEF Stages, Room, Running
<1>8. CASE RunScript
  BY <1>2, <1>8 DEF RunScript, AtRest
<1>9. CASE RotateSecret
  BY <1>2, <1>9 DEF RotateSecret, AtRest
<1>10. CASE Save
  <2>1. /\ job'.op = job.op /\ job'.mode = job.mode /\ job'.at \in {"save", "place"}
        /\ Running /\ job.at = "save"
    BY <1>0, <1>10, Filing DEF Save, OnFile, At, Running, Stage
  <2>2. secret' = secret /\ script' = "done"
    BY <1>0, <1>10, <2>1 DEF Save, hostVars
  <2>3. QED
    BY <2>1, <2>2 DEF Stages, Room, Running
<1>11. CASE Restore
  <2>1. /\ job'.op = job.op /\ job'.at \in {"restore", "kick"}
        /\ Running /\ job.at = "restore"
    BY <1>0, <1>11, Filing DEF Restore, OnFile, At, Running, Stage
  <2>2. script' = "done"
    BY <1>0, <1>11, <2>1 DEF Restore
  <2>3. QED
    BY <2>1, <2>2 DEF Stages, Room, Running
<1>12. CASE Place \/ Create
  <2>1. /\ job'.at \in {"create", "copy"} /\ job'.op = job.op /\ job'.mode = job.mode
        /\ Running /\ job.at \in {"place", "create"}
    BY <1>0, <1>12, Going DEF Place, Create, At, Running, Stage
  <2>2. secret' = secret /\ script' = "done"
    BY <1>0, <1>12, <2>1 DEF Place, Create, settings
  <2>3. QED
    BY <2>1, <2>2 DEF Stages, Room, Running
<1>13. CASE Copy
  <2>1. /\ job'.at = "config" /\ job'.op = job.op /\ job'.mode = job.mode
        /\ Running /\ job.at = "copy"
    BY <1>0, <1>13, Going DEF Copy, At, Running, Stage
  <2>2. secret' = secret /\ script' = "done"
    BY <1>0, <1>13, <2>1 DEF Copy, settings
  <2>3. QED
    BY <2>1, <2>2 DEF Stages, Room, Running
<1>14. CASE CreateConfig
  <2> DEFINE next == CASE job.mode = "serve" -> "secret" [] job.mode = "cron" -> "open"
                       [] OTHER -> "smoke"
  <2>1. next \in Stage
    BY DEF Stage
  <2>2. Goto(next) /\ Running /\ job.at = "config" /\ secret' = secret /\ script' = script
    BY <1>14 DEF CreateConfig, At, Running
  <2>3. \/ next = "secret" /\ job.mode = "serve"
        \/ next = "open" /\ job.mode = "cron"
        \/ next = "smoke"
    <3>1. job.mode = "serve" => next = "secret"
      OBVIOUS
    <3>2. job.mode = "cron" => next = "open"
      OBVIOUS
    <3>3. job.mode # "serve" /\ job.mode # "cron" => next = "smoke"
      OBVIOUS
    <3>4. QED
      BY <3>1, <3>2, <3>3
  <2> HIDE DEF next
  <2>4. job'.at = next /\ job'.op = job.op /\ job'.mode = job.mode
    BY <1>0, <2>1, <2>2, Going
  <2>5. QED
    BY <1>0, <2>2, <2>3, <2>4 DEF Stages, Room, Running, Modes
<1>15. CASE InitSecret
  <2>1. /\ job'.at = "open" /\ job'.op = job.op /\ job'.mode = job.mode
        /\ Running /\ job.at = "secret"
    BY <1>0, <1>15, Going DEF InitSecret, At, Running, Stage
  <2>2. script' = "done"
    BY <1>0, <1>15, <2>1 DEF InitSecret
  <2>3. QED
    BY <2>1, <2>2 DEF Stages, Room, Running, Modes
<1>16. CASE OpenBoot
  <2>1. /\ job'.at = "write" /\ job'.op = job.op /\ job'.mode = job.mode
        /\ Running /\ job.at = "open"
    BY <1>0, <1>16, Going DEF OpenBoot, At, Running, Stage
  <2>2. script' = "done"
    BY <1>0, <1>16, <2>1 DEF OpenBoot
  <2>3. QED
    BY <2>1, <2>2 DEF Stages, Room, Running
<1>17. CASE WriteBoot
  <2>1. CASE job.op = "install"
    <3>1. /\ job'.at = "run" /\ job'.op = job.op
          /\ Running /\ job.at = "write"
      BY <1>0, <1>17, <2>1, Going DEF WriteBoot, At, Running, Stage
    <3>2. script' = "done"
      BY <1>0, <1>17, <3>1 DEF WriteBoot
    <3>3. QED
      BY <2>1, <3>1, <3>2 DEF Stages, Room, Running
  <2>2. CASE job.op # "install"
    BY <1>2, <1>17, <2>2 DEF WriteBoot
  <2>3. QED
    BY <2>1, <2>2
<1>18. CASE RunBoot
  <2>1. job'.at = "smoke" /\ job'.op = job.op /\ Running /\ job.at = "run"
    BY <1>0, <1>18, Going DEF RunBoot, At, Running, Stage
  <2>2. QED
    BY <2>1 DEF Stages, Room, Running
<1>19. CASE Smoke \/ Kick \/ RemoveBinary \/ Killed \/ Reboot \/ FirmwareUpgrade
  BY <1>2, <1>19 DEF Smoke, Kick, RemoveBinary, Killed, Reboot, FirmwareUpgrade, Interrupted
<1>20. CASE SkipUnit \/ Stop \/ StopIgnored \/ DisableAtBoot \/ (Ignored /\ At("disable"))
  <2>1. /\ job'.at \in {"disable", "rmunit", "rmcron"} /\ job'.op = job.op
        /\ Running /\ job.at \in {"stop", "disable"}
    BY <1>0, <1>20, Going DEF SkipUnit, Stop, StopIgnored, DisableAtBoot, Ignored, At, Running, Stage
  <2>2. script' = "done"
    BY <1>0, <1>20, <2>1 DEF SkipUnit, Stop, StopIgnored, DisableAtBoot, Ignored, hostVars
  <2>3. QED
    BY <2>1, <2>2 DEF Stages, Room, Running
<1>32. CASE Ignored /\ At("kick")
  BY <1>2, <1>32 DEF Ignored, At
<1>21. ASSUME NEW step \in {"rmunit", "rmcron"}, NEW f \in {"unit", "cron"},
              NEW next \in {"rmcron", "rmboot"}, Remove(step, f, next)
       PROVE  Stages' /\ Room'
  <2>1. job'.at = next /\ job'.op = job.op /\ Running /\ job.at = step
    BY <1>0, <1>21, Going DEF Remove, At, Running, Stage
  <2>2. script' = "done"
    BY <1>0, <1>21, <2>1 DEF Remove
  <2>3. QED
    BY <2>1, <2>2 DEF Stages, Room, Running
<1>22. CASE RemoveBoot
  <2>1. CASE job.op = "uninstall"
    <3>1. job'.at = "rmbinary" /\ job'.op = job.op /\ Running /\ job.at = "rmboot"
      BY <1>0, <1>22, <2>1, Going DEF RemoveBoot, At, Running, Stage
    <3>2. script' = "done"
      BY <1>0, <1>22, <3>1 DEF RemoveBoot
    <3>3. QED
      BY <2>1, <3>1, <3>2 DEF Stages, Room, Running
  <2>2. CASE job.op # "uninstall"
    BY <1>2, <1>22, <2>2 DEF RemoveBoot
  <2>3. QED
    BY <2>1, <2>2
<1>23. CASE Script
  <2>1. job' = job /\ secret' = secret /\ script # "done"
    BY <1>23 DEF Script, ScriptStep, ScriptAborts, Command, NoUnit, StopUnit, StopUnitFails, DisableUnit,
       Unheeded, RemoveUnit, OpenCron, WriteCron, RemoveCron, OpenUnit, WriteUnit, EnableUnit,
       StartUnit, settings
  <2>2. QED
    BY <1>3, <2>1
<1>24. CASE Systemd
  <2>1. job' = job /\ secret' = secret /\ script' = script
    BY <1>24 DEF Systemd, Revive, ServiceDies, settings
  <2>2. QED
    BY <1>3, <2>1
<1>25. ASSUME RollBack, Running, job.op = "install", script' = "done"
       PROVE  Stages' /\ Room'
  <2>1. job'.at = "restore" /\ job'.op = job.op
    BY <1>0, <1>25, Going DEF RollBack, Stage
  <2>2. QED
    BY <1>25, <2>1 DEF Stages, Room, Running
<1>26. CASE ApplyFails
  <2>1. Running /\ script = "done"
    BY <1>0, <1>26 DEF ApplyFails, At, Running
  <2>2. CASE job.op = "install"
    BY <1>25, <1>26, <2>1, <2>2 DEF ApplyFails, RollBack
  <2>3. CASE job.op # "install"
    BY <1>2, <1>26, <2>3 DEF ApplyFails
  <2>4. QED
    BY <2>2, <2>3
<1>27. CASE SmokeFails
  <2>1. Running /\ script = "done" /\ job.op = "install" /\ RollBack
    BY <1>27 DEF SmokeFails, At, Running, Stages
  <2>2. QED
    BY <1>25, <2>1 DEF RollBack
<1>28. CASE UNCHANGED vars
  BY <1>3, <1>28 DEF vars, hostVars
<1>29. CASE Step
  BY <1>10, <1>11, <1>12, <1>13, <1>14, <1>15, <1>16, <1>17, <1>18, <1>19, <1>20, <1>21, <1>22,
     <1>29, <1>32 DEF Step, Ignored
<1>30. CASE Operator
  BY <1>4, <1>5, <1>6, <1>7, <1>8, <1>9, <1>30 DEF Operator
<1>31. QED
  BY <1>19, <1>23, <1>24, <1>26, <1>27, <1>28, <1>29, <1>30 DEF Next

(***************************************************************************)
(* What is up and what is settled                                          *)
(***************************************************************************)

\* A command that changes what a boot script has set up takes the host out of
\* its settled state before it does.
LEMMA UnsettledStep ==
  ASSUME TypeOK, Stages, Unsettled, [Next]_vars
  PROVE  Unsettled'
<1>0. /\ Running => job \in Jobs
      /\ Running /\ job.at # "smoke" => script = "done"
      /\ live \in Tree /\ AnyVersion \in Versions
  BY VersionsAssumption DEF TypeOK, HostTypeOK, AnyVersion, Stages, Running
<1>1. ASSUME settled' = FALSE \/ job' = Idle
      PROVE  Unsettled'
  BY <1>1 DEF Unsettled, Running
<1>2. ASSUME NEW s \in {"save", "place", "create", "copy", "config", "secret", "open", "run", "smoke"},
             job'.at = s
      PROVE  Unsettled'
  BY <1>2 DEF Unsettled
<1>3. ASSUME Running, settled' = settled,
             job.at \in {"write", "restore", "kick", "stop", "disable",
                         "rmunit", "rmcron", "rmboot", "rmbinary"}
      PROVE  Unsettled'
  BY <1>3 DEF Unsettled
<1>4. ASSUME NEW v \in Versions, NEW m \in Modes \cup {"none"}, NEW force \in BOOLEAN,
             NEW answer \in Modes, Install(v, m, force, answer)
      PROVE  Unsettled'
  BY <1>0, <1>2, <1>4, ModeTypes, Beginning DEF Install, Stage
<1>5. ASSUME NEW m \in Modes, SetMode(m)
      PROVE  Unsettled'
  BY <1>0, <1>2, <1>5, Beginning DEF SetMode, Stage
<1>6. CASE Save
  BY <1>0, <1>2, <1>6, Filing DEF Save, OnFile, At, Running, Stage
<1>7. CASE Place \/ Create \/ Copy \/ InitSecret \/ RunBoot
  BY <1>0, <1>2, <1>7, Going DEF Place, Create, Copy, InitSecret, RunBoot, At, Running, Stage
<1>8. CASE CreateConfig
  <2>1. Goto("secret") \/ Goto("open") \/ Goto("smoke")
    <3>1. CASE job.mode = "serve"
      BY <1>8, <3>1 DEF CreateConfig
    <3>2. CASE job.mode = "cron"
      BY <1>8, <3>2 DEF CreateConfig
    <3>3. CASE job.mode # "serve" /\ job.mode # "cron"
      BY <1>8, <3>3 DEF CreateConfig
    <3>4. QED
      BY <3>1, <3>2, <3>3
  <2>2. QED
    BY <1>0, <1>2, <1>8, <2>1, Going DEF CreateConfig, At, Running, Stage
<1>9. CASE Rollback \/ \E op \in {"disable", "uninstall"} : Disable(op)
  BY <1>1, <1>9 DEF Rollback, Disable
<1>10. CASE OpenBoot \/ SmokeFails \/ Killed
  BY <1>1, <1>10 DEF OpenBoot, SmokeFails, RollBack, Killed
<1>11. CASE Smoke \/ Kick \/ RemoveBinary \/ Reboot \/ FirmwareUpgrade \/ RunScript \/ RotateSecret
  BY <1>1, <1>11 DEF Smoke, Kick, RemoveBinary, Reboot, FirmwareUpgrade, Interrupted, RunScript,
     RotateSecret, AtRest
<1>12. CASE WriteBoot \/ Restore \/ SkipUnit \/ Stop \/ StopIgnored \/ DisableAtBoot \/ Ignored
  BY <1>3, <1>12 DEF WriteBoot, Restore, OnFile, SkipUnit, Stop, StopIgnored, DisableAtBoot, Ignored,
     At, Running, hostVars
<1>13. ASSUME NEW step \in {"rmunit", "rmcron"}, NEW f \in {"unit", "cron"},
              NEW next \in {"rmcron", "rmboot"}, Remove(step, f, next)
       PROVE  Unsettled'
  BY <1>3, <1>13 DEF Remove, At, Running
<1>14. CASE RemoveBoot
  <2>1. CASE job.op = "uninstall"
    BY <1>3, <1>14, <2>1 DEF RemoveBoot, At, Running
  <2>2. CASE job.op # "uninstall"
    BY <1>1, <1>14, <2>2 DEF RemoveBoot
  <2>3. QED
    BY <2>1, <2>2
<1>15. CASE ApplyFails
  BY <1>1, <1>15 DEF ApplyFails, RollBack
<1>16. ASSUME job' = job, settled' = settled \/ script # "done"
       PROVE  Unsettled'
  BY <1>0, <1>16 DEF Unsettled, Running
<1>17. CASE Script
  <2>1. job' = job /\ script # "done"
    BY <1>17 DEF Script, ScriptStep, ScriptAborts, Command, NoUnit, StopUnit, StopUnitFails, DisableUnit,
       Unheeded, RemoveUnit, OpenCron, WriteCron, RemoveCron, OpenUnit, WriteUnit, EnableUnit, StartUnit
  <2>2. QED
    BY <1>16, <2>1
<1>18. CASE Systemd \/ UNCHANGED vars
  BY <1>16, <1>18 DEF Systemd, Revive, ServiceDies, vars, hostVars
<1>19. CASE Step
  BY <1>6, <1>7, <1>8, <1>10, <1>11, <1>12, <1>13, <1>14, <1>19 DEF Step
<1>20. CASE Operator
  BY <1>4, <1>5, <1>9, <1>11, <1>20 DEF Operator
<1>21. QED
  BY <1>10, <1>11, <1>15, <1>17, <1>18, <1>19, <1>20 DEF Next

Host == UnitLast /\ NoOrphanService /\ Progress

Removing == {"disable", "rmunit", "rmcron", "rmboot", "rmbinary"}

\* A step that leaves script and service alone, no unit file missing that was
\* there, and either nothing settled or all that was.
LEMMA Quiet ==
  ASSUME Host, script' = script, UNCHANGED systemd,
         live["unit"] # "none" => live'["unit"] # "none",
         script = "done" \/ live' = live,
         \/ ~settled'
         \/ /\ settled' = settled /\ secret' = secret
            /\ \A f \in {"boot", "cron", "unit"} : live'[f] = live[f],
         \/ job' = Idle
         \/ job'.at \notin Removing
         \/ job' = job /\ live' = live
  PROVE  Host'
<1> USE DEF systemd, Stopped
<1>1. UnitLast'
  BY DEF Host, UnitLast, At, Removing
<1>2. NoOrphanService'
  BY DEF Host, NoOrphanService, UnitThere
<1>3. settled' /\ script' = "done" => Fitting'
  BY DEF Host, Progress, Fitting
<1>4. Progress'
  <2>1. job' = Idle \/ job'.at \notin Removing =>
          ~At("rmcron")' /\ ~At("rmboot")' /\ ~At("rmbinary")'
    BY DEF At, Removing
  <2>2. CASE script = "done" /\ (job' = Idle \/ job'.at \notin Removing)
    BY <1>3, <2>1, <2>2 DEF Progress
  <2>3. CASE live' = live
    BY <1>3, <2>1, <2>3 DEF Host, Progress, CronSide, At
  <2>4. QED
    BY <2>2, <2>3
<1>5. QED
  BY <1>1, <1>2, <1>4 DEF Host

\* A boot script that starts.
LEMMA Starting ==
  ASSUME Host, script = "done", script' = FirstCommand, UNCHANGED <<live, systemd, secret, settled>>,
         job' = Idle \/ job'.at \notin Removing
  PROVE  Host'
<1>1. /\ script' \in {"done", "stop", "rmcron"}
      /\ script' = "stop" => live["boot"] = "cron"
      /\ script' = "rmcron" => live["boot"] = "serve"
  <2>1. live["boot"] = "cron" => script' = "stop"
    BY DEF FirstCommand
  <2>2. live["boot"] = "serve" => script' = "rmcron"
    BY DEF FirstCommand
  <2>3. live["boot"] # "cron" /\ live["boot"] # "serve" => script' = "done"
    BY DEF FirstCommand
  <2>4. QED
    BY <2>1, <2>2, <2>3
<1>2. UnitLast' /\ NoOrphanService'
  BY <1>1 DEF Host, UnitLast, NoOrphanService, UnitThere, Stopped, At, Removing, systemd
<1>3. settled' => Fitting'
  BY DEF Host, Progress, Fitting, Stopped, systemd
<1>4. ~At("rmcron")' /\ ~At("rmboot")' /\ ~At("rmbinary")'
  BY DEF At, Removing
<1>5. Progress'
  BY <1>1, <1>3, <1>4 DEF Progress
<1>6. QED
  BY <1>2, <1>5 DEF Host

\* The commands of the boot script.
LEMMA ScriptHost ==
  ASSUME TypeOK, Stages, Host, ScriptMoves, job' = job
  PROVE  Host'
<1>0. /\ script # "done" => \A s \in Removing : ~At(s)
      /\ \A s \in Removing : At(s)' <=> At(s)
      /\ DOMAIN live = Files
  BY DEF Stages, At, Running, Removing, TypeOK, HostTypeOK, Tree
<1> USE DEF Command, settings, systemd, Stopped, CronSide, Files, UnitThere, Removing
<1>1. CASE NoUnit
  <2>1. /\ script = "stop" /\ live["boot"] = "cron" /\ live' = live /\ script' = "opencron"
        /\ live["unit"] = "none" /\ UNCHANGED systemd
    BY <1>1 DEF NoUnit, Host, Progress
  <2>2. Stopped
    BY <2>1 DEF Host, NoOrphanService
  <2>3. QED
    BY <1>0, <2>1, <2>2 DEF Host, UnitLast, NoOrphanService, Progress
<1>11. CASE StopUnit \/ StopUnitFails
  <2>1. /\ script = "stop" /\ live["boot"] = "cron" /\ live' = live /\ script' = "disable"
        /\ live["unit"] # "none"
    BY <1>11 DEF StopUnit, StopUnitFails, Host, Progress
  <2>2. Stopped'
    BY <1>11 DEF StopUnit, StopUnitFails, StopService, StopFails
  <2>3. QED
    BY <1>0, <2>1, <2>2 DEF Host, UnitLast, NoOrphanService, Progress
<1>12. CASE DisableUnit \/ (Unheeded /\ script = "disable")
  <2>1. /\ script = "disable" /\ live["boot"] = "cron" /\ live' = live /\ script' = "rmunit"
        /\ active' = active /\ service' = service /\ unstopped' = unstopped
    BY <1>12 DEF DisableUnit, DisableService, Unheeded, Host, Progress
  <2>2. Stopped'
    BY <2>1 DEF Host, UnitLast
  <2>3. QED
    BY <1>0, <2>1, <2>2 DEF Host, UnitLast, NoOrphanService, Progress
<1>2. CASE RemoveUnit
  <2>1. /\ script = "rmunit" /\ script' = "opencron" /\ Stopped'
        /\ live'["unit"] = "none" /\ live'["boot"] = "cron"
    BY <1>0, <1>2 DEF RemoveUnit, Host, UnitLast, Progress
  <2>2. QED
    BY <1>0, <2>1 DEF Host, UnitLast, NoOrphanService, Progress
<1>3. CASE OpenCron
  <2>1. /\ script = "opencron" /\ script' = "writecron" /\ Stopped'
        /\ live'["unit"] = "none" /\ live'["boot"] = "cron"
    BY <1>0, <1>3 DEF OpenCron, Host, Progress
  <2>2. QED
    BY <1>0, <2>1 DEF Host, UnitLast, NoOrphanService, Progress
<1>4. CASE WriteCron
  <2>1. /\ script = "writecron" /\ script' = "done" /\ Stopped'
        /\ live'["unit"] = "none" /\ live'["boot"] = "cron" /\ live'["cron"] = "on"
    BY <1>0, <1>4 DEF WriteCron, Host, Progress
  <2>3. Fitting'
    BY <2>1 DEF Fitting
  <2>4. QED
    BY <1>0, <2>1, <2>3 DEF Host, UnitLast, NoOrphanService, Progress
<1>5. CASE RemoveCron
  <2>1. /\ script = "rmcron" /\ script' = "openunit" /\ UNCHANGED systemd
        /\ live'["unit"] = live["unit"] /\ live'["boot"] = "serve" /\ live'["cron"] = "none"
    BY <1>0, <1>5 DEF RemoveCron, Host, Progress
  <2>2. QED
    BY <1>0, <2>1 DEF Host, UnitLast, NoOrphanService, Progress
<1>6. CASE OpenUnit
  <2>1. /\ script = "openunit" /\ script' = "writeunit"
        /\ live'["unit"] = "torn" /\ live'["boot"] = "serve" /\ live'["cron"] = "none"
    BY <1>0, <1>6 DEF OpenUnit, Host, Progress
  <2>2. QED
    BY <1>0, <2>1 DEF Host, UnitLast, NoOrphanService, Progress
<1>7. CASE WriteUnit
  <2>1. /\ script = "writeunit" /\ script' = "enable"
        /\ live'["unit"] = "on" /\ live'["boot"] = "serve" /\ live'["cron"] = "none"
    BY <1>0, <1>7 DEF WriteUnit, Host, Progress
  <2>2. QED
    BY <1>0, <2>1 DEF Host, UnitLast, NoOrphanService, Progress
<1>8. CASE EnableUnit \/ (Unheeded /\ script = "enable")
  <2>1. /\ script = "enable" /\ script' = "start"
        /\ live'["unit"] = "on" /\ live'["boot"] = "serve" /\ live'["cron"] = "none"
    BY <1>0, <1>8 DEF EnableUnit, Unheeded, Host, Progress
  <2>2. QED
    BY <1>0, <2>1 DEF Host, UnitLast, NoOrphanService, Progress
<1>9. CASE StartUnit
  <2>1. /\ script = "start" /\ script' = "done"
        /\ live'["unit"] = "on" /\ live'["boot"] = "serve" /\ live'["cron"] = "none"
    BY <1>0, <1>9 DEF StartUnit, Host, Progress
  <2>2. active' = TRUE /\ service' \in {0, secret'}
    BY <1>9 DEF StartUnit, RestartService
  <2>3. Fitting'
    BY <2>1, <2>2 DEF Fitting
  <2>4. QED
    BY <1>0, <2>1, <2>3 DEF Host, UnitLast, NoOrphanService, Progress
<1>10. QED
  BY <1>1, <1>2, <1>3, <1>4, <1>5, <1>6, <1>7, <1>8, <1>9, <1>11, <1>12
     DEF ScriptMoves, ScriptStep, Unheeded

\* Every step keeps what a boot script and a removal have set up.
LEMMA HostStep ==
  ASSUME TypeOK, Stages, Unsettled, Unsettled', Host, [Next]_vars
  PROVE  Host'
<1>0. /\ Running => job \in Jobs
      /\ Running /\ job.at # "smoke" => script = "done"
      /\ live \in Tree /\ prev \in Tree /\ DOMAIN live = Files /\ AnyVersion \in Versions
      /\ active \in BOOLEAN /\ enabled \in BOOLEAN
  BY VersionsAssumption DEF TypeOK, HostTypeOK, AnyVersion, Stages, Running, Tree
<1> USE DEF systemd, settings
<1>1. ASSUME NEW s \in Stage \ Removing, Running, Goto(s)
      PROVE  job'.at \notin Removing
  BY <1>0, <1>1, Going
<1>2. ASSUME NEW s \in Stage \ Removing, NEW m \in Modes \cup {"disabled"}, NEW v \in Versions,
             NEW op \in {"install", "rollback", "disable", "uninstall", "setmode"}, Begin(op, s, m, v)
      PROVE  job'.at \notin Removing
  BY <1>0, <1>2, Beginning
<1>3. ASSUME NEW v \in Versions, NEW m \in Modes \cup {"none"}, NEW force \in BOOLEAN,
             NEW answer \in Modes, Install(v, m, force, answer)
      PROVE  Host'
  <2>1. job'.at \notin Removing
    BY <1>2, <1>3, ModeTypes DEF Install, Stage, Removing
  <2>2. QED
    BY <1>3, <2>1, Quiet DEF Install, hostVars
<1>4. CASE Rollback
  <2>1. job'.at \notin Removing
    BY <1>0, <1>2, <1>4 DEF Rollback, Stage, Removing
  <2>2. QED
    BY <1>4, <2>1, Quiet DEF Rollback
<1>5. ASSUME NEW op \in {"disable", "uninstall"}, Disable(op)
      PROVE  Host'
  <2>1. job'.at \notin Removing
    BY <1>0, <1>2, <1>5 DEF Disable, Stage, Removing
  <2>2. QED
    BY <1>5, <2>1, Quiet DEF Disable
<1>6. ASSUME NEW m \in Modes, SetMode(m)
      PROVE  Host'
  <2>1. job'.at \notin Removing
    BY <1>0, <1>2, <1>6 DEF SetMode, Stage, Removing
  <2>2. QED
    BY <1>6, <2>1, Quiet DEF SetMode, hostVars
<1>7. CASE RunScript
  BY <1>7, Starting DEF RunScript, AtRest
<1>8. CASE RotateSecret
  BY <1>8, Quiet DEF RotateSecret
<1>9. CASE Save
  <2>1. job'.at \in {"save", "place"}
    BY <1>0, <1>9, Filing DEF Save, OnFile, At, Running, Stage
  <2>2. QED
    BY <1>9, <2>1, Quiet DEF Save, hostVars, Removing
<1>10. CASE Restore
  <2>1. job'.at \in {"restore", "kick"} /\ job' # Idle
    BY <1>0, <1>10, Filing DEF Restore, OnFile, At, Running, Stage
  <2>2. ~settled' /\ script = "done" /\ script' = script
    BY <1>0, <1>10, <2>1 DEF Restore, OnFile, At, Unsettled, Running
  <2>3. live["unit"] # "none" => live'["unit"] # "none"
    BY <1>0, <1>10 DEF Restore, Files
  <2>4. QED
    BY <1>10, <2>1, <2>2, <2>3, Quiet DEF Restore, Removing
<1>11. ASSUME Running, job.at # "smoke", script' = script, UNCHANGED <<systemd, secret, settled>>,
              NEW v, live' = [live EXCEPT !["binary"] = v], job'.at \notin Removing
       PROVE  Host'
  BY <1>0, <1>11, Quiet DEF Files
<1>12. CASE Place \/ Create
  BY <1>1, <1>11, <1>12 DEF Place, Create, At, Running, Stage, Removing
<1>13. CASE Copy
  BY <1>1, <1>11, <1>13 DEF Copy, At, Running, Stage, Removing
<1>14. CASE CreateConfig
  <2>1. Goto("secret") \/ Goto("open") \/ Goto("smoke")
    <3>1. CASE job.mode = "serve"
      BY <1>14, <3>1 DEF CreateConfig
    <3>2. CASE job.mode = "cron"
      BY <1>14, <3>2 DEF CreateConfig
    <3>3. CASE job.mode # "serve" /\ job.mode # "cron"
      BY <1>14, <3>3 DEF CreateConfig
    <3>4. QED
      BY <3>1, <3>2, <3>3
  <2>2. job'.at \notin Removing
    BY <1>1, <1>14, <2>1 DEF CreateConfig, At, Running, Stage, Removing
  <2>3. QED
    BY <1>14, <2>2, Quiet DEF CreateConfig
<1>15. CASE InitSecret
  <2>1. job'.at \notin Removing
    BY <1>1, <1>15 DEF InitSecret, At, Running, Stage, Removing
  <2>2. QED
    BY <1>15, <2>1, Quiet DEF InitSecret
<1>16. CASE OpenBoot
  <2>1. job'.at \notin Removing
    BY <1>1, <1>16 DEF OpenBoot, At, Running, Stage, Removing
  <2>2. script = "done" /\ live'["unit"] = live["unit"]
    BY <1>0, <1>16 DEF OpenBoot, At, Running, Files
  <2>3. QED
    BY <1>16, <2>1, <2>2, Quiet DEF OpenBoot
<1>17. CASE WriteBoot
  <2>1. job' = Idle \/ job'.at \notin Removing
    BY <1>1, <1>17 DEF WriteBoot, At, Running, Stage, Removing
  <2>2. script = "done" /\ ~settled' /\ live'["unit"] = live["unit"]
    BY <1>0, <1>17 DEF WriteBoot, At, Running, Files, Unsettled
  <2>3. QED
    BY <1>17, <2>1, <2>2, Quiet DEF WriteBoot
<1>18. CASE RunBoot
  <2>1. job'.at \notin Removing
    BY <1>1, <1>18 DEF RunBoot, At, Running, Stage, Removing
  <2>2. script = "done"
    BY <1>0, <1>18 DEF RunBoot, At, Running
  <2>3. QED
    BY <1>18, <2>1, <2>2, Starting DEF RunBoot
<1>19. CASE Smoke
  BY <1>19, Quiet DEF Smoke, hostVars
<1>20. CASE ApplyFails
  <2>1. CASE job.op = "install"
    <3>1. job'.at \notin Removing
      BY <1>1, <1>20, <2>1 DEF ApplyFails, RollBack, At, Running, Stage, Removing
    <3>2. QED
      BY <1>20, <2>1, <3>1, Quiet DEF ApplyFails, RollBack
  <2>2. CASE job.op # "install"
    BY <1>20, <2>2, Quiet DEF ApplyFails, hostVars
  <2>3. QED
    BY <2>1, <2>2
<1>21. CASE SmokeFails
  <2>1. job'.at \notin Removing
    BY <1>1, <1>21 DEF SmokeFails, RollBack, At, Running, Stage, Removing
  <2>2. QED
    BY <1>21, <2>1, Quiet DEF SmokeFails, RollBack
<1>22. ASSUME job' = Idle, ~settled', script' = "done", live'["unit"] = "none" => Stopped'
       PROVE  Host'
  BY <1>22 DEF Host, UnitLast, NoOrphanService, UnitThere, Stopped, Progress, At
<1>23. CASE Kick
  <2>1. ~settled' /\ script' = "done" /\ job' = Idle /\ live' = live
    BY <1>0, <1>23 DEF Kick, At, Running, Unsettled
  <2>2. CASE live["unit"] = "on"
    BY <1>22, <2>1, <2>2
  <2>3. CASE live["unit"] # "on"
    <3>1. UNCHANGED systemd
      BY <1>23, <2>3 DEF Kick
    <3>2. QED
      BY <1>22, <2>1, <3>1 DEF Host, NoOrphanService, UnitThere, Stopped
  <2>4. QED
    BY <2>2, <2>3
<1>24. CASE Stop \/ StopIgnored \/ DisableAtBoot \/ (Ignored /\ At("disable"))
  <2>1. /\ job'.at \in {"disable", "rmunit"} /\ script' = "done" /\ live' = live /\ ~settled'
    BY <1>0, <1>24, Going DEF Stop, StopIgnored, DisableAtBoot, Ignored, hostVars, At, Running, Stage,
       Unsettled
  <2>2. Stopped'
    <3>1. CASE Stop \/ StopIgnored
      BY <3>1 DEF Stop, StopIgnored, StopService, StopFails, Stopped
    <3>2. CASE DisableAtBoot \/ (Ignored /\ At("disable"))
      BY <3>2 DEF DisableAtBoot, DisableService, Ignored, hostVars, Host, UnitLast, Stopped
    <3>3. QED
      BY <1>24, <3>1, <3>2
  <2>3. NoOrphanService'
    BY <2>2 DEF NoOrphanService, Stopped
  <2>4. QED
    BY <2>1, <2>2, <2>3 DEF Host, UnitLast, Progress, At
<1>39. CASE Ignored /\ At("kick")
  <2>1. ~settled' /\ script' = "done" /\ job' = Idle /\ live' = live /\ live["unit"] = "on"
    BY <1>0, <1>39 DEF Ignored, hostVars, At, Running, Unsettled
  <2>2. QED
    BY <1>22, <2>1
<1>40. CASE SkipUnit
  <2>1. /\ job'.at = "rmcron" /\ script' = "done" /\ live' = live /\ ~settled'
        /\ live["unit"] = "none" /\ UNCHANGED systemd
    BY <1>0, <1>40, Going DEF SkipUnit, UnitThere, hostVars, At, Running, Stage, Unsettled
  <2>2. Stopped'
    BY <2>1 DEF Host, NoOrphanService, UnitThere, Stopped
  <2>3. NoOrphanService'
    BY <2>2 DEF NoOrphanService, Stopped
  <2>4. QED
    BY <2>1, <2>2, <2>3 DEF Host, UnitLast, Progress, CronSide, At
<1>25. CASE Remove("rmunit", "unit", "rmcron")
  <2>1. job'.at = "rmcron" /\ script' = "done" /\ ~settled' /\ live'["unit"] = "none"
    BY <1>0, <1>25, Going DEF Remove, At, Running, Stage, Unsettled, Files
  <2>2. Stopped'
    BY <1>25 DEF Remove, Host, UnitLast, Stopped
  <2>3. NoOrphanService'
    BY <2>2 DEF NoOrphanService, Stopped
  <2>4. QED
    BY <2>1, <2>2, <2>3 DEF Host, UnitLast, Progress, At, CronSide
<1>26. CASE Remove("rmcron", "cron", "rmboot")
  <2>1. job'.at = "rmboot" /\ script' = "done" /\ ~settled'
    BY <1>0, <1>26, Going DEF Remove, At, Running, Stage, Unsettled
  <2>2. Stopped' /\ live'["unit"] = "none" /\ live'["cron"] = "none"
    BY <1>0, <1>26 DEF Remove, Host, Progress, CronSide, Stopped, Files
  <2>3. NoOrphanService'
    BY <2>2 DEF NoOrphanService, Stopped
  <2>4. QED
    BY <2>1, <2>2, <2>3 DEF Host, UnitLast, Progress, At, CronSide
<1>27. CASE RemoveBoot
  <2>1. /\ script' = "done" /\ Stopped'
        /\ live'["unit"] = "none" /\ live'["cron"] = "none" /\ live'["boot"] = "none"
    BY <1>0, <1>27 DEF RemoveBoot, At, Running, Host, Progress, CronSide, Stopped, Files
  <2>2. job' = Idle \/ job'.at = "rmbinary"
    BY <1>0, <1>27, Going DEF RemoveBoot, At, Running, Stage
  <2>3. Fitting' /\ NoOrphanService'
    BY <2>1 DEF Fitting, NoOrphanService, Stopped
  <2>4. QED
    BY <2>1, <2>2, <2>3 DEF Host, UnitLast, Progress, At, CronSide
<1>28. CASE RemoveBinary
  <2>1. /\ script' = "done" /\ Stopped' /\ job' = Idle
        /\ live'["unit"] = "none" /\ live'["cron"] = "none" /\ live'["boot"] = "none"
    BY <1>0, <1>28 DEF RemoveBinary, At, Running, Host, Progress, CronSide, Stopped, Files
  <2>2. Fitting' /\ NoOrphanService'
    BY <2>1 DEF Fitting, NoOrphanService, Stopped
  <2>3. QED
    BY <2>1, <2>2 DEF Host, UnitLast, Progress, At
<1>29. CASE Killed
  BY <1>22, <1>29 DEF Killed, Host, NoOrphanService, UnitThere, Stopped
<1>30. ASSUME NEW t \in Tree, NEW on \in BOOLEAN, BootWith(t, on), Interrupted,
              t["boot"] = live["boot"], t["cron"] \in {"none", live["cron"]},
              t["unit"] \in {"none", live["unit"]}
       PROVE  Host'
  <2>1. live' = t /\ service' = 0 /\ job' = Idle /\ active' = (on /\ t["unit"] = "on")
    BY <1>30 DEF BootWith, Interrupted
  <2>2. \/ live["boot"] = "cron" /\ script' = "stop"
        \/ live["boot"] = "serve" /\ script' = "rmcron"
        \/ live["boot"] # "cron" /\ live["boot"] # "serve" /\ script' = "done"
    BY <1>30 DEF BootWith, FirstCommand
  <2>3. settled' => AtRest /\ settled
    BY <1>30 DEF Interrupted
  <2>4. settled' /\ script' = "done" => Fitting'
    <3> SUFFICES ASSUME settled', script' = "done"
                 PROVE  Fitting'
      OBVIOUS
    <3>1. live["boot"] # "cron" /\ live["boot"] # "serve"
      BY <2>2
    <3>2. live["cron"] = "none" /\ live["unit"] = "none"
      BY <2>3, <3>1 DEF Host, Progress, Fitting, AtRest
    <3>3. live'["boot"] = live["boot"] /\ live'["cron"] = "none" /\ live'["unit"] = "none"
      BY <1>30, <2>1, <3>2
    <3>4. active' = FALSE
      BY <2>1, <3>3
    <3>5. QED
      BY <2>1, <3>1, <3>3, <3>4 DEF Fitting, Stopped
  <2>5. Progress'
    BY <1>30, <2>1, <2>2, <2>4 DEF Progress, At
  <2>6. NoOrphanService'
    BY <2>1 DEF NoOrphanService, UnitThere
  <2>7. UnitLast'
    BY <2>1, <2>2 DEF UnitLast, At
  <2>8. QED
    BY <2>5, <2>6, <2>7 DEF Host
<1>31. CASE Reboot
  BY <1>0, <1>30, <1>31 DEF Reboot
<1>32. CASE FirmwareUpgrade
  <2>1. /\ Wiped(live)["boot"] = live["boot"] /\ Wiped(live)["cron"] = "none"
        /\ Wiped(live)["unit"] = "none"
    BY <1>0 DEF Wiped, Files
  <2>2. Wiped(live) \in Tree
    BY <1>0, WipedTrees
  <2>3. QED
    BY <1>30, <1>32, <2>1, <2>2 DEF FirmwareUpgrade
<1>33. CASE Script
  <2>1. CASE ScriptStep /\ job' = job
    BY <2>1, ScriptHost DEF ScriptMoves
  <2>2. CASE (StopUnitFails \/ Unheeded) /\ job' = job
    BY <2>2, ScriptHost DEF ScriptMoves
  <2>3. CASE ScriptAborts /\ job' = job
    <3>1. /\ ~At("disable") /\ ~At("rmunit") /\ ~At("rmcron") /\ ~At("rmboot") /\ ~At("rmbinary")
          /\ \A s \in Removing : At(s)' <=> At(s)
      BY <1>0, <2>3 DEF ScriptAborts, At, Running
    <3>2. QED
      BY <2>3, <3>1 DEF ScriptAborts, Removing, Host, UnitLast, NoOrphanService, UnitThere, Stopped,
         Progress
  <2>4. QED
    BY <1>33, <2>1, <2>2, <2>3 DEF Script
<1>34. CASE Systemd
  <2>1. /\ UNCHANGED <<live, secret, active, enabled, unstopped, script, settled, job>>
        /\ \/ service # 0 /\ service' = 0
           \/ active /\ service' = secret
    BY <1>34 DEF Systemd, Revive, ServiceDies
  <2>2. UnitLast' /\ NoOrphanService'
    BY <2>1 DEF Host, UnitLast, NoOrphanService, UnitThere, Stopped, At
  <2>3. Fitting => Fitting'
    BY <2>1 DEF Fitting, Stopped
  <2>4. Progress'
    BY <2>1, <2>3 DEF Host, Progress, CronSide, Stopped, At
  <2>5. QED
    BY <2>2, <2>4 DEF Host
<1>35. CASE UNCHANGED vars
  BY <1>35, Quiet DEF vars, hostVars
<1>36. CASE Step
  BY <1>9, <1>10, <1>12, <1>13, <1>14, <1>15, <1>16, <1>17, <1>18, <1>19, <1>23, <1>24, <1>25,
     <1>26, <1>27, <1>28, <1>36, <1>39, <1>40 DEF Step, Ignored
<1>37. CASE Operator
  BY <1>3, <1>4, <1>5, <1>6, <1>7, <1>8, <1>37 DEF Operator
<1>38. QED
  BY <1>20, <1>21, <1>29, <1>31, <1>32, <1>33, <1>34, <1>35, <1>36, <1>37 DEF Next

(***************************************************************************)
(* Snapshots                                                               *)
(***************************************************************************)

\* The state files are the four files, each once.
LEMMA FourFiles ==
  /\ Files = {StateFiles[i] : i \in 1 .. 4}
  /\ \A i, k \in 1 .. 4 : StateFiles[i] = StateFiles[k] => i = k
  /\ \A f \in Files : f \in SavedFrom(1) /\ f \notin SavedTo(1)
  /\ \A i \in 1 .. 3 : SavedTo(i + 1) = SavedTo(i) \cup {StateFiles[i]}
  /\ \A i \in 1 .. 3 : SavedFrom(i + 1) \subseteq SavedFrom(i) \ {StateFiles[i]}
  /\ \A i \in 1 .. 4 : SavedTo(i) \subseteq Files /\ StateFiles[i] \in SavedFrom(i)
                       /\ SavedFrom(i) \subseteq Files /\ StateFiles[i] \notin SavedTo(i)
  /\ SavedTo(4) \cup {StateFiles[4]} = Files
<1>1. /\ StateFiles[1] = "binary" /\ StateFiles[2] = "boot"
      /\ StateFiles[3] = "cron" /\ StateFiles[4] = "unit"
  BY DEF StateFiles
<1>2. 1 .. 4 = {1, 2, 3, 4} /\ 1 .. 3 = {1, 2, 3}
  OBVIOUS
<1>3. \A i, k \in 1 .. 4 : StateFiles[i] = StateFiles[k] => i = k
  BY <1>1, <1>2
<1>4. Files = {StateFiles[i] : i \in 1 .. 4}
  BY <1>1, <1>2 DEF Files
<1>5. /\ SavedTo(1) = {} /\ SavedTo(2) = {"binary"} /\ SavedTo(3) = {"binary", "boot"}
      /\ SavedTo(4) = {"binary", "boot", "cron"}
  <2>1. 1 .. (1 - 1) = {} /\ 1 .. (2 - 1) = {1} /\ 1 .. (3 - 1) = {1, 2} /\ 1 .. (4 - 1) = {1, 2, 3}
    OBVIOUS
  <2>2. QED
    BY <1>1, <2>1 DEF SavedTo
<1>6. /\ SavedFrom(1) = {"binary", "boot", "cron", "unit"}
      /\ SavedFrom(2) = {"boot", "cron", "unit"}
      /\ SavedFrom(3) = {"cron", "unit"} /\ SavedFrom(4) = {"unit"}
  <2>1. 2 .. 4 = {2, 3, 4} /\ 3 .. 4 = {3, 4} /\ 4 .. 4 = {4}
    OBVIOUS
  <2>2. QED
    BY <1>1, <1>2, <2>1 DEF SavedFrom
<1>7. \A f \in Files : f \in SavedFrom(1) /\ f \notin SavedTo(1)
  BY <1>5, <1>6 DEF Files
<1>8. \A i \in 1 .. 3 : /\ SavedTo(i + 1) = SavedTo(i) \cup {StateFiles[i]}
                        /\ SavedFrom(i + 1) \subseteq SavedFrom(i) \ {StateFiles[i]}
  <2> SUFFICES ASSUME NEW i \in 1 .. 3
               PROVE  /\ SavedTo(i + 1) = SavedTo(i) \cup {StateFiles[i]}
                      /\ SavedFrom(i + 1) \subseteq SavedFrom(i) \ {StateFiles[i]}
    OBVIOUS
  <2>1. CASE i = 1
    BY <1>1, <1>5, <1>6, <2>1
  <2>2. CASE i = 2
    BY <1>1, <1>5, <1>6, <2>2
  <2>3. CASE i = 3
    BY <1>1, <1>5, <1>6, <2>3
  <2>4. QED
    BY <1>2, <2>1, <2>2, <2>3
<1>9. \A i \in 1 .. 4 : SavedTo(i) \subseteq Files /\ StateFiles[i] \in SavedFrom(i)
                        /\ SavedFrom(i) \subseteq Files /\ StateFiles[i] \notin SavedTo(i)
  BY <1>1, <1>2, <1>5, <1>6 DEF Files
<1>10. SavedTo(4) \cup {StateFiles[4]} = Files
  BY <1>1, <1>5 DEF Files
<1>11. QED
  BY <1>3, <1>4, <1>7, <1>8, <1>9, <1>10

Installing == {"place", "create", "copy", "config", "secret", "open", "write", "run", "smoke"}

\* An installation keeps a snapshot of every file it found until it has given
\* the file back.
LEMMA SnapshotsStep ==
  ASSUME TypeOK, Stages, Snapshots, [Next]_vars
  PROVE  Snapshots'
<1>0. /\ Running => job \in Jobs
      /\ Running /\ job.at # "smoke" => script = "done"
      /\ live \in Tree /\ prev \in Tree /\ DOMAIN live = Files /\ DOMAIN prev = Files
      /\ AnyVersion \in Versions
  BY VersionsAssumption DEF TypeOK, HostTypeOK, AnyVersion, Stages, Running, Tree
<1>1. ASSUME job' = Idle \/ job'.op # "install"
      PROVE  Snapshots'
  BY <1>1 DEF Snapshots, Running
<1>2. ASSUME Running, job.at \in Installing, job'.at \in Installing, job'.op = job.op, job'.n = job.n,
             job'.before = job.before, prev' = prev
      PROVE  Snapshots'
  BY <1>2 DEF Snapshots, Running, Before, Installing
<1>3. ASSUME NEW s \in Stage, Running, Goto(s)
      PROVE  /\ job'.at = s /\ job'.op = job.op /\ job'.n = job.n /\ job'.before = job.before
  BY <1>0, <1>3, Going
<1>4. ASSUME NEW v \in Versions, NEW m \in Modes \cup {"none"}, NEW force \in BOOLEAN,
             NEW answer \in Modes, Install(v, m, force, answer)
      PROVE  Snapshots'
  <2>1. job'.at = "save" /\ job'.n = 1 /\ job'.before = live
    BY <1>0, <1>4, ModeTypes, Beginning DEF Install, Stage
  <2>2. live' = live
    BY <1>4 DEF Install, hostVars
  <2>3. SavedTo(1) = {}
    BY DEF SavedTo
  <2>4. QED
    BY <2>1, <2>2, <2>3 DEF Snapshots, Before
<1>5. CASE Rollback
  <2>1. job'.op = "rollback"
    BY <1>0, <1>5, Beginning DEF Rollback, Stage
  <2>2. QED
    BY <1>1, <2>1
<1>6. ASSUME NEW op \in {"disable", "uninstall"}, Disable(op)
      PROVE  Snapshots'
  <2>1. Begin(op, "stop", "disabled", AnyVersion)
    BY <1>6 DEF Disable
  <2>2. job'.op = op
    BY <2>1 DEF Begin
  <2>3. QED
    BY <1>1, <2>2
<1>7. ASSUME NEW m \in Modes, SetMode(m)
      PROVE  Snapshots'
  <2>1. job'.op = "setmode"
    BY <1>0, <1>7, Beginning DEF SetMode, Stage
  <2>2. QED
    BY <1>1, <2>1
<1>8. CASE RunScript \/ RotateSecret
  BY <1>1, <1>8 DEF RunScript, RotateSecret, AtRest
<1>9. CASE Save
  <2> SUFFICES ASSUME job.op = "install"
               PROVE  Snapshots'
    BY <1>0, <1>1, <1>9, Filing DEF Save, OnFile, At, Running, Stage
  <2> DEFINE f == StateFiles[job.n]
  <2>1. /\ Running /\ job.at = "save" /\ job.n \in 1 .. 4
        /\ job'.op = job.op /\ job'.before = job.before /\ live' = live
        /\ prev' = [prev EXCEPT ![f] = IF live[f] # "none" THEN live[f] ELSE @]
    BY <1>0, <1>9 , Filing DEF Save, OnFile, At, Running, Stage, hostVars, Jobs
  <2>2. /\ live = job.before
        /\ \A g \in SavedTo(job.n) : Before(g) # "none" => prev[g] = Before(g)
    BY <2>1 DEF Snapshots
  <2>3. f \in Files
    BY <2>1, FourFiles
  <2> HIDE DEF f
  <2>4. prev'[f] = IF live[f] # "none" THEN live[f] ELSE prev[f]
    BY <1>0, <2>1, <2>3
  <2>5. \A g \in Files : g # f => prev'[g] = prev[g]
    BY <1>0, <2>1
  <2>6. \A g \in SavedTo(job.n) \cup {f} : job.before[g] # "none" => prev'[g] = job.before[g]
    <3>1. \A g \in SavedTo(job.n) : g \in Files /\ g # f
      BY <2>1, FourFiles DEF f
    <3>2. QED
      BY <2>2, <2>4, <2>5, <3>1 DEF Before
  <2>7. CASE job.n \in 1 .. 3 /\ job'.n = job.n + 1 /\ job'.at = job.at
    <3>1. SavedTo(job'.n) = SavedTo(job.n) \cup {f}
      BY <2>7, FourFiles DEF f
    <3>2. QED
      BY <2>1, <2>2, <2>6, <2>7, <3>1 DEF Snapshots, Before
  <2>8. CASE job.n = 4 /\ job'.n = 1 /\ job'.at = "place"
    <3>1. SavedTo(job.n) \cup {f} = Files
      BY <2>8, FourFiles DEF f
    <3>2. QED
      BY <2>1, <2>6, <2>8, <3>1 DEF Snapshots, Before
  <2>9. QED
    BY <1>0, <1>9, <2>1, <2>7, <2>8, Filing DEF Save, Stage
<1>10. CASE Restore
  <2> SUFFICES ASSUME job.op = "install"
               PROVE  Snapshots'
    BY <1>0, <1>1, <1>10, Filing DEF Restore, OnFile, At, Running, Stage
  <2> DEFINE f == StateFiles[job.n]
  <2>1. /\ Running /\ job.at = "restore" /\ job.n \in 1 .. 4
        /\ job'.op = job.op /\ job'.before = job.before
        /\ live' = [live EXCEPT ![f] = IF prev[f] # "none" THEN prev[f] ELSE @]
        /\ prev' = [prev EXCEPT ![f] = "none"]
    BY <1>0, <1>10, Filing DEF Restore, OnFile, At, Running, Stage, Jobs
  <2>2. /\ \A g \in SavedFrom(job.n) : Before(g) # "none" => prev[g] = Before(g)
        /\ \A g \in SavedTo(job.n) : Before(g) # "none" => live[g] = Before(g)
    BY <2>1 DEF Snapshots
  <2>3. f \in Files /\ f \in SavedFrom(job.n)
    BY <2>1, FourFiles
  <2> HIDE DEF f
  <2>4. live'[f] = IF prev[f] # "none" THEN prev[f] ELSE live[f]
    BY <1>0, <2>1, <2>3
  <2>5. \A g \in Files : g # f => live'[g] = live[g] /\ prev'[g] = prev[g]
    BY <1>0, <2>1
  <2>6. \A g \in SavedTo(job.n) \cup {f} : job.before[g] # "none" => live'[g] = job.before[g]
    <3>1. \A g \in SavedTo(job.n) : g \in Files /\ g # f
      BY <2>1, FourFiles DEF f
    <3>2. QED
      BY <2>2, <2>3, <2>4, <2>5, <3>1 DEF Before
  <2>7. CASE job.n \in 1 .. 3 /\ job'.n = job.n + 1 /\ job'.at = job.at
    <3>1. /\ SavedTo(job'.n) = SavedTo(job.n) \cup {f}
          /\ SavedFrom(job'.n) \subseteq SavedFrom(job.n) \ {f}
          /\ SavedFrom(job.n) \subseteq Files
      BY <2>1, <2>7, FourFiles DEF f
    <3>2. \A g \in SavedFrom(job'.n) : job.before[g] # "none" => prev'[g] = job.before[g]
      BY <2>2, <2>5, <3>1 DEF Before
    <3>3. QED
      BY <2>1, <2>6, <2>7, <3>1, <3>2 DEF Snapshots, Before
  <2>8. CASE job.n = 4 /\ job'.n = 1 /\ job'.at = "kick"
    <3>1. SavedTo(job.n) \cup {f} = Files
      BY <2>8, FourFiles DEF f
    <3>2. QED
      BY <2>1, <2>6, <2>8, <3>1 DEF Snapshots, Before
  <2>9. QED
    BY <1>0, <1>10, <2>1, <2>7, <2>8, Filing DEF Restore, Stage
<1>11. CASE Place \/ Create \/ Copy \/ InitSecret \/ OpenBoot \/ RunBoot
  <2>1. CASE Place \/ Create
    BY <1>2, <1>3, <2>1 DEF Place, Create, At, Running, Stage, Installing
  <2>2. CASE Copy
    BY <1>2, <1>3, <2>2 DEF Copy, At, Running, Stage, Installing
  <2>3. CASE InitSecret
    BY <1>2, <1>3, <2>3 DEF InitSecret, At, Running, Stage, Installing
  <2>4. CASE OpenBoot
    BY <1>2, <1>3, <2>4 DEF OpenBoot, At, Running, Stage, Installing
  <2>5. CASE RunBoot
    BY <1>2, <1>3, <2>5 DEF RunBoot, At, Running, Stage, Installing
  <2>6. QED
    BY <1>11, <2>1, <2>2, <2>3, <2>4, <2>5
<1>12. CASE CreateConfig
  <2>1. Goto("secret") \/ Goto("open") \/ Goto("smoke")
    <3>1. CASE job.mode = "serve"
      BY <1>12, <3>1 DEF CreateConfig
    <3>2. CASE job.mode = "cron"
      BY <1>12, <3>2 DEF CreateConfig
    <3>3. CASE job.mode # "serve" /\ job.mode # "cron"
      BY <1>12, <3>3 DEF CreateConfig
    <3>4. QED
      BY <3>1, <3>2, <3>3
  <2>2. QED
    BY <1>2, <1>3, <1>12, <2>1 DEF CreateConfig, At, Running, Stage, Installing
<1>13. CASE WriteBoot
  <2>1. CASE job.op = "install"
    BY <1>2, <1>3, <1>13, <2>1 DEF WriteBoot, At, Running, Stage, Installing
  <2>2. CASE job.op # "install"
    BY <1>1, <1>13, <2>2 DEF WriteBoot
  <2>3. QED
    BY <2>1, <2>2
<1>14. CASE Smoke \/ Kick \/ RemoveBinary \/ Killed \/ Reboot \/ FirmwareUpgrade
  BY <1>1, <1>14 DEF Smoke, Kick, RemoveBinary, Killed, Reboot, FirmwareUpgrade, Interrupted
<1>15. CASE SkipUnit \/ Stop \/ StopIgnored \/ DisableAtBoot \/ Ignored
  BY <1>1, <1>3, <1>15 DEF SkipUnit, Stop, StopIgnored, DisableAtBoot, Ignored, At, Running, Stage, Stages
<1>16. ASSUME NEW step \in {"rmunit", "rmcron"}, NEW f \in {"unit", "cron"},
              NEW next \in {"rmcron", "rmboot"}, Remove(step, f, next)
       PROVE  Snapshots'
  BY <1>1, <1>3, <1>16 DEF Remove, At, Running, Stage, Stages
<1>17. CASE RemoveBoot
  <2>1. CASE job.op = "uninstall"
    BY <1>1, <1>3, <1>17, <2>1 DEF RemoveBoot, At, Running, Stage
  <2>2. CASE job.op # "uninstall"
    BY <1>1, <1>17, <2>2 DEF RemoveBoot
  <2>3. QED
    BY <2>1, <2>2
<1>18. ASSUME RollBack, Running, job.at \in Installing
       PROVE  Snapshots'
  <2> SUFFICES ASSUME job.op = "install"
               PROVE  Snapshots'
    BY <1>1, <1>3, <1>18 DEF RollBack, Stage
  <2>1. /\ job'.at = "restore" /\ job'.n = job.n /\ job'.before = job.before
        /\ prev' = prev /\ live' = live
    BY <1>3, <1>18 DEF RollBack, Stage
  <2>2. job.n = 1 /\ \A g \in Files : Before(g) # "none" => prev[g] = Before(g)
    BY <1>18 DEF Snapshots, Installing
  <2>3. SavedTo(1) = {} /\ SavedFrom(1) \subseteq Files
    BY FourFiles DEF SavedTo
  <2>4. QED
    BY <2>1, <2>2, <2>3 DEF Snapshots, Before
<1>19. CASE ApplyFails
  <2>1. CASE job.op = "install"
    BY <1>18, <1>19, <2>1 DEF ApplyFails, At, Running, Installing
  <2>2. CASE job.op # "install"
    BY <1>1, <1>19, <2>2 DEF ApplyFails
  <2>3. QED
    BY <2>1, <2>2
<1>20. CASE SmokeFails
  BY <1>18, <1>20 DEF SmokeFails, At, Running, Installing
<1>21. ASSUME job' = job, prev' = prev, live' = live \/ ~Running \/ job.at = "smoke"
       PROVE  Snapshots'
  BY <1>21 DEF Snapshots, Running, Before
<1>22. CASE Script
  <2>1. job' = job /\ prev' = prev /\ script # "done"
    BY <1>22 DEF Script, ScriptStep, ScriptAborts, Command, NoUnit, StopUnit, StopUnitFails, DisableUnit,
       Unheeded, RemoveUnit, OpenCron, WriteCron, RemoveCron, OpenUnit, WriteUnit, EnableUnit, StartUnit
  <2>2. QED
    BY <1>0, <1>21, <2>1
<1>23. CASE Systemd \/ UNCHANGED vars
  BY <1>21, <1>23 DEF Systemd, Revive, ServiceDies, vars, hostVars
<1>24. CASE Step
  BY <1>9, <1>10, <1>11, <1>12, <1>13, <1>14, <1>15, <1>16, <1>17, <1>24 DEF Step
<1>25. CASE Operator
  BY <1>4, <1>5, <1>6, <1>7, <1>8, <1>25 DEF Operator
<1>26. QED
  BY <1>14, <1>19, <1>20, <1>22, <1>23, <1>24, <1>25 DEF Next

(***************************************************************************)
(* Retirement                                                              *)
(***************************************************************************)

\* Nothing that runs on a retired host brings the scheduler back.
LEMMA RetiredStep ==
  ASSUME TypeOK, Stages, Host, Retired, [Next]_vars
  PROVE  Retired'
<1>0. /\ Running => job \in Jobs
      /\ live \in Tree /\ DOMAIN live = Files /\ AnyVersion \in Versions
      /\ active \in BOOLEAN
  BY VersionsAssumption DEF TypeOK, HostTypeOK, AnyVersion, Running, Tree
<1> USE DEF systemd, settings
<1>1. \A s \in Stage : Running /\ Goto(s) =>
        /\ job' # Idle /\ job'.at = s /\ job'.op = job.op /\ job'.mode = job.mode
  BY <1>0, Going
<1>2. ASSUME retired' # "yes"
      PROVE  Retired'
  BY <1>2 DEF Retired
<1> DEFINE Kept == NoScheduler /\ Stopped /\ script = "done"
<1>3. retired = "yes" => Kept
  BY DEF Retired
<1>4. ASSUME retired' = "yes" => retired = "yes" /\ live["binary"] # "none",
             live' = live, script' = script, UNCHANGED <<active, service, unstopped>>,
             \/ job' = Idle
             \/ job'.op \in {"disable", "uninstall"}
      PROVE  Retired'
  BY <1>3, <1>4 DEF Retired, NoScheduler, Stopped, Running
<1>33. ASSUME UNCHANGED <<retired, live, script, active, service, unstopped, job>>
       PROVE  Retired'
  BY <1>33 DEF Retired, NoScheduler, Stopped, Running, At
<1>34. retired = "yes" /\ ~At("create") => live["binary"] # "none"
  BY DEF Retired
<1>5. ASSUME NEW v \in Versions, NEW m \in Modes \cup {"none"}, NEW force \in BOOLEAN,
             NEW answer \in Modes, Install(v, m, force, answer)
      PROVE  Retired'
  <2> SUFFICES ASSUME retired' = "yes"
               PROVE  Retired'
    BY <1>2
  <2>1. m = "none" /\ retired = "yes" /\ UNCHANGED <<live, active, service, unstopped, script>>
    BY <1>5 DEF Install, hostVars
  <2>2. Disabled /\ live["binary"] # "none"
    BY <1>3, <1>5, <1>34, <2>1 DEF Disabled, NoScheduler, Install, AtRest, At
  <2>3. ModeOf(m, force, answer) = "disabled"
    BY <2>1, <2>2 DEF ModeOf
  <2>4. Begin("install", "save", "disabled", v)
    BY <1>5, <2>3 DEF Install
  <2>5. job' # Idle /\ job'.at = "save" /\ job'.op = "install" /\ job'.mode = "disabled"
    <3>1. job' # Idle
      BY ONLY <2>4 DEF Begin, Idle
    <3>2. job'.at = "save" /\ job'.op = "install" /\ job'.mode = "disabled"
      BY ONLY <2>4, Zenon DEF Begin
    <3>3. QED
      BY <3>1, <3>2
  <2>6. QED
    BY <1>3, <2>1, <2>2, <2>5 DEF Retired, NoScheduler, Stopped, Running
<1>6. CASE Rollback \/ \E m \in Modes : SetMode(m)
  BY <1>2, <1>6 DEF Rollback, SetMode
<1>7. ASSUME NEW op \in {"disable", "uninstall"}, Disable(op)
      PROVE  Retired'
  <2>1. job'.op = op
    BY <1>0, <1>7, Beginning DEF Disable, Stage
  <2>2. QED
    BY <1>4, <1>7, <1>34, <2>1 DEF Disable, AtRest, At
<1>8. CASE RunScript
  <2>1. live["boot"] = "cron" \/ live["boot"] = "serve"
    BY <1>8 DEF RunScript, FirstCommand
  <2>2. retired # "yes"
    BY <2>1 DEF Retired, NoScheduler, Files
  <2>3. QED
    BY <1>2, <1>8, <2>2 DEF RunScript
<1>9. CASE RotateSecret
  BY <1>33, <1>9 DEF RotateSecret
<1>10. ASSUME NEW s \in {"place", "create", "copy", "config", "smoke"}, Running, job'.at \in {s, job.at},
              job' # Idle, job.at \in {"save", "place", "create", "copy", "config"},
              job'.op = job.op, job'.mode = job.mode, UNCHANGED <<systemd, script, retired>>,
              \A f \in Files \ {"binary"} : live'[f] = live[f],
              (live["binary"] # "none" /\ live'["binary"] = live["binary"])
                \/ live'["binary"] # "none" \/ job'.at = "create"
       PROVE  Retired'
  BY <1>10 DEF Retired, NoScheduler, Stopped, Running, At
<1>11. CASE Save
  <2>1. /\ Running /\ job.at = "save" /\ job'.at \in {"save", "place"} /\ job' # Idle
        /\ job'.op = job.op /\ job'.mode = job.mode
    BY <1>0, <1>11, Filing DEF Save, OnFile, At, Running, Stage
  <2>2. QED
    <3>1. CASE retired = "yes"
      <4>1. live["binary"] # "none"
        BY <1>34, <2>1, <3>1 DEF At
      <4>2. QED
        BY <1>10, <1>11, <2>1, <4>1 DEF Save, hostVars
    <3>2. CASE retired # "yes"
      BY <1>2, <1>11, <3>2 DEF Save
    <3>3. QED
      BY <3>1, <3>2
<1>12. CASE Place
  <2>1. /\ Running /\ job.at = "place" /\ job'.at = "create" /\ job' # Idle
        /\ job'.op = job.op /\ job'.mode = job.mode
    BY <1>1, <1>12 DEF Place, At, Running, Stage
  <2>2. \A f \in Files \ {"binary"} : live'[f] = live[f]
    BY <1>0, <1>12 DEF Place, Files
  <2>3. QED
    BY <1>10, <1>12, <2>1, <2>2 DEF Place
<1>35. CASE Create
  <2>1. /\ Running /\ job.at = "create" /\ job'.at = "copy" /\ job' # Idle
        /\ job'.op = job.op /\ job'.mode = job.mode
    BY <1>1, <1>35 DEF Create, At, Running, Stage
  <2>2. /\ \A f \in Files \ {"binary"} : live'[f] = live[f]
        /\ live'["binary"] # "none"
    BY <1>0, <1>35 DEF Create, Files
  <2>3. QED
    BY <1>10, <1>35, <2>1, <2>2 DEF Create
<1>13. CASE Copy
  <2>1. /\ Running /\ job.at = "copy" /\ job'.at = "config" /\ job' # Idle
        /\ job'.op = job.op /\ job'.mode = job.mode
    BY <1>1, <1>13 DEF Copy, At, Running, Stage
  <2>2. job.version # "none"
    BY <1>0, <2>1, VersionsAssumption DEF Jobs
  <2>3. /\ \A f \in Files \ {"binary"} : live'[f] = live[f]
        /\ live'["binary"] # "none"
    BY <1>0, <1>13, <2>2 DEF Copy, Files
  <2>4. QED
    BY <1>10, <1>13, <2>1, <2>3 DEF Copy
<1>14. CASE CreateConfig
  <2> SUFFICES ASSUME retired = "yes"
               PROVE  Retired'
    BY <1>2, <1>14 DEF CreateConfig
  <2>1. Running /\ job.at = "config" /\ job.mode = "disabled"
    BY <1>14 DEF CreateConfig, At, Running, Retired, Stages
  <2>2. Goto("smoke")
    BY <1>14, <2>1 DEF CreateConfig
  <2>3. job' # Idle /\ job'.at = "smoke" /\ job'.op = job.op /\ job'.mode = job.mode
    BY <1>1, <2>1, <2>2 DEF Stage
  <2>4. live["binary"] # "none"
    BY <1>34, <2>1 DEF At
  <2>5. QED
    BY <1>10, <1>14, <2>1, <2>3, <2>4 DEF CreateConfig
<1>15. CASE InitSecret \/ OpenBoot \/ WriteBoot \/ RunBoot \/ Restore \/ Kick \/ (Ignored /\ At("kick"))
  <2>1. /\ Running
        /\ job.at \in {"secret", "open", "write", "run", "restore", "kick"}
    BY <1>15 DEF InitSecret, OpenBoot, WriteBoot, RunBoot, Restore, OnFile, Kick, Ignored, At, Running
  <2>2. job.op \notin {"disable", "uninstall"}
    BY <2>1 DEF Stages
  <2>3. retired # "yes"
    BY <2>1, <2>2 DEF Retired
  <2>4. retired' = retired
    BY <1>15 DEF InitSecret, OpenBoot, WriteBoot, RunBoot, Restore, Kick, Ignored
  <2>5. QED
    BY <1>2, <2>3, <2>4
<1>16. CASE Smoke
  BY <1>4, <1>16, <1>34 DEF Smoke, hostVars, At
<1>17. CASE ApplyFails
  <2>1. Running /\ job.at \in {"secret", "open", "write"}
    BY <1>17 DEF ApplyFails, At, Running
  <2>2. job.op \notin {"disable", "uninstall"}
    BY <2>1 DEF Stages
  <2>3. retired # "yes"
    BY <2>1, <2>2 DEF Retired
  <2>4. retired' = "yes" => retired = "yes"
    BY <1>17 DEF ApplyFails, RollBack
  <2>5. QED
    BY <1>2, <2>3, <2>4
<1>18. CASE SmokeFails
  BY <1>2, <1>18 DEF SmokeFails, RollBack
<1>19. CASE SkipUnit \/ DisableAtBoot \/ (Ignored /\ At("disable"))
  <2>1. /\ Running /\ job.at \in {"stop", "disable"} /\ job'.op = job.op
    BY <1>1, <1>19 DEF SkipUnit, DisableAtBoot, Ignored, At, Running, Stage
  <2>2. job.op \in {"disable", "uninstall"}
    BY <2>1 DEF Stages
  <2>3. retired = "yes" => live["binary"] # "none"
    BY <1>34, <2>1 DEF At
  <2>4. QED
    BY <1>4, <1>19, <2>1, <2>2, <2>3 DEF SkipUnit, DisableAtBoot, DisableService, Ignored, hostVars
<1>36. CASE Stop \/ StopIgnored
  <2>1. retired # "yes"
    BY <1>36 DEF Stop, StopIgnored, UnitThere, Retired, NoScheduler, Files
  <2>2. QED
    BY <1>2, <1>36, <2>1 DEF Stop, StopIgnored
<1>20. ASSUME NEW step \in {"rmunit", "rmcron"}, NEW f \in {"unit", "cron"},
              NEW next \in {"rmcron", "rmboot"}, Remove(step, f, next)
       PROVE  Retired'
  <2>1. /\ Running /\ job.at = step /\ job'.op = job.op
    BY <1>1, <1>20 DEF Remove, At, Running, Stage
  <2>2. job.op \in {"disable", "uninstall"}
    BY <2>1 DEF Stages
  <2>3. /\ live'[f] = "none" /\ \A g \in Files : g # f => live'[g] = live[g]
        /\ f # "binary" /\ f \in Files
    BY <1>0, <1>20 DEF Remove, Files
  <2>4. retired = "yes" => Kept /\ script' = "done" /\ live["binary"] # "none"
    BY <1>3, <1>20, <1>34, <2>1 DEF Remove, At
  <2>5. QED
    BY <1>20, <2>1, <2>2, <2>3, <2>4 DEF Remove, Retired, NoScheduler, Stopped, Running, Files
<1>21. CASE RemoveBoot
  <2>1. /\ Running /\ job.at = "rmboot" /\ job.op \in {"disable", "uninstall"} /\ script = "done"
    BY <1>21 DEF RemoveBoot, At, Running, Stages
  <2>2. /\ live["unit"] = "none" /\ Stopped /\ live["cron"] = "none"
    BY <1>21 DEF RemoveBoot, Host, Progress, CronSide
  <2>3. /\ live'["unit"] = "none" /\ live'["cron"] = "none" /\ live'["boot"] = "none"
        /\ live'["binary"] = live["binary"] /\ script' = script
        /\ active' = active /\ service' = service /\ unstopped' = unstopped
    BY <1>0, <1>21, <2>2 DEF RemoveBoot, Files
  <2>4. NoScheduler' /\ Stopped'
    BY <2>2, <2>3 DEF NoScheduler, Stopped, Files
  <2>5. CASE job.op = "uninstall"
    <3>1. job'.op = job.op /\ retired' = retired
      BY <1>1, <1>21, <2>1, <2>5 DEF RemoveBoot, Stage
    <3>2. QED
      BY <1>34, <2>1, <2>3, <2>4, <2>5, <3>1 DEF Retired, At
  <2>6. CASE job.op # "uninstall"
    <3>1. job' = Idle /\ (retired' = "yes" => live["binary"] # "none")
      BY <1>21, <2>6 DEF RemoveBoot
    <3>2. QED
      BY <2>1, <2>3, <2>4, <3>1 DEF Retired, Running
  <2>7. QED
    BY <2>5, <2>6
<1>22. CASE RemoveBinary
  BY <1>2, <1>22 DEF RemoveBinary
<1>37. CutOff => (retired' = "yes" => retired = "yes" /\ live["binary"] # "none")
  BY DEF CutOff
<1>23. CASE Killed
  <2>1. retired = "yes" => script' = script
    BY <1>3, <1>23 DEF Killed
  <2>2. QED
    BY <1>2, <1>4, <1>23, <1>37, <2>1 DEF Killed
<1>24. ASSUME NEW t \in Tree, NEW on \in BOOLEAN, BootWith(t, on), Interrupted,
              t["boot"] = live["boot"], t["binary"] = live["binary"],
              t["cron"] \in {"none", live["cron"]}, t["unit"] \in {"none", live["unit"]}
       PROVE  Retired'
  <2> SUFFICES ASSUME retired' = "yes"
               PROVE  Retired'
    BY <1>2, <1>24
  <2>0. retired = "yes" /\ live["binary"] # "none"
    BY <1>24, <1>37 DEF Interrupted
  <2>1. /\ live["boot"] = "none" /\ live["cron"] = "none" /\ live["unit"] = "none"
    BY <1>3, <2>0 DEF NoScheduler, Files
  <2>2. live' = t /\ job' = Idle /\ service' = 0
    BY <1>24 DEF BootWith, Interrupted
  <2>3. ~active'
    BY <1>24, <2>1 DEF BootWith
  <2>4. script' = "done"
    BY <1>24, <2>1 DEF BootWith, FirstCommand
  <2>5. NoScheduler' /\ Stopped'
    BY <1>24, <2>1, <2>2, <2>3 DEF NoScheduler, Stopped, Files
  <2>6. QED
    BY <1>24, <2>0, <2>2, <2>4, <2>5 DEF Retired, Running
<1>25. CASE Reboot
  BY <1>0, <1>24, <1>25 DEF Reboot, TypeOK, HostTypeOK
<1>26. CASE FirmwareUpgrade
  <2>1. /\ Wiped(live)["boot"] = live["boot"] /\ Wiped(live)["binary"] = live["binary"]
        /\ Wiped(live)["cron"] = "none" /\ Wiped(live)["unit"] = "none"
    BY <1>0 DEF Wiped, Files
  <2>2. Wiped(live) \in Tree
    BY <1>0, WipedTrees
  <2>3. QED
    BY <1>24, <1>26, <2>1, <2>2 DEF FirmwareUpgrade
<1>27. CASE Script
  <2>1. script # "done" /\ retired' = retired
    BY <1>27 DEF Script, ScriptStep, ScriptAborts, Command, NoUnit, StopUnit, StopUnitFails, DisableUnit,
       Unheeded, RemoveUnit, OpenCron, WriteCron, RemoveCron, OpenUnit, WriteUnit, EnableUnit, StartUnit
  <2>2. QED
    BY <1>2, <1>3, <2>1
<1>28. CASE Systemd
  <2>1. /\ UNCHANGED <<retired, live, script, active, unstopped, job>>
        /\ \/ service # 0 /\ service' = 0
           \/ active
    BY <1>28 DEF Systemd, Revive, ServiceDies
  <2>2. Stopped => Stopped'
    BY <2>1 DEF Stopped
  <2>3. QED
    BY <2>1, <2>2 DEF Retired, NoScheduler, Running, At
<1>29. CASE UNCHANGED vars
  BY <1>29, <1>33 DEF vars, hostVars
<1>30. CASE Step
  BY <1>11, <1>12, <1>13, <1>14, <1>15, <1>16, <1>19, <1>20, <1>21, <1>22, <1>30, <1>35, <1>36
     DEF Step, Ignored
<1>31. CASE Operator
  BY <1>5, <1>6, <1>7, <1>8, <1>9, <1>31 DEF Operator
<1>32. QED
  BY <1>17, <1>18, <1>23, <1>25, <1>26, <1>27, <1>28, <1>29, <1>30, <1>31 DEF Next

(***************************************************************************)
(* The theorems                                                            *)
(***************************************************************************)

\* The invariants hold of a host nothing has been installed on.
LEMMA Beginnings == Init => TypeOK /\ Stages /\ Room /\ Unsettled /\ Host /\ Snapshots /\ Retired
<1> SUFFICES ASSUME Init
             PROVE  TypeOK /\ Stages /\ Room /\ Unsettled /\ Host /\ Snapshots /\ Retired
  OBVIOUS
<1>1. live \in Tree /\ prev \in Tree
  <2>1. [f \in Files |-> "none"] \in Tree
    BY Holding DEF Tree
  <2>2. QED
    BY <2>1 DEF Init, HostInit
<1>2. TypeOK
  <2>1. 0 \in 0 .. MaxSecrets /\ 0 \in 0 .. MaxFaults
    BY SecretsAssumption, FaultsAssumption
  <2>2. QED
    BY <1>1, <2>1 DEF Init, HostInit, TypeOK, HostTypeOK, Commands
<1>3. Stages /\ Room /\ Unsettled /\ Snapshots /\ Retired
  BY DEF Init, HostInit, Stages, Room, Unsettled, Snapshots, Retired, Running
<1>4. Host
  <2>1. \A f \in Files : live[f] = "none"
    BY DEF Init, HostInit
  <2>2. Fitting
    BY <2>1 DEF Init, HostInit, Fitting, Stopped, Files
  <2>3. QED
    BY <2>2 DEF Init, HostInit, Host, UnitLast, NoOrphanService, Progress, At
<1>5. QED
  BY <1>2, <1>3, <1>4

\* Every variable of the host and of its installer keeps its type.
THEOREM TypeCorrect == Spec => []TypeOK
<1>1. Init => TypeOK /\ Stages /\ Room
  BY Beginnings
<1>2. TypeOK /\ Stages /\ Room /\ [Next]_vars => (TypeOK /\ Stages /\ Room)'
  BY TypeStep, StagesStep
<1>3. QED
  BY <1>1, <1>2, PTL DEF Spec

\* The invariants of the host hold together.
THEOREM HostInvariant == Spec => [](TypeOK /\ Stages /\ Room /\ Unsettled /\ Host)
<1>1. Init => TypeOK /\ Stages /\ Room /\ Unsettled /\ Host
  BY Beginnings
<1>2. TypeOK /\ Stages /\ Room /\ Unsettled /\ Host /\ [Next]_vars
        => (TypeOK /\ Stages /\ Room /\ Unsettled /\ Host)'
  BY TypeStep, StagesStep, UnsettledStep, HostStep
<1>3. QED
  BY <1>1, <1>2, PTL DEF Spec

\* A service runs without its unit file only where its stop has failed, whatever is
\* killed, rolled back or upgraded (the order of stop and rm in bootscript.go:85-90
\* and in install-on-unifi-os.sh:1111-1121, and the failures they ignore).
THEOREM ServiceHasUnit == Spec => []NoOrphanService
<1>1. TypeOK /\ Stages /\ Room /\ Unsettled /\ Host => NoOrphanService
  BY DEF Host
<1>2. QED
  BY <1>1, HostInvariant, PTL

\* A boot script that ran to its end has put the host in its one mode, but for a
\* service whose stop failed and was ignored (bootscript.go:78-154).
THEOREM ScriptIsIdempotent == Spec => []HostMatchesScript
<1>1. TypeOK /\ Stages /\ Room /\ Unsettled /\ Host => HostMatchesScript
  BY DEF Host, Progress, Fitting, Stopped, HostMatchesScript, AtRest
<1>2. QED
  BY <1>1, HostInvariant, PTL

\* A failed installation gives back every file it found
\* (install-on-unifi-os.sh:29-33).
THEOREM RollbackRestores == Spec => []FailedInstallRestores
<1>1. Init => TypeOK /\ Stages /\ Room /\ Snapshots
  BY Beginnings
<1>2. TypeOK /\ Stages /\ Room /\ Snapshots /\ [Next]_vars => (TypeOK /\ Stages /\ Room /\ Snapshots)'
  BY TypeStep, StagesStep, SnapshotsStep
<1>3. TypeOK /\ Stages /\ Room /\ Snapshots => FailedInstallRestores
  BY DEF Snapshots, FailedInstallRestores, At, Running, Before
<1>4. QED
  BY <1>1, <1>2, <1>3, PTL DEF Spec

\* --disable lasts through every restart, kill and upgrade that is neither rolled
\* back nor cut off inside its mv; a service it could not stop lasts to the next
\* boot (install-on-unifi-os.sh:172-184, 540, 1111-1121, 1325-1343).
THEOREM DisableLasts == Spec => []RetiredStaysOff
<1>1. Init => Retired
  BY Beginnings
<1>2. TypeOK /\ Stages /\ Room /\ Unsettled /\ Host /\ Retired /\ [Next]_vars => Retired'
  BY RetiredStep
<1>3. Retired => RetiredStaysOff
  BY DEF Retired, RetiredStaysOff, Off, Stopped
<1>4. QED
  BY <1>1, <1>2, <1>3, HostInvariant, PTL DEF Spec
=============================================================================
