------------------------------ MODULE Identity ------------------------------
(***************************************************************************)
(* Which directory a command uses (internal/profile) and which key opens   *)
(* the vault in it (internal/crypto): both are derived anew, at each run,  *)
(* from what the process sees of its host.  The vault is opened only by    *)
(* the identity that sealed it (AES-256-GCM, taken as ideal).              *)
(*                                                                         *)
(* What a process sees is a record:                                        *)
(*   device     the device itself, which no code reads                     *)
(*   os         "linux", "darwin" or "windows"                             *)
(*   ubnthal    the lines of /proc/ubnthal/system.info: key and value      *)
(*   isUdm      does that file exist?                                      *)
(*   dockerenv  does /.dockerenv exist?                                    *)
(*   docker     the last path component of each docker line of             *)
(*              /proc/self/cgroup                                          *)
(*   eth0       the MAC address of eth0, "" without one                    *)
(*   probes     what the two commands of darwin and windows print, "" for  *)
(*              a probe that fails or exceeds its 5 s                      *)
(*   hostname, user, home, appdata    "" where unset                       *)
(* An identity is a sequence of words, a directory likewise.               *)
(***************************************************************************)
EXTENDS Naturals, Sequences, SequencesExt

CONSTANT Views   \* what the processes of all devices may see

View ==
  [ device : STRING, os : {"linux", "darwin", "windows"},
    isUdm : BOOLEAN, ubnthal : Seq([key : STRING, value : STRING]),
    dockerenv : BOOLEAN, docker : Seq(STRING), eth0 : STRING, probes : STRING \X STRING,
    hostname : STRING, user : STRING, home : STRING, appdata : STRING ]

ASSUME ViewsAssumption == Views \subseteq View

\* UniFi OS is a Linux, and its processes read one system.info.
ASSUME UdmAssumption ==
  \A v \in Views : v.isUdm =>
    v.os = "linux" /\ \A w \in Views : w.isUdm /\ w.device = v.device => w.ubnthal = v.ubnthal

VARIABLES
  view,      \* what the process sees
  vault,     \* directory -> the view its vault was sealed under, or NoVault
  outcome    \* of the last command

viewVars == <<view, vault, outcome>>

NoVault == [device |-> "none"]

(***************************************************************************)
(* The profile                                                             *)
(***************************************************************************)
\* Mutant: the test for a UniFi device is missing.
DetectByOs(v) == IF v.dockerenv THEN "docker" ELSE v.os

Detect(v) ==
  CASE v.isUdm                 -> "udm"
    [] ~v.isUdm /\ v.dockerenv -> "docker"
    [] OTHER                   -> v.os

\* <<>>: neither $HOME nor %APPDATA% is known.
DataDir(v) ==
  LET p == Detect(v) IN
  CASE p = "udm"                          -> <<"/data/.dddns">>
    [] p = "docker"                       -> <<"/config">>
    [] p = "windows" /\ v.appdata # ""    -> <<v.appdata, "dddns">>
    [] p = "windows" /\ v.appdata = "" /\ v.home # "" -> <<v.home, "AppData/Roaming/dddns">>
    [] p \in {"linux", "darwin"} /\ v.home # ""       -> <<v.home, ".dddns">>
    [] OTHER                              -> <<>>

(***************************************************************************)
(* The identity                                                            *)
(***************************************************************************)

SerialKeys == {"serialno", "device.hashid"}

\* Mutant: any line of system.info is one.
AnyLines(lines) == DOMAIN lines

SerialLines(lines) == {j \in DOMAIN lines : lines[j].key \in SerialKeys}

\* What the first of them says, it may be empty.
SerialNumber(lines) == lines[CHOOSE j \in SerialLines(lines) : \A k \in SerialLines(lines) : j <= k].value

\* The first source that is there.
LinuxID(v) ==
  IF v.isUdm /\ SerialLines(v.ubnthal) # {} THEN SerialNumber(v.ubnthal)
  ELSE IF v.docker # <<>> THEN Head(v.docker)
  ELSE v.eth0

ProbedID(v) == IF v.probes[1] # "" THEN v.probes[1] ELSE v.probes[2]

PlatformID(v) == IF v.os = "linux" THEN LinuxID(v) ELSE ProbedID(v)

FallbackID(v) ==
  CASE v.hostname = ""                 -> <<>>
    [] v.hostname # "" /\ v.user = ""  -> <<v.hostname>>
    [] OTHER                           -> <<v.hostname, v.user>>

\* Mutant: each user has a key of their own.
DeviceIDOfUser(v) == IF PlatformID(v) # "" THEN <<PlatformID(v), v.user>> ELSE FallbackID(v)

\* <<>>: there is no identity, and no key.
DeviceID(v) == IF PlatformID(v) # "" THEN <<PlatformID(v)>> ELSE FallbackID(v)

\* Serial numbers, container ids, MAC addresses and what the probes print are
\* those of one device, and no device is called like the serial number of another.
\* The other lines of system.info may say the same on each.
SerialWords(v) == {l.value : l \in {k \in ToSet(v.ubnthal) : k.key \in SerialKeys}}

Words(v) == (SerialWords(v) \cup ToSet(v.docker) \cup {v.eth0} \cup ToSet(v.probes)) \ {""}

ASSUME UniqueAssumption ==
  \A v, w \in Views : v.device # w.device =>
    Words(v) \cap Words(w) = {} /\ \A x \in Words(v) : <<x>> # FallbackID(w)

(***************************************************************************)
(* The commands                                                            *)
(***************************************************************************)
Dirs == {DataDir(v) : v \in Views} \ {<<>>}

ViewTypeOK ==
  /\ view \in Views
  /\ vault \in [Dirs -> Views \cup {NoVault}]
  /\ outcome \in {"none", "sealed", "opened", "refused", "absent", "error"}
  /\ outcome \in {"opened", "refused"} => DataDir(view) \in Dirs

ViewInit ==
  /\ view \in Views
  /\ vault = [d \in Dirs |-> NoVault]
  /\ outcome = "none"

\* secure enable: the vault is sealed with the identity the process has now.
SealVault ==
  /\ IF DataDir(view) = <<>> \/ DeviceID(view) = <<>>
     THEN outcome' = "error" /\ UNCHANGED vault
     ELSE outcome' = "sealed" /\ vault' = [vault EXCEPT ![DataDir(view)] = view]
  /\ UNCHANGED view

Sealed(d) == vault[d] # NoVault

\* Any command that loads the configuration.
OpenVault ==
  LET d == DataDir(view) IN
  /\ outcome' = IF d = <<>> THEN "error"
                ELSE IF ~Sealed(d) THEN "absent"
                ELSE IF DeviceID(vault[d]) = DeviceID(view) THEN "opened"
                ELSE "refused"
  /\ UNCHANGED <<view, vault>>

\* Another process: another user, cron or systemd instead of a shell, a probe
\* that fails, a new container; or another device, the directory copied to it.
Another(v) ==
  /\ view' = v
  /\ outcome' = "none"
  /\ UNCHANGED vault

ViewNext == SealVault \/ OpenVault \/ \E v \in Views : Another(v)

ViewSpec == ViewInit /\ [][ViewNext]_viewVars

(***************************************************************************)
(* Properties                                                              *)
(***************************************************************************)
Hardware(v) == <<v.device, v.os, v.isUdm, v.ubnthal, v.docker, v.eth0, v.probes>>

\* A vault that does not open is another device's, or some source of the
\* identity answered differently from when it was sealed, or none is left but
\* hostname and user: who runs the command, and from where, is otherwise of no
\* account (device_crypto.go:39-67).
HardwareSuffices ==
  outcome = "refused" =>
    LET s == vault[DataDir(view)] IN
    Hardware(s) # Hardware(view) \/ (PlatformID(view) = "" /\ FallbackID(s) # FallbackID(view))

\* Another device's vault opens only where neither has an identity but hostname
\* and user (docs/configuration.md:196 "device-specific encryption").
NoStranger ==
  outcome = "opened" =>
    LET s == vault[DataDir(view)] IN
    s.device = view.device \/ (PlatformID(s) = "" /\ PlatformID(view) = "")

\* On a UniFi device with a serial number the vault, once there, is found and
\* opened by every process of the device: root's shell, cron, the boot script,
\* systemd without HOME and USER (profile.go:80-83, device_crypto.go:71-82).
UdmAlwaysOpens ==
  \A d \in Dirs :
    LET s == vault[d] IN
    /\ Sealed(d) /\ s.device = view.device /\ s.isUdm /\ view.isUdm
    /\ SerialLines(s.ubnthal) # {} /\ SerialNumber(s.ubnthal) # ""
    => outcome \notin {"refused", "absent", "error"}
=============================================================================
