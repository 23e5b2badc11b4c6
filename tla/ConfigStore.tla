---------------------------- MODULE ConfigStore ----------------------------
(***************************************************************************)
(* The configuration on disk and the commands that rewrite it: `config     *)
(* init`, `config rotate-secret`, `secure enable` (cmd/config*.go,         *)
(* cmd/secure.go, internal/config).  A command runs alone but may be       *)
(* killed between any two system calls; a file is rewritten in place, so   *)
(* it is torn between its truncation and its write.                        *)
(*                                                                         *)
(* initConfig resolves the path: the one --config gives, else config.secure *)
(* before config.yaml.  What is refused, and what only reads, is no step.  *)
(***************************************************************************)
EXTENDS Naturals

CONSTANTS
  Commands,      \* the commands operators use
  Given,         \* the paths operators give with --config, "" for none
  Privileged,    \* may the operator be root?  FALSE, TRUE or both
  FirstConfig,   \* the content of the config.yaml the operator wrote
  MaxSecrets,    \* bound: secrets generated
  MaxCrashes     \* bound: commands killed

\* What the properties tell apart in a configuration: AWS credentials,
\* ip_source, update_interval and update_timeout, the secret of the server
\* block (0: no server block).
Config == [creds : BOOLEAN, source : BOOLEAN, timing : BOOLEAN, secret : 0 .. MaxSecrets]

Defaults == [creds |-> FALSE, source |-> FALSE, timing |-> FALSE, secret |-> 0]

ASSUME CommandsAssumption ==
  Commands \subseteq {"init", "create", "rotate", "enable"}
ASSUME GivenAssumption == Given \subseteq {"", "yaml", "secure"}
ASSUME PrivilegedAssumption == Privileged \subseteq BOOLEAN
ASSUME BoundsAssumption   == MaxSecrets \in Nat /\ MaxCrashes \in Nat
ASSUME ConfigAssumption   == FirstConfig \in Config /\ FirstConfig.secret = 0

VARIABLES
  file,       \* config.yaml, config.secure and config.secure.secure
  cmd,        \* the command that runs, or Idle
  secrets,    \* secrets generated so far
  crashes,    \* commands killed so far
  root,       \* commands run as root, whom file modes do not stop
  wanted,     \* history: the settings as the operator has set them
  since,      \* history: the commands that have ended since each was set
  torn        \* history: a command that rewrites the configuration in place was
              \* killed between truncation and write, and none has renewed it since

vars == <<file, cmd, secrets, crashes, root, wanted, since, torn>>

rest == <<crashes, root>>

history == <<wanted, since, torn>>

Paths == {"yaml", "secure", "secure.secure"}

\* "torn" is an empty file, "zeros" one overwritten by `secure enable`.
File == [kind : {"absent", "torn", "zeros", "plain", "vault"}, mode : {400, 600}, cfg : Config]
Absent == [kind |-> "absent", mode |-> 600, cfg |-> Defaults]

Idle == [op |-> "none"]
Command == [op : Commands, at : {"chmod", "truncate", "write", "seal", "zero", "remove"},
            path : Paths, from : Paths, cfg : Config]

\* For each setting that a command may lose, the commands since it was set.
Since == [source : SUBSET Commands, timing : SUBSET Commands, secret : SUBSET Commands]
JustSet == [source |-> {}, timing |-> {}, secret |-> {}]

TypeOK ==
  /\ file \in [Paths -> File]
  /\ cmd \in Command \cup {Idle}
  /\ secrets \in 0 .. MaxSecrets
  /\ crashes \in 0 .. MaxCrashes
  /\ root \in BOOLEAN
  /\ wanted \in Config
  /\ since \in Since
  /\ torn \in BOOLEAN

Init ==
  /\ file = [p \in Paths |-> IF p = "yaml"
                             THEN [kind |-> "plain", mode |-> 600, cfg |-> FirstConfig]
                             ELSE Absent]
  /\ cmd = Idle
  /\ secrets = 0
  /\ crashes = 0
  /\ root \in Privileged
  /\ wanted = FirstConfig
  /\ since = JustSet
  /\ torn = FALSE

(***************************************************************************)
(* Finding and loading the configuration                                   *)
(***************************************************************************)
Exists(p) == file[p].kind # "absent"

\* The path initConfig resolves; "" when there is no file.  A path that is
\* given has to exist.
Resolved(given) ==
  CASE given # ""                                          -> given
    [] given = "" /\ Exists("secure")                      -> "secure"
    [] given = "" /\ ~Exists("secure") /\ Exists("yaml")   -> "yaml"
    [] OTHER                                               -> ""

\* A torn config.yaml parses as empty YAML; plaintext in config.secure has no
\* vault to decrypt, and a torn one none either.
Parses(p) ==
  IF p = "yaml" THEN file[p].kind \in {"plain", "torn"} /\ file[p].mode = 600
                ELSE file[p].kind = "vault"

\* initConfig probes a config.yaml before any command runs.
Starts(given) ==
  /\ given # "" => Exists(given)
  /\ Resolved(given) = "yaml" => file["yaml"].kind # "zeros"

Loads(p) == p # "" => Parses(p)

Loaded(p) == IF p = "" \/ file[p].kind = "torn" THEN Defaults ELSE file[p].cfg

\* A write to a file of mode 0400 is refused to everybody but root.
MayWrite(p) == root \/ ~Exists(p) \/ file[p].mode = 600

(***************************************************************************)
(* The commands                                                            *)
(***************************************************************************)
Begin(op, at, path, from, cfg) ==
  cmd' = [op |-> op, at |-> at, path |-> path, from |-> from, cfg |-> cfg]

Target(given) == IF Resolved(given) = "" THEN "yaml" ELSE Resolved(given)

\* The interactive wizard writes the template: credentials are kept or typed,
\* everything the template does not mention is gone.
ConfigInit(given) ==
  /\ "init" \in Commands /\ cmd = Idle /\ Starts(given)
  /\ MayWrite(Target(given))
  /\ Begin("init", "truncate", Target(given), Target(given), [Defaults EXCEPT !.creds = TRUE])
  /\ UNCHANGED <<file, secrets, history, rest>>

\* `config init --interactive=false --force` writes the empty template.
ConfigCreate(given) ==
  /\ "create" \in Commands /\ cmd = Idle /\ Starts(given)
  /\ MayWrite(Target(given))
  /\ Begin("create", "truncate", Target(given), Target(given), Defaults)
  /\ UNCHANGED <<file, secrets, history, rest>>

\* SaveSecure starts by making an existing vault writable.
RotateSecret(given) ==
  LET path == Resolved(given) IN
  /\ "rotate" \in Commands /\ cmd = Idle /\ Starts(given)
  /\ path # "" /\ Loads(path)
  /\ secrets < MaxSecrets
  /\ secrets' = secrets + 1
  /\ Begin("rotate", IF path = "secure" THEN "chmod" ELSE "truncate",
           path, path, [Loaded(path) EXCEPT !.secret = secrets'])
  /\ UNCHANGED <<file, history, rest>>

\* config.secure for config.yaml, and config.secure.secure for config.secure.
SecurePath(p) == IF p = "yaml" THEN "secure" ELSE "secure.secure"

\* Mutant: the plaintext is wiped before the vault is saved.
EnableWipesFirst(given) ==
  /\ "enable" \in Commands /\ cmd = Idle /\ Starts(given)
  /\ ~Exists(SecurePath(Target(given)))
  /\ Loads(Resolved(given))
  /\ Begin("enable", "zero", SecurePath(Target(given)), Target(given), Loaded(Resolved(given)))
  /\ UNCHANGED <<file, secrets, history, rest>>

EnableSecure(given) ==
  /\ "enable" \in Commands /\ cmd = Idle /\ Starts(given)
  /\ ~Exists(SecurePath(Target(given)))
  /\ Loads(Resolved(given))
  /\ Begin("enable", "chmod", SecurePath(Target(given)), Target(given), Loaded(Resolved(given)))
  /\ UNCHANGED <<file, secrets, history, rest>>

At(step) == cmd # Idle /\ cmd.at = step

Chmod ==
  /\ At("chmod")
  /\ file' = [file EXCEPT ![cmd.path].mode = 600]
  /\ cmd' = [cmd EXCEPT !.at = "truncate"]
  /\ UNCHANGED <<secrets, history, rest>>

\* os.WriteFile: O_TRUNC, the mode counts for a new file only.
Truncate ==
  /\ At("truncate")
  /\ file' = [file EXCEPT ![cmd.path] =
       [kind |-> "torn", cfg |-> Defaults,
        mode |-> IF Exists(cmd.path) THEN file[cmd.path].mode
                 ELSE IF cmd.path = "yaml" THEN 600 ELSE 400]]
  /\ cmd' = [cmd EXCEPT !.at = "write"]
  /\ UNCHANGED <<secrets, history, rest>>

\* Mutant: a vault has no field for ip_source either.
SealedWithoutSource(c) == [c EXCEPT !.timing = FALSE, !.source = FALSE]

\* SecureConfig has no field for update_interval and update_timeout.
Sealed(c) == [c EXCEPT !.timing = FALSE]

Also(op) == [source |-> since.source \cup {op},
             timing |-> since.timing \cup {op},
             secret |-> since.secret \cup {op}]

\* What the operator has set with the command: everything with --force, the
\* secret with a rotation; with the wizard the credentials, for it asks neither
\* for the source, nor for the timing or the server block, and says that Enter
\* keeps the current values.
Remember ==
  CASE cmd.op = "create" -> wanted' = cmd.cfg /\ since' = JustSet /\ torn' = FALSE
    [] cmd.op = "init"   -> /\ wanted' = [wanted EXCEPT !.creds = cmd.cfg.creds]
                            /\ since' = Also("init") /\ torn' = FALSE
    [] cmd.op = "rotate" -> /\ wanted' = [wanted EXCEPT !.secret = cmd.cfg.secret]
                            /\ since' = [Also("rotate") EXCEPT !.secret = {}] /\ torn' = torn
    [] OTHER             -> wanted' = wanted /\ since' = Also(cmd.op) /\ torn' = torn

Write ==
  LET vault == cmd.op \in {"rotate", "enable"} /\ cmd.path # "yaml" IN
  /\ At("write")
  /\ file' = [file EXCEPT ![cmd.path].kind = IF vault THEN "vault" ELSE "plain",
                          ![cmd.path].cfg  = IF vault THEN Sealed(cmd.cfg) ELSE cmd.cfg]
  /\ cmd' = IF vault THEN [cmd EXCEPT !.at = "seal"] ELSE Idle
  /\ Remember
  /\ UNCHANGED <<secrets, rest>>

\* Mutants: the closing chmod gives the world read access; it is left out; the
\* migration ends with it.
SealReadable ==
  /\ At("seal")
  /\ file' = [file EXCEPT ![cmd.path].mode = 444]
  /\ cmd' = IF cmd.op = "enable" /\ Exists(cmd.from) THEN [cmd EXCEPT !.at = "zero"] ELSE Idle
  /\ UNCHANGED <<secrets, history, rest>>

SealLeftOut ==
  /\ At("seal")
  /\ cmd' = IF cmd.op = "enable" /\ Exists(cmd.from) THEN [cmd EXCEPT !.at = "zero"] ELSE Idle
  /\ UNCHANGED <<file, secrets, history, rest>>

SealEndsIt ==
  /\ At("seal")
  /\ file' = [file EXCEPT ![cmd.path].mode = 400]
  /\ cmd' = Idle
  /\ UNCHANGED <<secrets, history, rest>>

Seal ==
  /\ At("seal")
  /\ file' = [file EXCEPT ![cmd.path].mode = 400]
  /\ cmd' = IF cmd.op = "enable" /\ Exists(cmd.from) THEN [cmd EXCEPT !.at = "zero"] ELSE Idle
  /\ UNCHANGED <<secrets, history, rest>>

\* The original is overwritten with zeros; when that fails the command stops.
Zero ==
  /\ At("zero")
  /\ IF MayWrite(cmd.from)
     THEN /\ file' = [file EXCEPT ![cmd.from].kind = "zeros", ![cmd.from].cfg = Defaults]
          /\ cmd' = [cmd EXCEPT !.at = "remove"]
     ELSE cmd' = Idle /\ UNCHANGED file
  /\ UNCHANGED <<secrets, history, rest>>

Remove ==
  /\ At("remove")
  /\ file' = [file EXCEPT ![cmd.from] = Absent]
  /\ cmd' = Idle
  /\ UNCHANGED <<secrets, history, rest>>

Crash ==
  /\ cmd # Idle
  /\ crashes < MaxCrashes
  /\ crashes' = crashes + 1
  /\ cmd' = Idle
  /\ torn' = (torn \/ (cmd.at = "write" /\ cmd.op # "enable"))
  /\ UNCHANGED <<file, secrets, root, wanted, since>>

Next ==
  \/ \E given \in Given :
       ConfigInit(given) \/ ConfigCreate(given) \/ RotateSecret(given) \/ EnableSecure(given)
  \/ Chmod \/ Truncate \/ Write \/ Seal \/ Zero \/ Remove \/ Crash

Spec == Init /\ [][Next]_vars

(***************************************************************************)
(* Properties                                                              *)
(***************************************************************************)

\* Whatever is killed, and however often it is run again, with --config or by
\* root on top of an earlier vault too, some file still holds the credentials: a
\* vault is complete before its original is wiped (secure_config.go:170-198).
\* The one way to lose them is to kill a command that rewrites the only copy in
\* place between its truncation and its write (config.go:241).
CredentialsSurvive ==
  wanted.creds /\ ~torn /\ (cmd = Idle \/ cmd.op = "enable") =>
    \E p \in Paths : file[p].kind \in {"plain", "vault"} /\ file[p].cfg.creds

\* As long as an ordinary user runs them and none is killed, no order of
\* commands leaves behind a configuration the next one refuses to load: the
\* resolved file has the format and mode that loading asks for.  It holds the
\* credentials and, as the operator has set them last,
\*   ip_source  unless `config init` has run since;
\*   the secret of the server unless `config init` has run since;
\*   update_interval and update_timeout unless `config init` or `secure enable`
\*              has run since.
\* So rotations keep everything, and migrations everything but the timing; that
\* the wizard loses three settings contradicts cmd/config.go:255 (root.go:80-140,
\* config.go:134-185, secure_config.go:13-167, cmd/config_rotate_secret.go:50-102).
SettingsSurvive ==
  cmd = Idle /\ crashes = 0 /\ ~root =>
    LET path  == Resolved("")
        found == Loaded(path) IN
    /\ Loads(path)
    /\ found.creds = wanted.creds
    /\ "init" \notin since.source => found.source = wanted.source
    /\ "init" \notin since.secret => found.secret = wanted.secret
    /\ since.timing \cap {"init", "enable"} = {} => found.timing = wanted.timing

\* When no command was killed, no plaintext credentials are left beside the
\* vault, not even by a later `config init` (secure_config.go:182-198).
NoPlaintextBesideVault ==
  cmd = Idle /\ crashes = 0 /\ file["secure"].kind = "vault" =>
    \A p \in Paths : ~(file[p].kind \in {"plain", "zeros"})

\* Between commands every vault is read-only, also one rewritten in place by a
\* later rotation, unless its command was killed (secure_config.go:89-104).
VaultIsSealed ==
  cmd = Idle /\ crashes = 0 => \A p \in Paths : file[p].kind = "vault" => file[p].mode = 400
=============================================================================
