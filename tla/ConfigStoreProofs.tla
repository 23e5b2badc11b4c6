------------------------- MODULE ConfigStoreProofs -------------------------
(***************************************************************************)
(* The configuration on disk for every set of commands and paths, every    *)
(* first configuration and every number of secrets and kills.              *)
(***************************************************************************)
EXTENDS ConfigStore, TLAPS

(***************************************************************************)
(* The inductive invariants                                                *)
(***************************************************************************)

\* Where each command may be: only a migration wipes a file, and its vault is
\* not the file it migrates; every other command rewrites one file in place.
Shape ==
  cmd # Idle =>
    /\ cmd.op = "enable" => cmd.from \in {"yaml", "secure"} /\ cmd.path = SecurePath(cmd.from)
    /\ cmd.op # "enable" => cmd.from = cmd.path /\ cmd.path \in {"yaml", "secure"}
    /\ cmd.op \in {"init", "create"} => cmd.at \in {"truncate", "write"}
    /\ cmd.op = "rotate" => cmd.at \in {"chmod", "truncate", "write", "seal"}
    /\ cmd.op = "rotate" /\ cmd.path = "yaml" => cmd.at \in {"truncate", "write"}

Holds(p) == file[p].kind \in {"plain", "vault"} /\ file[p].cfg.creds

HeldOutside(ps) == \E p \in Paths \ ps : Holds(p)

\* Who holds the credentials at each stage: before its write a command has them
\* in hand or leaves their holder alone, after the write of a migration somebody
\* but the original holds them.
Safe ==
  wanted.creds /\ ~torn =>
    /\ cmd = Idle => HeldOutside({})
    /\ cmd # Idle /\ cmd.op = "enable" =>
         IF cmd.at \in {"chmod", "truncate", "write"}
         THEN /\ HeldOutside({cmd.path})
              /\ cmd.cfg.creds \/ HeldOutside({cmd.path, cmd.from})
         ELSE HeldOutside({cmd.from})
    /\ cmd # Idle /\ cmd.op # "enable" /\ cmd.at # "write" => HeldOutside({})
    /\ cmd # Idle /\ cmd.op = "rotate" /\ cmd.at # "seal" =>
         cmd.cfg.creds \/ HeldOutside({cmd.path})

\* A vault that is not read-only is at work.
Sealing ==
  crashes = 0 =>
    \A p \in Paths : file[p].kind = "vault" /\ file[p].mode # 400 =>
      cmd # Idle /\ cmd.path = p /\ cmd.at \in {"truncate", "seal"}

\* config.yaml and config.secure are never there together, but for the migration
\* of the one to the other.
Apart ==
  /\ file["secure.secure"].kind \in {"absent", "torn", "vault"}
  /\ file["yaml"].mode = 600
  /\ crashes = 0 =>
       /\ Exists("yaml") /\ Exists("secure") =>
            cmd # Idle /\ cmd.op = "enable" /\ cmd.from = "yaml"
       /\ cmd # Idle /\ cmd.op # "enable" /\ cmd.path = "yaml" => ~Exists("secure")
       /\ cmd # Idle /\ cmd.from = "secure" => ~Exists("yaml")

\* The settings c are the settings d, but for those that the commands in h have
\* lost.
Agrees(c, d, h) ==
  /\ c.creds = d.creds
  /\ "init" \in h.source \/ c.source = d.source
  /\ "init" \in h.secret \/ c.secret = d.secret
  /\ "init" \in h.timing \/ "enable" \in h.timing \/ c.timing = d.timing

Plain(p) == file[p].kind = "plain" /\ file[p].mode = 600 /\ Agrees(file[p].cfg, wanted, since)
Vault(p) == file[p].kind = "vault" /\ "enable" \in since.timing /\ Agrees(file[p].cfg, wanted, since)

InYaml   == Plain("yaml") /\ ~Exists("secure")
InSecure == Vault("secure") /\ ~Exists("yaml")
Closed   == file["secure"].mode = 400

\* The course of each command of an ordinary user that is not killed.
Course ==
  crashes = 0 /\ ~root =>
    /\ cmd = Idle => InYaml \/ (InSecure /\ Closed)
    /\ cmd # Idle /\ cmd.op \in {"init", "create"} =>
         cmd.path = "yaml" /\ ~Exists("secure")
    /\ cmd # Idle /\ cmd.op = "rotate" =>
         /\ Agrees(cmd.cfg, [wanted EXCEPT !.secret = cmd.cfg.secret], since)
         /\ cmd.path = "yaml" => ~Exists("secure")
         /\ cmd.path = "secure" => /\ ~Exists("yaml") /\ "enable" \in since.timing
                                   /\ cmd.at = "seal" => Vault("secure")
    /\ cmd # Idle /\ cmd.op = "enable" /\ cmd.from = "yaml" =>
         /\ Agrees(cmd.cfg, wanted, since)
         /\ cmd.at # "remove" => Plain("yaml")
         /\ cmd.at \in {"seal", "zero", "remove"} => Vault("secure")
         /\ cmd.at \in {"zero", "remove"} => Closed
    /\ cmd # Idle /\ cmd.op = "enable" /\ cmd.from = "secure" =>
         InSecure /\ Closed /\ cmd.at # "remove"

(***************************************************************************)
(* Types                                                                   *)
(***************************************************************************)

\* The path a command resolves, its target and what it loads have their types.
LEMMA Resolution ==
  ASSUME TypeOK, NEW given \in Given
  PROVE  /\ Resolved(given) \in {"", "yaml", "secure"}
         /\ Target(given) \in {"yaml", "secure"}
         /\ Loaded(Resolved(given)) \in Config
         /\ SecurePath(Target(given)) \in {"secure", "secure.secure"}
<1>1. Resolved(given) \in {"", "yaml", "secure"}
  BY GivenAssumption DEF Resolved
<1>2. Target(given) \in {"yaml", "secure"}
  BY <1>1 DEF Target
<1>3. Defaults \in Config
  BY BoundsAssumption DEF Defaults, Config
<1>4. \A p \in {"yaml", "secure"} : file[p].cfg \in Config
  BY DEF TypeOK, File, Paths
<1>5. QED
  BY <1>1, <1>2, <1>3, <1>4 DEF Loaded, SecurePath

\* A command that begins is a command.
LEMMA Begun ==
  ASSUME NEW op \in Commands, NEW path \in Paths, NEW from \in Paths, NEW c \in Config,
         NEW at \in {"chmod", "truncate", "write", "seal", "zero", "remove"},
         Begin(op, at, path, from, c)
  PROVE  cmd' \in Command
BY DEF Begin, Command

\* The stored configuration, the running command and the history keep their
\* types through every command, system call and kill (internal/config,
\* cmd/config.go, cmd/config_rotate_secret.go, cmd/secure.go).
THEOREM TypeCorrect == Spec => []TypeOK
<1> USE BoundsAssumption, ConfigAssumption, PrivilegedAssumption
<1>0. Defaults \in Config /\ Absent \in File
  BY DEF Defaults, Config, Absent, File
<1>1. Init => TypeOK
  <2>1. [kind |-> "plain", mode |-> 600, cfg |-> FirstConfig] \in File
    BY DEF File
  <2>2. Init => file \in [Paths -> File]
    BY <1>0, <2>1 DEF Init
  <2>3. Init => root \in BOOLEAN
    BY DEF Init
  <2>4. Init => secrets \in 0 .. MaxSecrets /\ crashes \in 0 .. MaxCrashes
    BY DEF Init
  <2>5. Init => since \in Since
    BY DEF Init, JustSet, Since
  <2>6. QED
    BY <2>2, <2>3, <2>4, <2>5 DEF Init, TypeOK
<1>2. TypeOK /\ [Next]_vars => TypeOK'
  <2> SUFFICES ASSUME TypeOK, [Next]_vars
               PROVE  TypeOK'
    OBVIOUS
  <2>1. ASSUME NEW given \in Given, ConfigInit(given) \/ ConfigCreate(given)
        PROVE  TypeOK'
    <3>1. [Defaults EXCEPT !.creds = TRUE] \in Config
      BY <1>0 DEF Config
    <3>2. Target(given) \in Paths
      BY Resolution DEF Paths
    <3>3. CASE ConfigInit(given)
      <4>1. cmd' \in Command
        BY <3>1, <3>2, <3>3, Begun DEF ConfigInit
      <4>2. QED
        BY <3>3, <4>1 DEF ConfigInit, TypeOK, rest, history
    <3>4. CASE ConfigCreate(given)
      <4>1. cmd' \in Command
        BY <1>0, <3>2, <3>4, Begun DEF ConfigCreate
      <4>2. QED
        BY <3>4, <4>1 DEF ConfigCreate, TypeOK, rest, history
    <3>5. QED
      BY <2>1, <3>3, <3>4
  <2>2. ASSUME NEW given \in Given, RotateSecret(given)
        PROVE  TypeOK'
    <3>1. secrets' \in 0 .. MaxSecrets
      <4>1. secrets < MaxSecrets /\ secrets' = secrets + 1
        BY <2>2 DEF RotateSecret
      <4>2. QED
        BY <4>1 DEF TypeOK
    <3>2. [Loaded(Resolved(given)) EXCEPT !.secret = secrets'] \in Config
      BY <3>1, Resolution DEF Config
    <3>3. cmd' \in Command
      BY <2>2, <3>2, Resolution DEF RotateSecret, Begin, Command, Paths
    <3>4. QED
      BY <2>2, <3>1, <3>3 DEF RotateSecret, TypeOK, rest, history
  <2>3. ASSUME NEW given \in Given, EnableSecure(given)
        PROVE  TypeOK'
    <3>1. cmd' \in Command
      BY <2>3, Resolution DEF EnableSecure, Begin, Command, Paths
    <3>2. QED
      BY <2>3, <3>1 DEF EnableSecure, TypeOK, rest, history
  <2>4. ASSUME cmd # Idle, NEW s \in {"truncate", "write", "seal", "zero", "remove"}
        PROVE  [cmd EXCEPT !.at = s] \in Command
    BY <2>4 DEF TypeOK, Command
  <2>5. cmd # Idle => cmd.path \in Paths /\ cmd.from \in Paths /\ cmd.cfg \in Config
    BY DEF TypeOK, Command
  <2>6. CASE Chmod
    BY <2>4, <2>5, <2>6 DEF Chmod, At, TypeOK, File, history, rest
  <2>7. CASE Truncate
    <3>1. file' \in [Paths -> File]
      BY <1>0, <2>5, <2>7 DEF Truncate, At, TypeOK, File
    <3>2. QED
      BY <2>4, <2>7, <3>1 DEF Truncate, At, TypeOK, history, rest
  <2>8. CASE Write
    <3>1. Sealed(cmd.cfg) \in Config
      BY <2>5, <2>8 DEF Write, At, Sealed, Config
    <3>2. file' \in [Paths -> File]
      BY <2>5, <2>8, <3>1 DEF Write, At, TypeOK, File
    <3>3. cmd' \in Command \cup {Idle}
      BY <2>4, <2>8 DEF Write, At
    <3>4. wanted' \in Config /\ since' \in Since /\ torn' \in BOOLEAN
      <4>1. /\ cmd.cfg \in Config /\ cmd.op \in Commands
            /\ wanted \in Config /\ since \in Since /\ torn \in BOOLEAN
        BY <2>5, <2>8 DEF Write, At, TypeOK, Command
      <4>2. /\ [wanted EXCEPT !.secret = cmd.cfg.secret] \in Config
            /\ [wanted EXCEPT !.creds = cmd.cfg.creds] \in Config
        BY <4>1 DEF Config
      <4>3. /\ Also(cmd.op) \in Since /\ JustSet \in Since
            /\ [Also(cmd.op) EXCEPT !.secret = {}] \in Since
        BY <4>1 DEF Also, JustSet, Since
      <4>4. Remember
        BY <2>8, Zenon DEF Write
      <4>5. QED
        BY <4>1, <4>2, <4>3, <4>4 DEF Remember
    <3>5. QED
      BY <2>8, <3>2, <3>3, <3>4 DEF Write, TypeOK, rest
  <2>9. CASE Seal
    <3>1. file' \in [Paths -> File]
      BY <2>5, <2>9 DEF Seal, At, TypeOK, File
    <3>2. cmd' \in Command \cup {Idle}
      BY <2>4, <2>9 DEF Seal, At
    <3>3. QED
      BY <2>9, <3>1, <3>2 DEF Seal, TypeOK, history, rest
  <2>10. CASE Zero
    BY <1>0, <2>4, <2>5, <2>10 DEF Zero, At, TypeOK, File, history, rest
  <2>11. CASE Remove
    BY <1>0, <2>5, <2>11 DEF Remove, At, TypeOK, history, rest
  <2>12. CASE Crash
    BY <2>12 DEF Crash, TypeOK
  <2>13. CASE UNCHANGED vars
    BY <2>13 DEF vars, TypeOK
  <2>14. QED
    BY <2>1, <2>2, <2>3, <2>6, <2>7, <2>8, <2>9, <2>10, <2>11, <2>12, <2>13 DEF Next
<1>3. QED
  BY <1>1, <1>2, PTL DEF Spec

\* Each step keeps the shape of the running command.
LEMMA ShapeStep ==
  ASSUME TypeOK, Shape, [Next]_vars
  PROVE  Shape'
<1> USE DEF Shape, Idle
<1>1. ASSUME NEW given \in Given,
             ConfigInit(given) \/ ConfigCreate(given) \/ RotateSecret(given) \/ EnableSecure(given)
      PROVE  Shape'
  <2>1. Resolved(given) \in {"", "yaml", "secure"} /\ Target(given) \in {"yaml", "secure"}
    BY Resolution
  <2>2. CASE ConfigInit(given)
    BY <2>1, <2>2 DEF ConfigInit, Begin
  <2>6. CASE ConfigCreate(given)
    BY <2>1, <2>6 DEF ConfigCreate, Begin
  <2>3. CASE RotateSecret(given)
    BY <2>1, <2>3 DEF RotateSecret, Begin
  <2>4. CASE EnableSecure(given)
    BY <2>1, <2>4 DEF EnableSecure, Begin
  <2>5. QED
    BY <1>1, <2>2, <2>3, <2>4, <2>6
<1>2. CASE Chmod \/ Truncate \/ Write \/ Seal \/ Zero \/ Remove
  BY <1>2 DEF Chmod, Truncate, Write, Seal, Zero, Remove, At, SecurePath, TypeOK, Command
<1>3. CASE Crash \/ UNCHANGED vars
  BY <1>3 DEF Crash, vars
<1>4. QED
  BY <1>1, <1>2, <1>3 DEF Next

(***************************************************************************)
(* Vaults                                                                  *)
(***************************************************************************)

\* Each step leaves a writable vault only where it is at work.
LEMMA SealingStep ==
  ASSUME TypeOK, Shape, Sealing, [Next]_vars
  PROVE  Sealing'
<1> USE DEF Sealing
<1>0. file \in [Paths -> File] /\ (cmd # Idle => cmd \in Command /\ cmd.path \in Paths)
  BY DEF TypeOK, Command
<1>1. ASSUME NEW given \in Given,
             ConfigInit(given) \/ ConfigCreate(given) \/ RotateSecret(given) \/ EnableSecure(given)
      PROVE  Sealing'
  <2>1. cmd = Idle /\ file' = file /\ crashes' = crashes
    BY ONLY <1>1, Zenon DEF ConfigInit, ConfigCreate, RotateSecret, EnableSecure, rest
  <2>2. QED
    BY ONLY <2>1, Sealing DEF Sealing
<1>2. CASE Chmod
  BY <1>0, <1>2 DEF Chmod, At, rest, File, Idle, Command
<1>3. CASE Truncate
  BY <1>0, <1>3 DEF Truncate, At, rest, File
<1>4. CASE Write
  BY <1>0, <1>4 DEF Write, At, rest, File, Idle, Command
<1>5. CASE Seal
  BY <1>0, <1>5 DEF Seal, At, rest, File
<1>6. CASE Zero
  BY <1>0, <1>6 DEF Zero, At, rest, File, Shape
<1>7. CASE Remove
  BY <1>0, <1>7 DEF Remove, At, rest, File, Absent, Shape
<1>8. CASE Crash
  BY <1>8 DEF Crash, TypeOK
<1>9. CASE UNCHANGED vars
  BY <1>9 DEF vars
<1>10. QED
  BY <1>1, <1>2, <1>3, <1>4, <1>5, <1>6, <1>7, <1>8, <1>9 DEF Next

\* The file a command resolves is the only one there.
LEMMA ResolvedAlone ==
  ASSUME Apart, cmd = Idle, crashes = 0, NEW given \in Given, Starts(given)
  PROVE  /\ Target(given) = "yaml" => ~Exists("secure")
         /\ Target(given) = "secure" => ~Exists("yaml")
         /\ Target(given) \in {"yaml", "secure"}
         /\ Resolved(given) # "" => Target(given) = Resolved(given)
<1>1. ~(Exists("yaml") /\ Exists("secure"))
  BY DEF Apart
<1>2. given \in {"", "yaml", "secure"}
  BY GivenAssumption
<1>3. given # "" => Exists(given)
  BY DEF Starts
<1>4. CASE given = ""
  BY <1>1, <1>4 DEF Resolved, Target
<1>5. CASE given # ""
  <2>1. Resolved(given) = given
    BY <1>5 DEF Resolved
  <2>2. QED
    BY <1>1, <1>2, <1>3, <1>5, <2>1 DEF Target
<1>6. QED
  BY <1>4, <1>5

\* A command that begins on the only file there leaves the two apart.
LEMMA BeginsApart ==
  ASSUME Apart, NEW op, NEW at, NEW path, NEW from, NEW c,
         Begin(op, at, path, from, c), UNCHANGED <<file, crashes>>, cmd = Idle,
         op # "enable" => path = from,
         crashes = 0 => /\ from = "yaml" => ~Exists("secure")
                        /\ from = "secure" => ~Exists("yaml")
  PROVE  Apart'
<1>1. cmd'.op = op /\ cmd'.path = path /\ cmd'.from = from
  BY DEF Begin
<1>2. file' = file /\ crashes' = crashes
  OBVIOUS
<1>3. crashes = 0 => ~(Exists("yaml") /\ Exists("secure"))
  BY DEF Apart
<1>4. QED
  BY <1>1, <1>2, <1>3 DEF Apart, Exists

\* Each step keeps config.yaml and config.secure apart.
LEMMA ApartStep ==
  ASSUME TypeOK, Shape, Apart, [Next]_vars
  PROVE  Apart'
<1>0. file \in [Paths -> File] /\ (cmd # Idle => cmd \in Command)
  BY DEF TypeOK
<1>1. ASSUME NEW given \in Given, Starts(given), cmd = Idle, NEW path \in {Target(given), Resolved(given)},
             path # "", NEW op, op # "enable", NEW at, NEW c, Begin(op, at, path, path, c),
             UNCHANGED <<file, crashes>>
      PROVE  Apart'
  BY <1>1, BeginsApart, ResolvedAlone DEF Exists
<1>2. ASSUME NEW given \in Given, ConfigInit(given) \/ ConfigCreate(given)
      PROVE  Apart'
  <2>1. Starts(given) /\ cmd = Idle /\ Target(given) # "" /\ UNCHANGED <<file, crashes>>
    BY <1>2 DEF ConfigInit, ConfigCreate, rest, Target
  <2>2. PICK op \in {"init", "create"} : \E c : Begin(op, "truncate", Target(given), Target(given), c)
    BY <1>2, Zenon DEF ConfigInit, ConfigCreate
  <2>3. PICK c : Begin(op, "truncate", Target(given), Target(given), c)
    BY <2>2
  <2>4. QED
    BY <1>1, <2>1, <2>3
<1>3. ASSUME NEW given \in Given, RotateSecret(given)
      PROVE  Apart'
  <2>1. Starts(given) /\ cmd = Idle /\ Resolved(given) # "" /\ UNCHANGED <<file, crashes>>
    BY <1>3 DEF RotateSecret, rest
  <2>2. PICK at, c : Begin("rotate", at, Resolved(given), Resolved(given), c)
    BY <1>3, Zenon DEF RotateSecret
  <2>3. QED
    BY <1>1, <2>1, <2>2
<1>4. ASSUME NEW given \in Given, EnableSecure(given)
      PROVE  Apart'
  <2>1. Starts(given) /\ cmd = Idle /\ UNCHANGED <<file, crashes>>
    BY <1>4 DEF EnableSecure, rest
  <2>2. Begin("enable", "chmod", SecurePath(Target(given)), Target(given), Loaded(Resolved(given)))
    BY <1>4, Zenon DEF EnableSecure
  <2>3. QED
    BY <2>1, <2>2, BeginsApart, ResolvedAlone DEF Exists
<1> USE DEF Apart, Exists
<1>5. CASE Chmod
  BY <1>0, <1>5 DEF Chmod, At, rest, File, Idle, Command, Shape, Paths, SecurePath
<1>6. CASE Truncate
  BY <1>0, <1>6 DEF Truncate, At, rest, File, Idle, Command, Shape, Paths, SecurePath
<1>7. CASE Write
  BY <1>0, <1>7 DEF Write, At, rest, File, Idle, Command, Shape, Paths, SecurePath
<1>8. CASE Seal
  <2>1. cmd # Idle /\ cmd.at = "seal"
    BY <1>8 DEF Seal, At
  <2>2. cmd.op \in {"init", "create", "rotate", "enable"}
    <3>1. cmd.op \in Commands
      BY ONLY <1>0, <2>1 DEF Command
    <3>2. QED
      BY ONLY <3>1, CommandsAssumption
  <2>3. cmd.path \in {"secure", "secure.secure"} /\ (cmd.op = "rotate" => cmd.from = "secure")
    BY <2>1, <2>2 DEF Shape, SecurePath
  <2>4. /\ \A p \in Paths : file'[p].kind = file[p].kind
        /\ file'["yaml"].mode = file["yaml"].mode
    BY <1>0, <1>8, <2>3 DEF Seal, Paths, File
  <2>5. CASE cmd.op = "enable" /\ Exists(cmd.from)
    <3>1. cmd' = [cmd EXCEPT !.at = "zero"]
      BY <1>8, <2>5 DEF Seal
    <3>2. cmd' # Idle /\ cmd'.op = "enable" /\ cmd'.from = cmd.from /\ cmd'.path = cmd.path
      BY <1>0, <2>1, <2>5, <3>1 DEF Command, Idle
    <3>3. QED
      BY <1>8, <2>1, <2>4, <2>5, <3>2 DEF Seal, rest, Paths
  <2>6. CASE ~(cmd.op = "enable" /\ Exists(cmd.from))
    <3>1. cmd' = Idle
      BY <1>8, <2>6 DEF Seal
    <3>2. ~(Exists("yaml") /\ Exists("secure")) \/ crashes # 0
      BY <2>1, <2>2, <2>3, <2>6, <1>0 DEF Shape, Paths
    <3>3. QED
      BY <1>8, <2>4, <3>1, <3>2 DEF Seal, rest, Paths
  <2>7. QED
    BY <2>5, <2>6
<1>9. CASE Zero
  BY <1>0, <1>9 DEF Zero, At, rest, File, Idle, Command, Shape, Paths, SecurePath, MayWrite
<1>10. CASE Remove
  BY <1>0, <1>10 DEF Remove, At, rest, File, Idle, Command, Shape, Paths, SecurePath, Absent
<1>11. CASE Crash
  BY <1>11 DEF Crash, TypeOK
<1>12. CASE UNCHANGED vars
  BY <1>12 DEF vars
<1> HIDE DEF Apart, Exists
<1>13. QED
  BY <1>2, <1>3, <1>4, <1>5, <1>6, <1>7, <1>8, <1>9, <1>10, <1>11, <1>12 DEF Next

(***************************************************************************)
(* Credentials                                                             *)
(***************************************************************************)

\* A rotation changes the secret only.
LEMMA SecretOnly ==
  \A c \in Config : \A n :
    /\ [c EXCEPT !.secret = n].creds = c.creds
    /\ [c EXCEPT !.secret = n].source = c.source
    /\ [c EXCEPT !.secret = n].timing = c.timing
    /\ [c EXCEPT !.secret = n].secret = n
BY DEF Config

\* Each step leaves the credentials with somebody, or was cut in two.
LEMMA SafeStep ==
  ASSUME TypeOK, Shape, Safe, [Next]_vars
  PROVE  Safe'
<1>0. /\ file \in [Paths -> File]
      /\ cmd # Idle => cmd \in Command /\ cmd.path \in Paths
                      /\ cmd.op \in {"init", "create", "rotate", "enable"}
  BY CommandsAssumption DEF TypeOK, Command
<1>1. ASSUME NEW given \in Given, ConfigInit(given) \/ ConfigCreate(given)
      PROVE  Safe'
  <2>1. /\ cmd = Idle /\ file' = file /\ wanted' = wanted /\ torn' = torn
        /\ cmd'.op \in {"init", "create"} /\ cmd'.at = "truncate"
    <3>1. CASE ConfigInit(given)
      BY <3>1 DEF ConfigInit, Begin, history
    <3>2. CASE ConfigCreate(given)
      BY <3>2 DEF ConfigCreate, Begin, history
    <3>3. QED
      BY <1>1, <3>1, <3>2
  <2>2. cmd' # Idle
    BY <2>1 DEF Idle
  <2>3. QED
    BY <2>1, <2>2 DEF Safe, HeldOutside, Holds
<1>2. ASSUME NEW given \in Given, RotateSecret(given)
      PROVE  Safe'
  <2> DEFINE path == Resolved(given)
  <2>1. /\ cmd = Idle /\ file' = file /\ wanted' = wanted /\ torn' = torn
        /\ cmd'.op = "rotate" /\ cmd'.path = path /\ path # ""
        /\ cmd'.at \in {"chmod", "truncate"}
    BY <1>2 DEF RotateSecret, Begin, history
  <2>2. cmd'.cfg.creds = Loaded(path).creds
    <3>1. cmd'.cfg = [Loaded(path) EXCEPT !.secret = secrets']
      BY <1>2 DEF RotateSecret, Begin
    <3>2. Loaded(path) \in Config
      BY Resolution
    <3>3. QED
      BY <3>1, <3>2, SecretOnly
  <2>3. cmd' # Idle
    <3>1. cmd'.op = "rotate"
      BY <2>1
    <3>2. QED
      BY <3>1 DEF Idle
  <2>4. SUFFICES ASSUME wanted.creds, ~torn
                 PROVE  HeldOutside({}) /\ (cmd'.cfg.creds \/ HeldOutside({path}))
    BY <2>1, <2>3 DEF Safe, HeldOutside, Holds
  <2>5. PICK p \in Paths : Holds(p)
    BY <2>1, <2>4 DEF Safe, HeldOutside
  <2>6. p = path => Loaded(path).creds
    BY <2>1, <2>5 DEF Loaded, Holds
  <2>7. QED
    BY <2>2, <2>5, <2>6 DEF HeldOutside
<1>3. ASSUME NEW given \in Given, EnableSecure(given)
      PROVE  Safe'
  <2> DEFINE path == SecurePath(Target(given))
             from == Target(given)
             c == Loaded(Resolved(given))
  <2>1. /\ cmd = Idle /\ file' = file /\ wanted' = wanted /\ torn' = torn
        /\ cmd'.op = "enable" /\ cmd'.path = path /\ cmd'.from = from
        /\ cmd'.at = "chmod" /\ cmd'.cfg = c
        /\ ~Exists(path)
    BY <1>3 DEF EnableSecure, Begin, history
  <2>2. cmd' # Idle
    BY <2>1 DEF Idle
  <2>3. SUFFICES ASSUME wanted.creds, ~torn
                 PROVE  HeldOutside({path}) /\ (c.creds \/ HeldOutside({path, from}))
    BY <2>1, <2>2 DEF Safe, HeldOutside, Holds
  <2>4. PICK p \in Paths : Holds(p)
    BY <2>1, <2>3 DEF Safe, HeldOutside
  <2>5. p # path
    BY <2>1, <2>4 DEF Holds, Exists
  <2>6. p = from => c.creds
    <3>1. CASE Resolved(given) = ""
      <4>1. from = "yaml" /\ ~Exists("yaml")
        BY <3>1 DEF Target, Resolved
      <4>2. QED
        BY <2>4, <4>1 DEF Holds, Exists
    <3>2. CASE Resolved(given) # ""
      BY <2>4, <3>2 DEF Loaded, Target, Holds
    <3>3. QED
      BY <3>1, <3>2
  <2>7. QED
    BY <2>4, <2>5, <2>6 DEF HeldOutside
<1>4. CASE Chmod
  <2>1. cmd # Idle /\ cmd.at = "chmod" /\ cmd \in Command
    BY <1>0, <1>4 DEF Chmod, At
  <2>2. /\ cmd' # Idle /\ cmd'.op = cmd.op /\ cmd'.at = "truncate" /\ cmd'.cfg = cmd.cfg
        /\ cmd'.path = cmd.path /\ cmd'.from = cmd.from
    BY <1>4, <2>1 DEF Chmod, Command, Idle
  <2>3. \A p \in Paths : file'[p].kind = file[p].kind /\ file'[p].cfg = file[p].cfg
    BY <1>0, <1>4 DEF Chmod, At, File
  <2>4. \A ps : HeldOutside(ps) => HeldOutside(ps)'
    BY <2>3 DEF HeldOutside, Holds
  <2>5. wanted' = wanted /\ torn' = torn
    BY <1>4 DEF Chmod, history
  <2>6. QED
    BY <2>1, <2>2, <2>3, <2>5 DEF Safe, HeldOutside, Holds
<1>5. CASE Truncate
  <2>1. cmd # Idle /\ cmd.at = "truncate" /\ cmd \in Command /\ cmd.path \in Paths
    BY <1>0, <1>5 DEF Truncate, At
  <2>2. /\ cmd' # Idle /\ cmd'.op = cmd.op /\ cmd'.at = "write" /\ cmd'.cfg = cmd.cfg
        /\ cmd'.path = cmd.path /\ cmd'.from = cmd.from
    BY <1>5, <2>1 DEF Truncate, Command, Idle
  <2>3. \A p \in Paths \ {cmd.path} : file'[p] = file[p]
    BY <1>0, <1>5, <2>1 DEF Truncate
  <2>4. \A ps : cmd.path \in ps /\ HeldOutside(ps) => \E p \in Paths \ ps : Holds(p)'
    BY <2>3 DEF HeldOutside, Holds
  <2>5. wanted' = wanted /\ torn' = torn
    BY <1>5 DEF Truncate, history
  <2>6. QED
    BY <2>1, <2>2, <2>4, <2>5 DEF Safe, HeldOutside
<1>6. CASE Write
  <2>1. /\ cmd # Idle /\ cmd.at = "write" /\ cmd \in Command /\ cmd.path \in Paths
        /\ cmd.op \in {"init", "create", "rotate", "enable"}
    BY <1>0, <1>6 DEF Write, At
  <2>2. /\ \A p \in Paths \ {cmd.path} : file'[p] = file[p]
        /\ cmd.cfg.creds => \A p \in Paths : p = cmd.path => Holds(p)'
    <3>1. file'[cmd.path].kind \in {"plain", "vault"} /\ file'[cmd.path].cfg \in {cmd.cfg, Sealed(cmd.cfg)}
      BY <1>0, <1>6, <2>1 DEF Write, File
    <3>2. Sealed(cmd.cfg).creds = cmd.cfg.creds
      BY <2>1 DEF Sealed, Command, Config
    <3>3. \A p \in Paths \ {cmd.path} : file'[p] = file[p]
      BY <1>0, <1>6, <2>1 DEF Write
    <3>4. QED
      BY <3>1, <3>2, <3>3 DEF Holds
  <2>3. \A ps : cmd.path \in ps /\ HeldOutside(ps) => \E p \in Paths \ ps : Holds(p)'
    BY <2>2 DEF HeldOutside, Holds
  <2>4. CASE cmd.op \in {"init", "create"}
    <3>1. cmd' = Idle /\ wanted'.creds = cmd.cfg.creds
      BY <1>6, <2>4 DEF Write, Remember, TypeOK, Config
    <3>2. wanted'.creds => \E p \in Paths : Holds(p)'
      BY <2>1, <2>2, <3>1
    <3>3. QED
      BY <3>1, <3>2 DEF Safe, HeldOutside
  <2>5. CASE cmd.op = "rotate"
    <3>1. wanted' = [wanted EXCEPT !.secret = cmd.cfg.secret] /\ torn' = torn
      BY <1>6, <2>5 DEF Write, Remember
    <3>2. wanted'.creds = wanted.creds
      BY <3>1 DEF TypeOK, Config
    <3>3. cmd' = Idle \/ (cmd' # Idle /\ cmd'.op = "rotate" /\ cmd'.at = "seal")
      BY <1>6, <2>1, <2>5 DEF Write, Command, Idle
    <3>4. wanted.creds /\ ~torn => cmd.cfg.creds \/ HeldOutside({cmd.path})
      BY <2>1, <2>5 DEF Safe
    <3>5. wanted.creds /\ ~torn => \E p \in Paths : Holds(p)'
      BY <2>1, <2>2, <2>3, <3>4
    <3>6. QED
      BY <3>1, <3>2, <3>3, <3>5 DEF Safe, HeldOutside
  <2>6. CASE cmd.op = "enable"
    <3>1. wanted' = wanted /\ torn' = torn
      BY <1>6, <2>6 DEF Write, Remember, history
    <3>2. cmd.path # "yaml" /\ cmd.path # cmd.from
      BY <2>1, <2>6 DEF Shape, SecurePath
    <3>3. /\ cmd' # Idle /\ cmd'.op = "enable" /\ cmd'.at = "seal" /\ cmd'.from = cmd.from
      BY <1>6, <2>1, <2>6, <3>2 DEF Write, Command, Idle
    <3>4. wanted.creds /\ ~torn => cmd.cfg.creds \/ HeldOutside({cmd.path, cmd.from})
      BY <2>1, <2>6 DEF Safe
    <3>5. wanted.creds /\ ~torn => \E p \in Paths \ {cmd.from} : Holds(p)'
      BY <2>1, <2>2, <2>3, <3>2, <3>4
    <3>6. QED
      BY <3>1, <3>3, <3>5 DEF Safe, HeldOutside
  <2>7. QED
    BY <2>1, <2>4, <2>5, <2>6
<1>7. CASE Seal
  <2>1. cmd # Idle /\ cmd.at = "seal" /\ cmd \in Command
    BY <1>0, <1>7 DEF Seal, At
  <2>2. \/ cmd' = Idle
        \/ cmd' # Idle /\ cmd.op = "enable" /\ cmd'.op = "enable" /\ cmd'.at = "zero" /\ cmd'.from = cmd.from
    BY <1>7, <2>1 DEF Seal, Command, Idle
  <2>3. \A p \in Paths : file'[p].kind = file[p].kind /\ file'[p].cfg = file[p].cfg
    BY <1>0, <1>7 DEF Seal, At, File
  <2>4. \A ps : HeldOutside(ps) => \E p \in Paths \ ps : Holds(p)'
    BY <2>3 DEF HeldOutside, Holds
  <2>5. wanted' = wanted /\ torn' = torn
    BY <1>7 DEF Seal, history
  <2>6. wanted.creds /\ ~torn => HeldOutside(IF cmd.op = "enable" THEN {cmd.from} ELSE {})
    BY <2>1 DEF Safe
  <2>7. QED
    BY <2>2, <2>4, <2>5, <2>6 DEF Safe, HeldOutside
<1>8. CASE Zero \/ Remove
  <2>1. cmd # Idle /\ cmd.at \in {"zero", "remove"} /\ cmd \in Command /\ cmd.op = "enable"
    BY <1>0, <1>8 DEF Zero, Remove, At, Shape
  <2>2. \/ cmd' = Idle
        \/ cmd' # Idle /\ cmd'.op = "enable" /\ cmd'.at = "remove" /\ cmd'.from = cmd.from
    BY <1>8, <2>1 DEF Zero, Remove, At, Command, Idle
  <2>3. \A p \in Paths \ {cmd.from} : file'[p] = file[p]
    BY <1>0, <1>8 DEF Zero, Remove
  <2>4. HeldOutside({cmd.from}) => \E p \in Paths \ {cmd.from} : Holds(p)'
    BY <2>3 DEF HeldOutside, Holds
  <2>5. wanted' = wanted /\ torn' = torn
    BY <1>8 DEF Zero, Remove, history
  <2>6. wanted.creds /\ ~torn => HeldOutside({cmd.from})
    BY <2>1 DEF Safe
  <2>7. QED
    BY <2>2, <2>4, <2>5, <2>6 DEF Safe, HeldOutside
<1>9. CASE Crash
  <2>1. /\ cmd # Idle /\ cmd' = Idle /\ file' = file /\ wanted' = wanted
        /\ ~torn' => ~torn /\ (cmd.at # "write" \/ cmd.op = "enable")
    BY <1>9 DEF Crash
  <2>2. wanted.creds /\ ~torn' => \E p \in Paths : Holds(p)
    BY <1>0, <2>1 DEF Safe, HeldOutside
  <2>3. QED
    BY <2>1, <2>2 DEF Safe, HeldOutside, Holds
<1>10. CASE UNCHANGED vars
  BY <1>10 DEF vars, Safe, HeldOutside, Holds
<1>11. QED
  BY <1>1, <1>2, <1>3, <1>4, <1>5, <1>6, <1>7, <1>8, <1>9, <1>10 DEF Next

(***************************************************************************)
(* Settings                                                                *)
(***************************************************************************)

\* Of the two paths an ordinary user's command finds the one that is in use.
LEMMA InUse ==
  ASSUME NEW given \in Given, Starts(given), InYaml \/ InSecure
  PROVE  /\ InYaml => Resolved(given) = "yaml"
         /\ InSecure => Resolved(given) = "secure"
         /\ Resolved(given) \in {"yaml", "secure"} /\ Target(given) = Resolved(given)
         /\ Loaded(Resolved(given)) = file[Resolved(given)].cfg
         /\ Agrees(Loaded(Resolved(given)), wanted, since)
<1>1. \/ Resolved(given) = "yaml" /\ InYaml
      \/ Resolved(given) = "secure" /\ InSecure
  <2>1. given \in {"", "yaml", "secure"}
    BY GivenAssumption
  <2>2. CASE InYaml
    <3>1. Exists("yaml") /\ ~Exists("secure")
      BY <2>2 DEF InYaml, Plain, Exists
    <3>2. given # "secure"
      BY <3>1 DEF Starts
    <3>3. QED
      BY <2>1, <2>2, <3>1, <3>2 DEF Resolved
  <2>3. CASE InSecure
    <3>1. Exists("secure") /\ ~Exists("yaml")
      BY <2>3 DEF InSecure, Vault, Exists
    <3>2. given # "yaml"
      BY <3>1 DEF Starts
    <3>3. QED
      BY <2>1, <2>3, <3>1, <3>2 DEF Resolved
  <2>4. QED
    BY <2>2, <2>3
<1>2. file[Resolved(given)].kind # "torn" /\ Agrees(file[Resolved(given)].cfg, wanted, since)
  BY <1>1 DEF InYaml, InSecure, Plain, Vault
<1>3. ~(InYaml /\ InSecure)
  BY DEF InYaml, InSecure, Plain, Vault, Exists
<1>4. QED
  BY <1>1, <1>2, <1>3 DEF Target, Loaded

\* What agrees still does so when one more command has ended, and without the
\* timing once a migration has.
LEMMA StillAgrees ==
  ASSUME NEW c \in Config, NEW d, NEW op, Agrees(c, d, since)
  PROVE  /\ Agrees(c, d, Also(op))
         /\ Agrees(Sealed(c), d, Also("enable"))
         /\ "enable" \in since.timing => Agrees(Sealed(c), d, Also(op))
<1>1. /\ Sealed(c).creds = c.creds /\ Sealed(c).source = c.source /\ Sealed(c).secret = c.secret
  BY DEF Sealed, Config
<1>2. QED
  BY <1>1 DEF Agrees, Also

\* Each step of an ordinary user's command that is not killed stays on course.
LEMMA CourseStep ==
  ASSUME TypeOK, Shape, Apart, Course, [Next]_vars
  PROVE  Course'
<1>0. SUFFICES ASSUME crashes' = 0, ~root'
               PROVE  Course'
  BY DEF Course
<1>1. crashes = 0 /\ ~root
  <2>1. ASSUME NEW given \in Given,
               ConfigInit(given) \/ ConfigCreate(given) \/ RotateSecret(given) \/ EnableSecure(given)
        PROVE  crashes' = crashes /\ root' = root
    BY <2>1 DEF ConfigInit, ConfigCreate, RotateSecret, EnableSecure, rest
  <2>2. ASSUME Chmod \/ Truncate \/ Write \/ Seal
        PROVE  crashes' = crashes /\ root' = root
    BY <2>2 DEF Chmod, Truncate, Write, Seal, rest
  <2>3. Zero => crashes' = crashes /\ root' = root
    BY DEF Zero, rest
  <2>4. Remove => crashes' = crashes /\ root' = root
    BY DEF Remove, rest
  <2>5. ~Crash
    <3>1. Crash => crashes \in Nat /\ crashes' = crashes + 1
      BY BoundsAssumption DEF Crash, TypeOK
    <3>2. QED
      BY <1>0, <3>1
  <2>6. UNCHANGED vars => crashes' = crashes /\ root' = root
    BY DEF vars
  <2>7. crashes' = crashes /\ root' = root
    BY <2>1, <2>2, <2>3, <2>4, <2>5, <2>6, Zenon DEF Next
  <2>8. QED
    BY <1>0, <2>7
<1>2. /\ file \in [Paths -> File] /\ wanted \in Config /\ since \in Since
      /\ cmd # Idle => cmd \in Command /\ cmd.path \in Paths /\ cmd.from \in Paths
                      /\ cmd.op \in {"init", "create", "rotate", "enable"}
                      /\ cmd.cfg \in Config
  BY CommandsAssumption DEF TypeOK, Command
<1>3. ASSUME NEW given \in Given, ConfigInit(given) \/ ConfigCreate(given)
      PROVE  Course'
  <2>1. /\ cmd = Idle /\ Starts(given) /\ MayWrite(Target(given))
        /\ file' = file
        /\ cmd'.op \in {"init", "create"} /\ cmd'.path = Target(given)
    <3>1. CASE ConfigInit(given)
      BY <3>1 DEF ConfigInit, Begin
    <3>2. CASE ConfigCreate(given)
      BY <3>2 DEF ConfigCreate, Begin
    <3>3. QED
      BY <1>3, <3>1, <3>2
  <2>2. InYaml \/ (InSecure /\ Closed)
    BY <1>1, <2>1 DEF Course
  <2>3. ~InSecure
    <3>1. InSecure => Target(given) = "secure"
      BY <2>1, <2>2, InUse
    <3>2. QED
      BY <1>1, <2>1, <2>2, <3>1 DEF MayWrite, Closed, InSecure, InYaml, Vault, Plain, Exists
  <2>4. Target(given) = "yaml" /\ ~Exists("secure")
    BY <2>1, <2>2, <2>3, InUse DEF InYaml
  <2>5. cmd'.op # "none" /\ cmd'.op # "rotate" /\ cmd'.op # "enable" /\ cmd' # Idle
    BY <2>1 DEF Idle
  <2>6. ~Exists("secure")'
    BY <2>1, <2>4 DEF Exists
  <2>7. QED
    BY <2>1, <2>4, <2>5, <2>6 DEF Course
<1>4. ASSUME NEW given \in Given, RotateSecret(given)
      PROVE  Course'
  <2> DEFINE path == Resolved(given)
  <2>1. cmd = Idle /\ Starts(given) /\ file' = file /\ wanted' = wanted /\ since' = since
    BY <1>4 DEF RotateSecret, history
  <2>2. /\ cmd'.op = "rotate" /\ cmd'.path = path /\ cmd'.at \in {"chmod", "truncate"}
        /\ cmd'.cfg = [Loaded(path) EXCEPT !.secret = secrets']
    BY <1>4 DEF RotateSecret, Begin
  <2>3. InYaml \/ (InSecure /\ Closed)
    BY <1>1, <2>1 DEF Course
  <2>4. /\ path \in {"yaml", "secure"} /\ Agrees(Loaded(path), wanted, since)
        /\ path = "yaml" => ~Exists("secure")
        /\ path = "secure" => ~Exists("yaml") /\ "enable" \in since.timing
    BY <2>1, <2>3, InUse DEF InYaml, InSecure, Vault
  <2>5. Agrees(cmd'.cfg, [wanted EXCEPT !.secret = cmd'.cfg.secret], since)
    <3>1. Loaded(path) \in Config
      BY Resolution
    <3>2. QED
      BY <1>2, <2>2, <2>4, <3>1, SecretOnly DEF Agrees
  <2>6. cmd' # Idle /\ cmd'.op = "rotate" /\ cmd'.at # "seal"
    <3>1. cmd'.op = "rotate"
      BY <2>2
    <3>2. cmd'.at # "seal"
      BY <2>2
    <3>3. QED
      BY <3>1, <3>2 DEF Idle
  <2>7. QED
    BY <2>1, <2>2, <2>4, <2>5, <2>6 DEF Course, Exists
<1>5. ASSUME NEW given \in Given, EnableSecure(given)
      PROVE  Course'
  <2> DEFINE path == Resolved(given)
  <2>1. cmd = Idle /\ Starts(given) /\ file' = file /\ wanted' = wanted /\ since' = since
    BY <1>5 DEF EnableSecure, history
  <2>2. InYaml \/ (InSecure /\ Closed)
    BY <1>1, <2>1 DEF Course
  <2>3. /\ path \in {"yaml", "secure"} /\ Target(given) = path
        /\ Agrees(Loaded(path), wanted, since)
        /\ path = "yaml" => InYaml
        /\ path = "secure" => InSecure /\ Closed
    BY <2>1, <2>2, InUse
  <2>4. cmd'.op = "enable" /\ cmd'.from = path /\ cmd'.at = "chmod" /\ cmd'.cfg = Loaded(path)
    BY <1>5, <2>3 DEF EnableSecure, Begin
  <2>5. cmd' # Idle /\ cmd'.op = "enable"
    <3>1. cmd'.op = "enable"
      BY <2>4
    <3>2. QED
      BY <3>1 DEF Idle
  <2>6. /\ InYaml => Plain("yaml")'
        /\ InSecure => InSecure'
        /\ Closed => Closed'
        /\ Agrees(cmd'.cfg, wanted', since')
    BY <2>1, <2>3, <2>4 DEF InYaml, InSecure, Closed, Plain, Vault, Exists
  <2>7. QED
    BY <2>3, <2>4, <2>5, <2>6 DEF Course
<1>6. CASE Chmod \/ Truncate
  <2>1. cmd # Idle /\ cmd \in Command /\ cmd.at \in {"chmod", "truncate"}
    BY <1>2, <1>6 DEF Chmod, Truncate, At
  <2>2. /\ cmd' # Idle /\ cmd'.at \in {"truncate", "write"}
        /\ cmd'.op = cmd.op /\ cmd'.path = cmd.path /\ cmd'.from = cmd.from /\ cmd'.cfg = cmd.cfg
    BY <1>6, <2>1 DEF Chmod, Truncate, Command, Idle
  <2>3. wanted' = wanted /\ since' = since /\ \A p \in Paths \ {cmd.path} : file'[p] = file[p]
    BY <1>2, <1>6 DEF Chmod, Truncate, history
  <2>4. CASE cmd.op \in {"init", "create"}
    BY <1>1, <2>1, <2>2, <2>3, <2>4 DEF Course, Exists, Paths
  <2>5. CASE cmd.op = "rotate"
    BY <1>1, <2>1, <2>2, <2>3, <2>5 DEF Course, Shape, Exists, Paths
  <2>6. CASE cmd.op = "enable" /\ cmd.from = "yaml"
    <3>1. cmd.path = "secure" /\ Plain("yaml") /\ Agrees(cmd.cfg, wanted, since)
      BY <1>1, <2>1, <2>6 DEF Course, Shape, SecurePath
    <3>2. Plain("yaml")'
      BY <2>3, <3>1 DEF Plain, Paths
    <3>3. QED
      BY <2>2, <2>3, <2>6, <3>1, <3>2 DEF Course
  <2>7. CASE cmd.op = "enable" /\ cmd.from = "secure"
    <3>1. cmd.path = "secure.secure" /\ InSecure /\ Closed
      BY <1>1, <2>1, <2>7 DEF Course, Shape, SecurePath
    <3>2. InSecure' /\ Closed'
      BY <2>3, <3>1 DEF InSecure, Closed, Vault, Exists, Paths
    <3>3. QED
      BY <2>2, <2>7, <3>2 DEF Course
  <2>8. QED
    BY <1>2, <2>1, <2>4, <2>5, <2>6, <2>7 DEF Shape
<1>7. CASE Write
  <2>1. cmd # Idle /\ cmd \in Command /\ cmd.at = "write"
    BY <1>2, <1>7 DEF Write, At
  <2>2. \A p \in Paths \ {cmd.path} : file'[p] = file[p]
    BY <1>2, <1>7 DEF Write
  <2>3. cmd.op \in {"init", "create", "rotate"} /\ cmd.path = "yaml"
        => /\ cmd' = Idle
           /\ file'["yaml"].kind = "plain" /\ file'["yaml"].cfg = cmd.cfg /\ file'["yaml"].mode = 600
    BY <1>2, <1>7, <2>1 DEF Write, Apart, Paths, File
  <2>4. cmd.op \in {"rotate", "enable"} /\ cmd.path # "yaml"
        => /\ cmd' # Idle /\ cmd'.at = "seal"
           /\ cmd'.op = cmd.op /\ cmd'.path = cmd.path /\ cmd'.from = cmd.from /\ cmd'.cfg = cmd.cfg
           /\ file'[cmd.path].kind = "vault" /\ file'[cmd.path].cfg = Sealed(cmd.cfg)
    BY <1>2, <1>7, <2>1 DEF Write, File, Command, Idle
  <2>5. cmd.cfg \in Config /\ Remember
    BY <1>2, <1>7, <2>1, Zenon DEF Write
  <2>6. CASE cmd.op \in {"init", "create"}
    <3>1. Agrees(cmd.cfg, wanted', since')
      <4>1. CASE cmd.op = "create"
        BY <2>5, <4>1 DEF Remember, Agrees
      <4>2. CASE cmd.op = "init"
        <5>1. wanted' = [wanted EXCEPT !.creds = cmd.cfg.creds] /\ since' = Also("init")
          BY <2>5, <4>2 DEF Remember
        <5>2. QED
          BY <1>2, <5>1 DEF Agrees, Also, Config
      <4>3. QED
        BY <2>6, <4>1, <4>2
    <3>2. cmd.path = "yaml" /\ ~Exists("secure")
      BY <1>1, <2>1, <2>6 DEF Course
    <3>3. InYaml'
      BY <2>2, <2>3, <2>6, <3>1, <3>2 DEF InYaml, Plain, Exists, Paths
    <3>4. QED
      BY <2>3, <2>6, <3>2, <3>3 DEF Course
  <2>7. CASE cmd.op = "rotate"
    <3>1. /\ wanted' = [wanted EXCEPT !.secret = cmd.cfg.secret]
          /\ since' = [Also("rotate") EXCEPT !.secret = {}]
      BY <2>5, <2>7 DEF Remember
    <3>0. /\ since'.source = since.source \cup {"rotate"}
          /\ since'.timing = since.timing \cup {"rotate"}
          /\ since'.secret = {}
      BY <3>1 DEF Also
    <3>2. /\ Agrees(cmd.cfg, wanted', since') /\ wanted' = [wanted' EXCEPT !.secret = cmd.cfg.secret]
          /\ "enable" \in since.timing =>
               "enable" \in since'.timing /\ Agrees(Sealed(cmd.cfg), wanted', since')
      <4>1. Agrees(cmd.cfg, wanted', since)
        BY <1>1, <2>1, <2>7, <3>1 DEF Course
      <4>2. cmd.cfg.secret = wanted'.secret /\ wanted' = [wanted' EXCEPT !.secret = cmd.cfg.secret]
        BY <1>2, <2>1, <3>1 DEF Config
      <4>3. Agrees(cmd.cfg, wanted', since')
        BY <3>0, <4>1, <4>2 DEF Agrees
      <4>4. /\ Sealed(cmd.cfg).creds = cmd.cfg.creds /\ Sealed(cmd.cfg).source = cmd.cfg.source
            /\ Sealed(cmd.cfg).secret = cmd.cfg.secret
        BY <2>5 DEF Sealed, Config
      <4>5. "enable" \in since.timing => "enable" \in since'.timing
        BY <3>0
      <4>6. QED
        BY <4>2, <4>3, <4>4, <4>5 DEF Agrees
    <3>3. CASE cmd.path = "yaml"
      <4>1. InYaml'
        BY <1>1, <2>1, <2>2, <2>3, <2>7, <3>2, <3>3 DEF Course, InYaml, Plain, Exists, Paths
      <4>2. QED
        BY <2>3, <2>7, <3>3, <4>1 DEF Course
    <3>4. CASE cmd.path = "secure"
      <4>1. InSecure'
        BY <1>1, <2>1, <2>2, <2>4, <2>7, <3>2, <3>4 DEF Course, InSecure, Vault, Exists, Paths
      <4>2. QED
        BY <2>4, <2>7, <3>2, <3>4, <4>1 DEF Course, InSecure, Vault
    <3>5. QED
      BY <2>1, <2>7, <3>3, <3>4 DEF Shape
  <2>8. CASE cmd.op = "enable" /\ cmd.from = "yaml"
    <3>1. /\ cmd.path = "secure" /\ Plain("yaml") /\ Agrees(cmd.cfg, wanted, since)
          /\ wanted' = wanted /\ since' = Also("enable")
      BY <1>1, <2>1, <2>5, <2>8 DEF Course, Shape, SecurePath, Remember
    <3>2. /\ Agrees(cmd.cfg, wanted', since') /\ Agrees(Sealed(cmd.cfg), wanted', since')
          /\ "enable" \in since'.timing
      BY <2>5, <3>1, StillAgrees DEF Also
    <3>3. Plain("yaml")'
      <4>1. file["yaml"].cfg \in Config
        BY <1>2 DEF File, Paths
      <4>2. Agrees(file["yaml"].cfg, wanted, Also("enable"))
        BY <3>1, <4>1, StillAgrees DEF Plain
      <4>3. QED
        BY <2>2, <3>1, <4>2 DEF Plain, Paths
    <3>4. Vault("secure")'
      BY <2>4, <2>8, <3>1, <3>2 DEF Vault
    <3>5. /\ cmd' # Idle /\ cmd'.op = "enable" /\ cmd'.from = "yaml" /\ cmd'.at = "seal"
          /\ cmd'.cfg = cmd.cfg
      BY <2>4, <2>8, <3>1
    <3>6. Agrees(cmd.cfg, wanted, since)'
      BY <3>2, <3>5 DEF Agrees
    <3>7. QED
      BY <3>3, <3>4, <3>5, <3>6 DEF Course
  <2>9. CASE cmd.op = "enable" /\ cmd.from = "secure"
    <3>1. /\ cmd.path = "secure.secure" /\ InSecure /\ Closed
          /\ wanted' = wanted /\ since' = Also("enable")
      BY <1>1, <2>1, <2>5, <2>9 DEF Course, Shape, SecurePath, Remember
    <3>2. InSecure' /\ Closed'
      <4>1. file["secure"].cfg \in Config
        BY <1>2 DEF File, Paths
      <4>2. Agrees(file["secure"].cfg, wanted', since') /\ "enable" \in since'.timing
        BY <3>1, <4>1, StillAgrees DEF InSecure, Vault, Also
      <4>3. QED
        BY <2>2, <3>1, <4>2 DEF InSecure, Closed, Vault, Exists, Paths
    <3>3. QED
      BY <2>4, <2>9, <3>1, <3>2 DEF Course
  <2>10. QED
    BY <1>2, <2>1, <2>6, <2>7, <2>8, <2>9 DEF Shape
<1>8. CASE Seal
  <2>1. cmd # Idle /\ cmd \in Command /\ cmd.at = "seal" /\ cmd.op \in {"rotate", "enable"}
    BY <1>2, <1>8 DEF Seal, At, Shape
  <2>2. /\ wanted' = wanted /\ since' = since
        /\ \A p \in Paths : file'[p].kind = file[p].kind /\ file'[p].cfg = file[p].cfg
        /\ \A p \in Paths \ {cmd.path} : file'[p].mode = file[p].mode
        /\ file'[cmd.path].mode = 400
    BY <1>2, <1>8, <2>1 DEF Seal, File, history
  <2>3. IF cmd.op = "enable" /\ Exists(cmd.from)
        THEN cmd' # Idle /\ cmd'.op = "enable" /\ cmd'.at = "zero" /\ cmd'.from = cmd.from /\ cmd'.cfg = cmd.cfg
        ELSE cmd' = Idle
    <3>1. CASE cmd.op = "enable" /\ Exists(cmd.from)
      BY <1>8, <2>1, <3>1 DEF Seal, Command, Idle
    <3>2. CASE ~(cmd.op = "enable" /\ Exists(cmd.from))
      BY <1>8, <3>2 DEF Seal
    <3>3. QED
      BY <3>1, <3>2
  <2>4. CASE cmd.op = "rotate"
    <3>1. cmd.path = "secure" /\ Vault("secure") /\ ~Exists("yaml")
      BY <1>1, <2>1, <2>4 DEF Course, Shape
    <3>2. InSecure' /\ Closed'
      BY <2>2, <3>1 DEF InSecure, Closed, Vault, Exists, Paths
    <3>3. QED
      BY <2>3, <2>4, <3>2 DEF Course
  <2>5. CASE cmd.op = "enable" /\ cmd.from = "yaml"
    <3>1. cmd.path = "secure" /\ Plain("yaml") /\ Vault("secure") /\ Agrees(cmd.cfg, wanted, since)
      BY <1>1, <2>1, <2>5 DEF Course, Shape, SecurePath
    <3>2. Plain("yaml")' /\ Vault("secure")' /\ Closed'
      BY <2>2, <3>1 DEF Plain, Vault, Closed, Paths
    <3>3. Exists("yaml")
      BY <3>1 DEF Plain, Exists
    <3>4. QED
      BY <2>2, <2>3, <2>5, <3>1, <3>2, <3>3 DEF Course
  <2>6. CASE cmd.op = "enable" /\ cmd.from = "secure"
    <3>1. cmd.path = "secure.secure" /\ InSecure /\ Closed
      BY <1>1, <2>1, <2>6 DEF Course, Shape, SecurePath
    <3>2. InSecure' /\ Closed'
      BY <2>2, <3>1 DEF InSecure, Closed, Vault, Exists, Paths
    <3>3. QED
      BY <2>3, <2>6, <3>2 DEF Course
  <2>7. QED
    BY <2>1, <2>4, <2>5, <2>6 DEF Shape
<1>9. CASE Zero
  <2>1. cmd # Idle /\ cmd \in Command /\ cmd.at = "zero" /\ cmd.op = "enable"
    BY <1>2, <1>9 DEF Zero, At, Shape
  <2>2. CASE cmd.from = "yaml"
    <3>1. /\ cmd.path = "secure" /\ Plain("yaml") /\ Vault("secure") /\ Closed
          /\ Agrees(cmd.cfg, wanted, since)
      BY <1>1, <2>1, <2>2 DEF Course, Shape, SecurePath
    <3>2. MayWrite("yaml")
      BY <3>1 DEF MayWrite, Plain
    <3>3. cmd' = [cmd EXCEPT !.at = "remove"] /\ wanted' = wanted /\ since' = since
      BY <1>9, <2>2, <3>2 DEF Zero, history
    <3>4. cmd' # Idle /\ cmd'.op = "enable" /\ cmd'.at = "remove" /\ cmd'.from = "yaml" /\ cmd'.cfg = cmd.cfg
      BY <2>1, <2>2, <3>3 DEF Command, Idle
    <3>5. file'["secure"] = file["secure"]
      BY <1>2, <1>9, <2>2, <3>2 DEF Zero, Paths
    <3>6. Vault("secure")' /\ Closed'
      BY <3>1, <3>3, <3>5 DEF Vault, Closed
    <3>7. QED
      BY <3>1, <3>3, <3>4, <3>6 DEF Course
  <2>3. CASE cmd.from = "secure"
    <3>1. InSecure /\ Closed
      BY <1>1, <2>1, <2>3 DEF Course
    <3>2. ~MayWrite("secure")
      BY <1>1, <3>1 DEF MayWrite, InSecure, Closed, Vault, Exists
    <3>3. cmd' = Idle /\ file' = file /\ wanted' = wanted /\ since' = since
      BY <1>9, <2>3, <3>2 DEF Zero, history
    <3>4. InSecure' /\ Closed'
      BY <3>1, <3>3 DEF InSecure, Closed, Vault, Exists
    <3>5. QED
      BY <3>3, <3>4 DEF Course
  <2>4. QED
    BY <2>1, <2>2, <2>3 DEF Shape
<1>10. CASE Remove
  <2>1. cmd # Idle /\ cmd \in Command /\ cmd.at = "remove" /\ cmd.op = "enable"
    BY <1>2, <1>10 DEF Remove, At, Shape
  <2>2. cmd.from = "yaml" /\ Vault("secure") /\ Closed
    BY <1>1, <2>1 DEF Course, Shape
  <2>3. /\ cmd' = Idle /\ wanted' = wanted /\ since' = since /\ file'["secure"] = file["secure"]
        /\ file'["yaml"].kind = "absent"
    BY <1>2, <1>10, <2>2 DEF Remove, history, Paths, Absent
  <2>4. InSecure' /\ Closed'
    BY <2>2, <2>3 DEF InSecure, Vault, Closed, Exists
  <2>5. QED
    BY <2>3, <2>4 DEF Course
<1>11. CASE Crash
  <2>1. crashes \in Nat /\ crashes' = crashes + 1
    BY <1>11, BoundsAssumption DEF Crash, TypeOK
  <2>2. QED
    BY <1>0, <2>1
<1>12. CASE UNCHANGED vars
  BY <1>12 DEF vars, Course, InYaml, InSecure, Closed, Plain, Vault, Exists
<1>13. QED
  BY <1>3, <1>4, <1>5, <1>6, <1>7, <1>8, <1>9, <1>10, <1>11, <1>12 DEF Next

(***************************************************************************)
(* The theorems                                                            *)
(***************************************************************************)

\* The shape of the running command, at all times.
LEMMA Shaped == Spec => []Shape
<1>1. Init => Shape
  BY DEF Init, Shape
<1>2. QED
  BY <1>1, ShapeStep, TypeCorrect, PTL DEF Spec

\* config.yaml and config.secure, at all times.
LEMMA Separate == Spec => []Apart
<1>1. Init => Apart
  BY DEF Init, Apart, Paths, Exists, Absent
<1>2. QED
  BY <1>1, ApartStep, TypeCorrect, Shaped, PTL DEF Spec

\* Whatever is killed, and however often: credentials are lost only by cutting an
\* in-place rewrite of their one copy in two (secure_config.go:170-198,
\* config.go:241).
THEOREM CredentialsAreKept == Spec => []CredentialsSurvive
<1>1. Init => Safe
  BY DEF Init, Safe, HeldOutside, Holds, Paths
<1>2. TypeOK /\ Shape /\ Safe => CredentialsSurvive
  <2> SUFFICES ASSUME Shape, Safe, wanted.creds, ~torn, cmd = Idle \/ cmd.op = "enable"
               PROVE  \E p \in Paths : Holds(p)
    BY DEF CredentialsSurvive, Holds
  <2>1. QED
    BY DEF Safe, HeldOutside
<1>3. QED
  BY <1>1, <1>2, SafeStep, TypeCorrect, Shaped, PTL DEF Spec

\* Vaults at rest are read-only, unless a command was killed
\* (secure_config.go:89-104).
THEOREM VaultsAreSealed == Spec => []VaultIsSealed
<1>1. Init => Sealing
  BY DEF Init, Sealing, Paths, Absent
<1>2. Sealing => VaultIsSealed
  BY DEF Sealing, VaultIsSealed
<1>3. QED
  BY <1>1, <1>2, SealingStep, TypeCorrect, Shaped, PTL DEF Spec

\* No plaintext stays beside the vault, unless a command was killed
\* (secure_config.go:182-198).
THEOREM PlaintextIsGone == Spec => []NoPlaintextBesideVault
<1>1. Apart => NoPlaintextBesideVault
  BY DEF Apart, NoPlaintextBesideVault, Exists, Paths
<1>2. QED
  BY <1>1, Separate, PTL

\* What an ordinary user's commands leave behind, unless killed, the next one
\* loads: with the credentials always, with ip_source and the secret of the server
\* unless the wizard has run since they were set, with the timing unless the
\* wizard or a migration has (root.go:80-140, config.go:134-185,
\* secure_config.go:13-167).
THEOREM SettingsAreKept == Spec => []SettingsSurvive
<1>1. Init => Course
  <2>1. Init => Agrees(file["yaml"].cfg, wanted, since)
    BY DEF Init, Agrees, Paths
  <2>2. QED
    BY <2>1 DEF Init, Course, InYaml, Plain, Exists, Paths, Absent
<1>2. Course => SettingsSurvive
  <2> SUFFICES ASSUME Course, cmd = Idle, crashes = 0, ~root
               PROVE  /\ Loads(Resolved("")) /\ Agrees(Loaded(Resolved("")), wanted, since)
    BY DEF SettingsSurvive, Agrees
  <2>1. PICK path \in {"yaml", "secure"} :
          /\ Resolved("") = path /\ Parses(path) /\ file[path].kind # "torn"
          /\ Agrees(file[path].cfg, wanted, since)
    <3>1. CASE InYaml
      <4>1. Resolved("") = "yaml"
        BY <3>1 DEF InYaml, Plain, Resolved, Exists
      <4>2. QED
        BY <3>1, <4>1 DEF InYaml, Plain, Parses
    <3>2. CASE InSecure
      <4>1. Resolved("") = "secure"
        BY <3>2 DEF InSecure, Vault, Resolved, Exists
      <4>2. QED
        BY <3>2, <4>1 DEF InSecure, Vault, Parses
    <3>3. QED
      BY <3>1, <3>2 DEF Course
  <2>2. QED
    BY <2>1 DEF Loads, Loaded
<1>3. QED
  BY <1>1, <1>2, CourseStep, TypeCorrect, Shaped, Separate, PTL DEF Spec
=============================================================================
