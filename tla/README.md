# A TLA+ verification of dddns

dddns keeps the A record of a home network at Route53 equal to the address of
its WAN interface. This directory models the parts of the program where that can
go wrong (the update flow with its cache file, the serve-mode endpoint, the endpoint
on Lambda, the configuration on disk, the installer and the boot script, the
address lookup, the identity behind the vault, the audit log), checks them with TLC on small instances and
proves the central results with TLAPS for every instance.

Notation: `updater.go:160` means `src/internal/updater/updater.go`, and so on;
`lambda handler.go` is `deploy/aws-lambda/handler.go`. `PROJECT.json` maps every definition to its lines.

## 1. The system

| Component | State it keeps | Operations | Talks to |
|---|---|---|---|
| Update flow (`internal/updater`, `cmd/update.go`) | the cache file `last-ip.txt`; per run: address, options, result | `Update`: resolve, read cache, look at DNS, UPSERT, write cache | WAN lookup, Route53, file system |
| Route53 client (`internal/dns`) | none | `GetCurrentIP`, `UpdateIP`, request signing | Route53 over HTTPS |
| Address discovery (`internal/wanip`, `internal/commands/myip`) | none | route and interface lookup; two HTTP services | `/proc/net/route`, interfaces, HTTP |
| Serve handler (`internal/server/handler.go`) | per request: audit entry, reply | `ServeHTTP`, `emit` | authenticator, update flow, audit log, status file |
| Authenticator (`auth.go`) | recent failures, end of the lockout | `Check` | the clock |
| Audit log (`audit.go`), status file (`status.go`) | two files, a mutex each | `Write` (append, rotate; replace by rename) | file system |
| Server process (`server.go`, `cmd/serve.go`) | the listener; the configuration it read at its start | `Run`: serve until SIGTERM, then `Shutdown` with a deadline | systemd |
| CIDR allowlist (`cidr.go`) | none | `IsAllowed` | - |
| Configuration (`internal/config`, `cmd/root.go`, `cmd/config*.go`, `cmd/secure.go`) | `config.yaml` or `config.secure` | resolve the path, load, `init`, `rotate-secret`, `secure enable` | file system, vault encryption |
| Device encryption (`internal/crypto`) | none | seal and open a vault | device identity |
| Boot script and `set-mode` (`internal/bootscript`) | the boot script, the cron entry, the systemd unit | generate and install for cron or serve mode | cron, systemd |
| Installer (`scripts/install-on-unifi-os.sh`) | `.prev` snapshots of four files (binary, boot script, cron entry, unit) | install, upgrade, roll back, uninstall | all of the above |
| Lambda endpoint (`deploy/aws-lambda`) | a cached secret with a TTL | `handle` | SSM, Route53 |

In **cron mode** a run of the flow starts on a schedule; runs follow each other.
In **serve mode** the router's DDNS client calls the endpoint on every WAN change;
net/http handles each request in a goroutine of its own, and each handler calls
the same flow. A manual `dddns update` may run beside either.

### What is hard

* Runs overlap in serve mode. They share the cache file and the record, and
  nothing serialises the flow as a whole.
* The cache file decides whether DNS is looked at at all, and is written after
  the UPSERT: a crash, a lost reply or a late UPSERT in between leaves the two
  apart.
* The address is resolved once and used several steps later.
* The lockout is an arithmetic of times with boundaries at both ends.
* SIGTERM gives requests less time than they may need; the status file's time
  stamp and its mutex are taken in two steps.
* Configuration files are rewritten in place and migrated in several system
  calls, by commands that can be repeated in any order.
* Installer, boot script, `set-mode` and `rotate-secret` change the same files, and
  any of them may be killed, or the host lose power or be upgraded, in the middle;
  snapshots outlive what they were taken of.
* The address lookup asks the kernel several questions while the network changes.
* The key of the vault is derived anew by every process from what that process can
  see of the device.
* Two processes, the server and `rotate-secret`, append to and rotate one audit log.
* Route53 answers a listing from a cursor on, with whatever record comes next.
* On Lambda several sandboxes keep the secret, each for a time of its own, and
  any of them may be killed between an UPSERT and its reply.

### What makes each component correct

* Update flow: a run that skips DNS because of the cache file is right to;
  reports are honest; a dry run publishes nothing; the record ends up at the WAN
  address.
* Authenticator: a window never sees more wrong passwords evaluated than the
  limit; the lockout is imposed exactly when due.
* Serve: one audit line per request, in order of time, telling what the client
  was told; every request answered; SIGTERM ends the process.
* Lambda: a retired secret stops working, and the new one starts to, within a
  bounded time; the reply tells what became of the record.
* Configuration: credentials are never lost by a migration; what one command
  writes the next one loads; nothing the operator set is lost; vaults stay
  read-only and no plaintext stays beside them.
* Installer and boot script: a boot script that ends leaves the host in one mode; a
  failed upgrade gives the files back; `--disable` lasts.
* Address discovery: what is returned was the address of the default route's
  interface at some moment of the lookup, and no reserved one; the allowlist admits
  exactly its ranges.
* Identity: a vault opens for every process of its device, and on no other device.
* Route53 client: the value read is that record's and no neighbour's.
* Audit log: the latest lines survive a rotation; files stay near their bound.

## 2. The modules

| Module | Models | Relation |
|---|---|---|
| `RecordCache` | what the cache promises: a memo of the published record | abstract specification |
| `Updater` | `updateWithResolver`, any number of overlapping runs, the environment | implements `RecordCache` |
| `UpdaterProofs` | seven theorems about `Updater` | extends `Updater` |
| `Authenticator` | `Authenticator.Check` | used by `Serve` |
| `AuthenticatorProofs` | three theorems about `Authenticator` | extends `Authenticator` |
| `Serve` | `ServeHTTP`, `emit`, audit log, status file, shutdown | composes `Authenticator` (`INSTANCE`) |
| `ServeProofs` | five theorems about `Serve` | extends `Serve`, instance of `AuthenticatorProofs` |
| `ConfigStore` | path resolution, loading and the rewriting commands | - |
| `ConfigStoreProofs` | five theorems about `ConfigStore` | extends `ConfigStore` |
| `BootScript` | the host: files, systemd, the commands of the generated script, restarts | extended by `Installer` |
| `Installer` | the install script, `set-mode`, `rotate-secret`, kills, power failures, firmware upgrades | extends `BootScript` |
| `InstallerProofs` | six theorems about `Installer` and the boot script | extends `Installer` |
| `AuditLog` | `AuditLog.Write` of several processes, call by call | - |
| `Addresses` | the tests on addresses and the allowlist, with their references | extended by `WanAddress` |
| `WanAddress` | `resolveIP`, `FromInterface`, `GetPublicIP` on a changing network | extends `Addresses` |
| `WanAddressProofs` | seven theorems about the lookup, the tests and the allowlist | extends `WanAddress` |
| `Identity` | `profile.Detect`, the data directory, the device identity, sealing and opening | - |
| `Route53` | `GetCurrentIP`: the request, its signature, Route53's cursor | - |
| `LambdaEndpoint` | `handle`, the secret cache, SSM, kills and cold starts | - |
| `LambdaProofs` | three theorems about `LambdaEndpoint` | extends `LambdaEndpoint` |
| `MCUpdater`, `MCServe`, `MCConfigStore`, `MCLambdaEndpoint` | the constants TLC needs | extend the above |
| `Parts` | `WanAddress`, `Identity`, `Route53`, `AuditLog` and the allowlist side by side | extends the four |
| `PartsProofs` | fourteen theorems about these parts and their composition | extends `Parts`, `WanAddressProofs` |
| `MCParts` | the constants TLC needs for the parts | extends `Parts` |

### Updater

The state is the WAN address, the record, the cache file and, for each run, its
program counter, options, resolved address and result. Each interaction with the
world is one action, in the code's order: `Resolve`, `CacheHit`/`CacheMiss`,
`DnsMatches`/`DnsDiffers`/`ListFails`/`GiveUp`, `Apply` and `Reply` (the UPSERT
taking effect, its answer arriving), `OpenCache` and `WriteCache` (`os.WriteFile`
truncates, then writes). Every error path is an action with `Fails` in front of
it; `LateApply` is an UPSERT whose caller has given up. The constant `Faults` says
which kinds of fault a run of the checker allows and `MaxFaults` how many. An
empty cache file and an absent one read alike (`readCachedIP`), so `NoIP` stands
for both. `held` and `since` are history variables and no action reads them but
`WanMoves`, which uses `held` to tell a fresh WAN address from a returning one.

The mapping to `RecordCache` reads the cache file as it is, except while some run
has published and not yet truncated the file: there the abstract memo is already
empty.

### Authenticator and Serve

`Check` holds its mutex from end to end, so its three exits are three actions:
`Refuse` (locked out), `Accept`, `Reject`. The slice of failures is a set of
numbered times. Restarting the process empties it.

`Serve` gives each request a program counter through `ServeHTTP`. What the handler
cannot influence is its input: the allowlist's verdict, the method, the password
and the hostname. The update takes one of its outcomes, at the latest
`HandlerTimeout` after its context was created. `Audit` is `AuditLog.Write` under
its mutex; `Stamp` takes the snapshot's time before `WriteStatus` takes the other
mutex. A line that cannot be written is reported in the journal instead. `Exit` is
`Run` returning from `Shutdown`: it kills what is in flight.

### ConfigStore

Three files (`config.yaml`, `config.secure`, and `config.secure.secure`, which a
second `secure enable` would create), each with a kind, a mode and the settings the
properties tell apart. A command is started with or without `--config` (`Given`),
resolves its path and reads the files, and then goes through its system calls one
action at a time: `Chmod`, `Truncate`, `Write`, `Seal`, `Zero`, `Remove`. `Crash`
may strike any command between any two. The zeroing of the plaintext, itself a
truncation and a write, is one step: both leave a file without credentials. `root`
says whether file modes stop the commands; on a UniFi device they do not. Three
variables are history. `wanted` holds the settings as the operator has set them: all of
them with `config init --force`, the credentials with the wizard, which asks for no
other and says that the current values are kept, the secret with a rotation. `since`
says for each setting which commands have ended since. `torn` says that a command which
rewrites the only copy in place was cut between truncation and write and nothing has been
written since.

### LambdaEndpoint

Lambda gives each sandbox one invocation at a time, so a sandbox is a process and
its mutex needs no modelling; two sandboxes share only SSM and the record. The n-th
secret the operator stored is the number n. `Invoke` is everything up to the point
where the handler has to wait: the checks of source and header, and, if the cached
secret is fresh, the comparison and the checks after it (`Decide`). Otherwise
`SsmReads` and `Fetched` are the parameter's value being read and its arrival, when
`fetchedAt` is stamped; `Apply` and `Updated` are the UPSERT and its reply. A
sandbox is killed when its invocation has lasted `Timeout`, and taken away when idle;
both lose the cache. `stored`, `published` and `verdict` are history. Which address
is published does not matter to the properties and is left out.

### BootScript and Installer

Four files (binary, boot script, cron entry, unit), each with what a reader of it
could find, "torn" included; the configuration as far as `dddns serve` cares; systemd
as three variables: starts at boot, kept running, the secret the running process has
loaded. Each command of a generated script is a step, `cat >` two of them, because
`set -e`, a kill or a power failure may end the script after any. Stop and disable of the
service are two commands that may fail too, but whose failure the script ignores
(`|| true`): after `StopUnitFails` the service runs on and the unit goes all the same. The
history variable `unstopped` remembers such a service until it is stopped, started anew or
the host restarts. A reboot runs the boot script again and starts what is enabled; a
firmware upgrade also empties `/etc`.

The install script is a job that moves through its stages in the order of the source:
`Save` (one file each), `Place`, `Create`, `Copy` (the `mv` from another file system
unlinks the old binary, creates the new one and fills it), `CreateConfig`, `InitSecret`,
`OpenBoot`, `WriteBoot`, `RunBoot`, `Smoke`; a failure sends it to `Restore`, `Kick`.
`--disable` and `--uninstall` are `Stop` or `StopIgnored`, `DisableAtBoot` and the
removals, or `SkipUnit` and the removals where there is no unit. Download, pre-flight and prompts change
nothing and only decide whether a job begins. `settled` and `retired` are history:
a script has run to its end and nothing has touched its work since; `--disable`
completed and nothing asked for a scheduler since. `retired` also tells apart what ends
that: an upgrade that failed and restored snapshots (`"rolledback"`), or was cut off in the
`mv` (`"cut"`).

### AuditLog

The mutex orders the writes of one process, so a writer is a process, and `Stat`,
`Rotate`, `Open`, `AppendLine` are the system calls of `Write`. An open descriptor
follows its file when the file is renamed, and refers to nothing any name reaches
after a second rename. A line is the unit of size. In `Serve` the log is one sequence
of lines, because there only one process writes.

### WanAddress and Addresses

A network is the route table, the list of interfaces and the addresses of each. The
lookup reads them one after the other (`ReadRoutes`, `ListInterfaces`, `AskInterface`), and the network may
change in between; `seen` remembers the networks since the lookup began. Where the route
table cannot be opened or read, or is empty, the lookup goes on as if it had no default
route (`RoutesFail`), which `unread` remembers. The tests on
addresses are written over octets as Go's `net` package tests them, and checked
against ranges of addresses compared as wholes. The same holds for `InBlock` against
the first and last address of a block. Only IPv4 is told apart: the program publishes
A records.

### Identity

A view is what a process sees: device, operating system, the lines of the UniFi
hardware file, container, `eth0`, the probes of macOS and Windows, host name, user,
HOME. `DataDir` and `DeviceID` are the code's chains of fallbacks over a view. `SealVault`
and `OpenVault` are `secure enable` and any load; `Another` is the next process, on this
device or on another to which the directory was copied. The cipher is ideal: a vault
opens for the identity it was sealed with.

### Route53

The name is a sequence of classes of bytes, because escaping is what a signature can
get wrong; a request verifies if Route53 derives the canonical query the client
signed. The zone answers with the first record set at or after the cursor.

### Parts

These parts share no state with each other, so their composition is a choice: each is
explored with the others at rest in their initial state, and every step is one part's
alone. The variables and actions of the parts keep names of their own (`WanNext`,
`ViewNext`, `ZoneNext`, `LogNext`), so that a theorem about a part is about the part
as the composition has it. Their connection with the
rest of the system is by result: `WanAddress` is the `Resolve` of `Updater`, `Route53`
its look at DNS, `Identity` the `Loads` of a vault in `ConfigStore`, `IsAllowed` the
verdict that `Serve` takes as an input, `AuditLog` its `Audit`.

## 3. What the checks show

| Run | Question | Bounds | Result |
|---|---|---|---|
| `cron_faults` | one run at a time, faults and crashes: no wrong skip, convergence | 3 addresses, 2 WAN moves, 3 faults | holds |
| `cache_refinement` | does the flow implement `RecordCache`; do dry runs publish | 3 addresses, 3 moves, 3 faults, every option record | holds |
| `overlapping_runs` | honest reports and an honest cache with two runs and every fault | 2 runs, 2 addresses, 2 moves, 2 faults | holds |
| `serve_cache_race` | do cache and record agree when nothing runs | 2 runs, 1 move, no fault | violated |
| `flap_after_crash` | convergence when the WAN returns to an old address | 1 run, 1 crash | violated |
| `lockout` | guesses bounded, lockout exact | limit 3, window 2, lockout 4, 9 ticks, 7 guesses | holds |
| `serve_requests` | audit order, log against reply, every request answered, SIGTERM effective | 2 requests of every kind, every fault, SIGTERM, 1 tick | holds |
| `lambda_secret` | how old may the secret be that judges a password; does the reply tell what became of the record | 2 sandboxes, TTL 2, timeout 1, 4 ticks, 2 secrets | holds |
| `config_commands` | credentials, settings, modes and plaintext under every order of commands | root or not, 3 ways to give `--config`, 2 secrets, 2 kills of any command | holds |
| `host_modes` | one mode after every script, no orphan service, rollback, `--disable` | 2 releases, 2 secrets, 3 faults of 7 kinds, restarts and firmware upgrades unbounded | holds |
| `disabled_reactivated` | does a disabled installation survive a failed upgrade | 2 releases, 1 failing smoke test | violated |
| `leaf_parts` | the address lookup, the identity, the listing, the allowlist, the audit log | 20 networks and 2 changes of them, 20 views, every zone of 2 names, 7 allowlists, 2 writers, 2 lines a file, 6 lines, 1 failure | holds |

The bounds. Two overlapping runs are enough for a race between them, and the
theorems of section 5 cover any number. Two or three addresses tell "old", "new"
and "newer" apart. Faults are counted together, so three of them cover a fault in
each of three consecutive runs or three kinds in one. The lockout's 300 s against
a window of 60 s and a limit of 5 are scaled down with their order kept; the
theorems hold for all values. In `serve_requests` one tick suffices to put two
lines out of order and to reach both deadlines; in `lambda_secret` four ticks let a
slow fetch, a cached use at the last fresh tick and the next fetch follow a rotation; `MaxGuesses` is the number of
requests, so that it never blocks one. Two kills let a migration be killed, its
repetition killed too, and a third one succeed. In `host_modes` three faults let a
failed upgrade follow a killed one on a host with a service nobody could stop, and two
releases tell a restored binary from the new one. In `leaf_parts` a log of two lines, two writers and six lines let both
processes rotate, and one of them twice while the other has the file open; the
addresses are those at the edges of every range, the networks those of a UniFi device
with two uplinks, with a VPN, behind carrier-grade NAT and without a lease.

`SettingsSurvive` is about commands run by an ordinary user, whom mode 0400 keeps
from overwriting a vault. It does not hold for root, who on a UniFi device runs
everything. Nor does it promise every setting after every command: the wizard loses
ip_source, timing and the server's secret, the migration the timing. These losses are in
the statement, by command and setting, so that it says exactly what is kept: everything
else. For both see the list of disagreements below.

`HostMatchesScript`, `NoOrphanService` and `RetiredStaysOff` have one exception in common,
a service whose `systemctl stop` failed (`unstopped`), and say that it ends with the next
boot; `RetiredStaysOff` says nothing of a disabled installation whose upgrade was cut off
while no binary was there. `OnDefaultRoute` excepts a lookup that could not read the route
table. In each case the code does leave that state behind, see below.

`CHECK_DEADLOCK FALSE` is set for `Serve`, whose process exits, for `ConfigStore`,
whose bounded secrets and crashes may be used up, and for `MCParts`, whose audit
lines may.

### Violations

Each violated run checks one sentence of the documentation or of a comment
(quoted in `PROJECT.json`, "findings").

* *No cache races with exclusive modes* (`serve_cache_race`): two concurrent
  requests of serve mode race with each other.
* *Always pointing to your current IP* (`flap_after_crash`): a crash after the
  UPSERT leaves the old address cached; when the WAN comes back to it, each later
  run skips for ever.
* *Preserving the disabled state* (`disabled_reactivated`): the snapshots of an
  earlier upgrade outlive `--disable`; when a later upgrade of the disabled
  installation fails its smoke test, the rollback restores boot script and scheduler
  with the binary, and the update loop runs again.

### Smaller disagreements

Reading the code for the models brought these up; no run is spent on them.

Update flow and serve mode:

* A dry run whose address is already in DNS rewrites the cache file (`DnsMatches`;
  `updater.go:192`), although the security review, line 103, says that dry runs write
  no cache. `os.WriteFile` is not atomic (line 98).
* `Shutdown` waits 5 s, a request may take 30: an update may be published and leave no
  audit line (docs/udm-guide.md:392).
* The status file may go back to the older of two concurrent requests.
* A running server keeps the secret it started with: a rotation needs a restart.
* The audit race of two processes (security-review.md:78 accepts it) may lose a `.old`
  file; `RecentKept` holds as long as no rotation falls into another's write.

Configuration:

* The wizard of `config init` drops what its template does not mention (`ip_source`,
  the timing, the server block with its secret) although it says "Press Enter to keep
  current values" (`cmd/config.go:255`); run by root on a `config.secure`, it replaces
  the vault with YAML that no longer loads.
* A second `secure enable` looks for a path that does not exist (`cmd/secure.go:69`) and,
  run by root, moves the vault to `config.secure.secure`, which nothing resolves.
* `secure enable` loses `update_interval` and `update_timeout`, for which
  `SecureConfig` has no field.
* A path given with `--config` has to exist, so `config init` creates no new file there.

Installer:

* A failed switch between the modes with its rollback leaves what the new mode added,
  so both modes may be active until the next boot (:18, :31-33).
* An upgrade in serve mode always rotates the secret
  (`ai_docs/20260417T2033Z_cli-for-idiots.md:178` and `:270` say upgrades must not), and
  the rollback of a failed one does not restore it.
* `mv` from `/tmp` crosses file systems, so it is not the rename the comment at :535
  takes it for. Killed between unlinking the old binary and creating the new one, it leaves
  a disabled installation that `is_disabled_state` no longer recognises, and the next plain
  upgrade gives it a cron entry (`retired = "cut"`), against :1198 and :176.
* A failing `systemctl stop` is ignored and the unit removed all the same
  (`bootscript.go:86-88`; :1113-1115): the service runs on beside the cron entry, or after a
  completed `--disable`, until the next boot; no later run of a script finds a unit to stop.
* `--mode` without `--force` on the installed release does nothing.

Addresses and identity:

* The scan of all interfaces is meant for a route table without a default entry
  (`wanip.go:90-94`), but a table that cannot be opened or read, or is empty, leads to it
  too (:68-73), and an interface beside the default route may be found.
* A row 0.0.0.0/1, the half route of a VPN, passes for the default route (`wanip.go:132`).
* `ValidatePublicIP` accepts carrier-grade NAT, which `isPublicIPv4` refuses; both
  accept 0.0.0.0/8, 240.0.0.0/4 and the documentation ranges.
* A container's id, the MAC of `eth0`, host name and user are identities that change
  when a container is recreated, a card replaced, or cron takes a shell's place. An
  empty `serialno=` goes straight to host name and user.

Route53:

* A wildcard's `*` is encoded twice in the canonical query, so the listing's signature
  does not verify, though `sigv4.go:137` says it matches the specification.
* Aliases, names that Route53 returns with `\052`, and names with capitals never match
  in `GetCurrentIP`.

Lambda:

* The old and the new secret do not both work for 60 s after a rotation
  (`aws-lambda/README.md:167`): a sandbox accepts one of them only, the old one while
  it is cached.
* Nor does only the new one work after 60 s (`:169`). The cached value is stamped when it
  arrives, so a fetch under way at the rotation puts the time SSM took on top: the bound
  `VerdictIsRecent` states is the TTL plus the timeout, 70 s.
* The update's deadline of 15 s, meant to keep a hung Route53 from eating the execution
  budget (`lambda handler.go:125`), lies beyond the function's timeout of 10 s.

## 4. Fairness

`Updater`: strong fairness of `Start(r, Plain)` (cron starts a run at each turn,
`bootscript.go`) and weak fairness of a run's own steps (every call has a deadline,
so a run that is not killed goes on). Nothing is assumed about faults but that they
are finitely many; without that no program could converge.

`Serve`: weak fairness of each handler (goroutines are scheduled; the update has
`handlerTimeout`), of `Exit` (`Shutdown` returns at its deadline) and of the clock.
No fairness of arrivals or of SIGTERM.

The other modules have no liveness property: that an invocation ends is Lambda's
doing, commands and installations are started by people, and a lookup or a line of the
audit log is over after a fixed number of system calls.

## 5. What is proved

Every theorem is checked by tlapm down to its leaves, for all values of the
constants that satisfy the named assumptions. Every invariant and every action property
of a passing run is stated by a theorem; two of them, `SkipOnlyWhenPublished` and
`ImplementsRecordCache`, for the runs and faults named in their rows.

The assumptions are of three kinds. Most only say what a constant is (sets, bounds in
`Nat`, `NoIP` no address, a finite set of `Writers`). Some say what the code fixes:
`Window <= Lockout`, as in auth.go's 1 and 5 minutes (`PolicyAssumption`), and networks,
callers and allowlists of IPv4. Two are about the world, and the theorems on the identity rest on them:
`UdmAssumption` (UniFi OS is a Linux, and all processes of a device read one
system.info) and `UniqueAssumption` (serial numbers, container ids, MAC addresses and
what the probes print differ between devices, and no host is called like another's
serial number).

| Theorem | States | Argument |
|---|---|---|
| `UpdaterProofs!TypeCorrect` | `TypeOK` | inductive as it stands |
| `ReportsAreHonest` | `HonestReport`, any number of overlapping runs, all faults | `Witnessed`: the record's value is in every run's history, and a decided result has its address there |
| `CacheIsPublished` | `CacheNeverInvents`, likewise | `Published`: a run past its decision carries an address the record has held |
| `SerialSkipsAreSafe` | `SkipOnlyWhenPublished` for one run at a time, no `--ip`, no late UPSERT, foreign edit or returning address | `Fresh`: an address the record has held and a run still carries is the record's |
| `SkipsAreSafeAtRest` | the same for any number of runs and all own faults while the WAN is at rest | `OneAddress`: every run, late UPSERT and cache entry has the one WAN address |
| `DryRunsOnlyLook` | `DryRunNeverPublishes`, an action property, any number of runs and faults | `PassedDryRun`: who stands at the UPSERT or behind it is no dry run |
| `FlowImplementsCache` | `ImplementsRecordCache` for one run at a time without a fault between UPSERT and truncation | `Settled`: a cache entry differs from the record only where the mapping hides it |
| `AuthenticatorProofs!TypeCorrect` | `TypeOK` | - |
| `GuessesAreBounded` | `GuessBound` | the slice is the window of the history since the last success or lockout (`SliceIsWindow`) |
| `LockoutIsExact` | `LockoutIffBurst` | the same invariant |
| `ServeProofs!TypeCorrect` | `TypeOK`, the authenticator's included | inductive as it stands |
| `AuditIsOrdered` | `AuditInOrder`, any number of requests | no line is later than the clock |
| `LogIsFaithful` | `LogTellsReply`, any number of requests, all faults | `Logged`: a request has no line before its append, and one equal to its entry or a journal message after it; `Coherent`: entry and reply agree |
| `ChecksAreSerial` | `Spec => Authenticator!Spec`: the server implements the specification of its authenticator | a step of a request is one whole `Check` or leaves the authenticator alone |
| `ServerLimitsGuesses` | `GuessBound` and `LockoutIffBurst` of the server, any number of requests | the theorems of `AuthenticatorProofs` through `ChecksAreSerial` |
| `LambdaProofs!TypeCorrect` | `TypeOK` | inductive as it stands |
| `VerdictsAreRecent` | `VerdictIsRecent`, any number of sandboxes and rotations | `Honest`: SSM's answer was true after the call began, a cached value at most `Timeout` before its stamp |
| `RepliesAreTrue` | `ReplyTellsRecord`, likewise, all faults | `Tells`: the history of the UPSERT at each step of the handler |
| `ConfigStoreProofs!TypeCorrect` | `TypeOK` | inductive with `Shape`, which says where each command may be |
| `CredentialsAreKept` | `CredentialsSurvive`, any number of kills and any commands | `Safe`: at each system call somebody other than the file at risk holds the credentials, or the command has them in hand |
| `VaultsAreSealed` | `VaultIsSealed` | `Sealing`: a vault that can be written is the one at work |
| `PlaintextIsGone` | `NoPlaintextBesideVault` | `Apart`: the two files are there together only during the migration |
| `SettingsAreKept` | `SettingsSurvive` with its exceptions, any first configuration | `Course`: what each command of an ordinary user has in hand and on disk at each call |
| `InstallerProofs!TypeCorrect` | `TypeOK` | `Stages` (which command may be at which stage) and `Room` (a secret is generated where there is room) |
| `ServiceHasUnit`, `ScriptIsIdempotent` | `NoOrphanService`, `HostMatchesScript`, any releases and number of faults | with the one exception of an `unstopped` service; one invariant for both (`HostInvariant`): `UnitLast`, the unit goes once the service is down or its stop has failed; `Progress`, what each command of the script finds done; `Unsettled`, who is at work on the host |
| `RollbackRestores` | `FailedInstallRestores`, likewise | `Snapshots`: at each stage, which snapshots are this installation's and which files are back |
| `DisableLasts` | `RetiredStaysOff`, likewise | `Retired`: no scheduler is there, the service is off or `unstopped`, and what is running can only keep it so |
| `PublicIsUnreserved`, `InterfaceIsPublic` | `ValidatePublicIP` and `isPublicIPv4` against the ranges, all addresses | comparison of addresses as wholes is lexicographic over octets |
| `BlockIsRange`, `AllowedInRange` | `InBlock` and `IsAllowed` against ranges, every network, prefix and allowlist | a prefix cuts at most one octet; the octets before it must agree, those after it are free |
| `WanTypeCorrect` | `WanTypeOK`, any networks and route tables of any length | `Scanning`: who lists the interfaces scans them, so a lookup that does not scan has one to ask |
| `NothingReservedFound` | `NothingReserved` | `Vetted`: a result has passed the test of its way, the interface's or checkip's |
| `DetectedOnRoute` | `OnDefaultRoute`, where the route table was read | `Routed`: the networks seen so far end in the present one and differ in one thing each (`Told`); each interface left to ask has its reason in one of them (`Reason`). `NoMixture`: with one change both route and address hold of one of the two |
| `ViewTypeCorrect` | `ViewTypeOK` | inductive with `Placed` |
| `HardwareOpens`, `StrangersStayOut`, `UdmOpens` | `HardwareSuffices`, `NoStranger`, `UdmAlwaysOpens`, any set of devices and processes | `Placed`: each vault lies in the directory of the process that sealed it, and the last outcome is the comparison of the two identities; then the chains of fallbacks, case by case |
| `ZoneTypeCorrect`, `RecordIsRead` | `ZoneTypeOK`, `ReadsRecord`, any list of names, zone and token | inductive as they stand (one call, one step): the wanted record set, if it is there, is the first at or after the cursor, and `Matches` admits no other |
| `CallersInRange` | `AllowedIffInRange`, any callers and allowlists | `AllowedInRange` and the type of the caller |
| `LogIsBounded` | `SizeBounded`, any finite set of processes | `Pending`: the lines of a file and those on their way to it stay below threshold, processes and failures together |
| `OrderIsKept` | `OwnOrder`, any set of processes, all races and failures | `Ordered`: a process that has `.old` open opened it before the log of now began, so none of its lines are there |
| `LatestAreKept` | `RecentKept`, likewise | `Ending`: until a race, the two files are the end of what was written, all of it or a full `.old` at least |
| `LogTypeCorrect` | `LogTypeOK` | inductive with `Stamped`: a process past its first step has a time |
| `PartsAreParts` | the composition implements the specification of each part | a step of one part leaves the variables of the others alone |
| `PartsProofs!TypeCorrect`, `PartsCorrect` | `TypeOK` and the invariants of `leaf_parts` in the composition | `PartsAreParts` and the theorem of each part |

The invariants of `Updater` share one split of a step into its kinds (`StepKinds`): a run
that starts, a run inside `Update`, one that fails, the world around the runs.

The excluded faults in `SerialSkipsAreSafe` and `FlowImplementsCache` are needed:
`flap_after_crash` and `serve_cache_race` are the counterexamples without them.

None of these invariants is inductive as it stands: each speaks of a result and says
nothing of the steps on the way to it. The strengthenings of the last column fill that in;
TLC has checked `Routed`, `Vetted`, `Scanning`, `Placed` and `Stamped` on the instance of
`leaf_parts` too. Two of them say something about the code. `Routed` shows why the lookup
gets by with reading the route table once, provided it can read it: if one thing changes between the table and
the interface, the answer is right of one of the two moments, and only a second change
makes a mixture possible, which is why `OnDefaultRoute` excepts it.
`Ordered` shows why two processes may rotate one log without a lock: a descriptor that
has fallen behind into `.old` was opened before the present log began.

Only model-checked: `Converges`, `Answered` and `Stops`. They are liveness properties, and
liveness under fairness is out of the prover's reach.

## 6. What is not modelled, and the plan

Left out for good: the hash chain of the signature, XML, the cipher, printing, IPv6
blocks and zones of the allowlist; `verify`, `ip`, `serve status`, `serve test`, `config
check` and `secure test`, which change nothing.

Not composed: `Serve` with the whole of `Updater`. Two requests through both handlers
and both flows with their faults are beyond what TLC explores in minutes, and the two
meet in one value, the outcome of the flow, which `Serve` takes to be any.

Copying a file to its snapshot is one step: a torn snapshot is not modelled.

Planned next: the step-by-step argument behind `Converges` as lemmas (what each step of a
fault-free run establishes for the next), and the guess bound of the server across
restarts of the process, which begin with an empty tally.
