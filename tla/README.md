# VPSKit: a TLA+ model

VPSKit (`vpskit`) is a Go program that installs and operates proxy services
(sing-box, Xray) on one server, and a Cloudflare Worker (`worker.mjs`) that
serves the node's client configurations as a subscription. This directory
models the parts whose correctness depends on order, failure and concurrency:
how a change of the installation is made atomic, how the host around the managed
files is changed and put back, and how a publication and its read token are
changed remotely.

Run a configuration with `tlc -workers 2 -config <run>.cfg <module>`, the proofs
with `tlapm <module>Proofs.tla`. Paths below are relative to `src/`; `app/` stands
for `src/internal/app/`.

## The system

| Part | State it keeps | Operations | What makes it correct |
|---|---|---|---|
| Transaction engine (`app/state_change.go`, `profile.go`, `node.go`, `rules.go`, `hysteria2.go`) | `state.json`, `secrets.json`, the hashed service configurations, client exports, `transactions/<id>/transaction.json` | change an instance, the node, rules, Hysteria2 settings; roll a failed change back | a change is applied wholly or not at all, or its damage is recorded |
| Backup and restore (`app/backup.go`, `rollback.go`) | `backups/<id>` with a manifest | backup, prune, restore, rollback of a committed transaction | a backup somebody needs is complete and kept; a restore is whole |
| Recovery (`app/recovery.go`) | none of its own | before most commands, and `recover`: restore the backup of the latest `IN_PROGRESS` transaction | only unfinished transactions are undone, every one is in the end |
| Cleanup (`app/cleanup.go`) | none | remove old backups and terminal transaction records | never removes what recovery or rollback needs |
| Lock, atomic writes (`platform/lock_unix.go`, `fsutil/atomic.go`) | the flock, files | try to lock; write a temporary file, rename it, sync the directory | one writer at a time; a file is old or new |
| Installation, removal (`app/app.go`, `install_reality.go`, `uninstall.go`, `orphan.go`) | ownership records, users, units | install, roll a failed installation back, uninstall, find orphans | removes exactly what it created; a removal leaves nothing |
| Core and self update (`app/core_update.go`, `update.go`, `versions_lock.go`) | binaries, version lock | download, verify, switch, roll back, recover | binaries, configurations and lock agree after a kill; the services run what is installed |
| Certificates (`app/certificate.go`, `acme.go`) | certificate, key, lego directory | issue, renew, change mode | a certificate is never left beside another's key |
| Doctor (`app/doctor.go`) | none | report; `--fix` starts what is down | repairs without making anything worse |
| Hysteria2 UDP buffers (`app/hysteria2_udp_buffer.go`) | a sysctl.d file, `udp-buffer.json`, kernel parameters, the socket | apply, roll back, remove at uninstall | the values the host had are never lost |
| Hysteria2 port hopping (`app/hysteria2_porthop_component.go`) | an nftables file, a oneshot unit, the kernel's table, the published range | prepare, activate, enable, disable, deactivate | what clients are given is redirected to the listener |
| fail2ban (`app/fail2ban.go`) | a jail file, `fail2ban.json`, the running jail | apply, change the whitelist, remove | record, file and service agree |
| Worker, publications (`deploy/cloudflare/worker.mjs`) | key-value store: revision records, candidates, `current` per target, `publication/current` | publish, activate, roll back, serve | history is immutable and complete; what is current is served whole |
| Worker, read token | `read-token/current-hash`, `initialized`, `previous` | validate, rotate, revoke | revoked means revoked; the accepted token is known to the node |
| Node side of subscriptions (`app/subscription.go`, `publisher/`) | `subscription.json`, `publication.json`, secrets, client files | configure, remove, publish, roll back, rotate and revoke the token | what the node records agrees with what the Worker accepted |
| State and schemas (`model/state.go`, `app/state_migration.go`, `migrate.go`, `instance_adapter.go`) | four schema versions of `state.json` | migrate, validate, adapt instances | the instance lists survive migration |
| Rules (`app/rules.go`, `rule_cache.go`, `user_rules.go`) | rules in `state.json`, a cache directory | change, apply, refresh | a committed change is kept |
| Rendering, releases, reports (`render/`, `artifact/`, `release/`, `app/menu.go`, ...) | none | pure text, signature checks, inspection | not about order or failure |

**How they interact.** Every invocation of the program is a process of its own; the
processes share only files, the kernel's settings and one non-blocking flock. A
systemd timer runs `vpskit cert renew` daily next to the operator's shells, in a
unit that may write below `/var/lib/vpskit` only. A committed change may
publish to the Worker over HTTPS, while it still holds the lock; token and
publish commands talk to the Worker without any lock, and the fail2ban and port
hopping commands mostly take none either. In the Worker, requests of one isolate
interleave at every `await`; publishing requests of an isolate wait in a queue,
the others do not, and several isolates may run.

**What is hard.** State read before the lock and used after it; recovery deciding
before it locks; a kill between two renames; a failing rollback; writes that
report an error after they took effect; pruning against recovery; a recovery
started by a unit that may not write what it must restore; values of the kernel
that only one file remembers; a record and the file it describes written in turn
without a lock; a publication that stops between its writes and is sent again
with other content; answers that never arrive. `PROJECT.json` lists each with its
line and the property about it.

## Modules

### StateTx, and what it implements: Installation

`StateTx.tla` models invocations (`Cli`) of the program. The correspondence:

| Model | Code |
|---|---|
| `disk` | the managed files; a file's value is the number of the transaction whose rendering last changed it. `ConfigFiles` are the configurations `state.json` holds digests of, `exports` all client exports |
| `txn[t]` | `transaction.json`: status, command, backup. `REMOVED`: its directory was cleaned up |
| `bk[b]` | a directory under `backups/`: `PARTIAL` until its manifest is written |
| `lock` | the holder of `vpskit.lock` |
| `snap`, `todo` | the holder's transaction-local snapshot, the files it has still to write |
| `pc`, `job` | where an invocation is, and its local variables: the state and the secrets it read, its own transaction, the transaction and backup it is recovering from |
| `ver[t]` | what transaction `t` rendered: files, configuration revision, and the changes it includes |
| `StartRecovery`, `StartCommand` | `Run`, `shouldAutoRecover`, `findIncompleteMutations` (before the lock, as in the code) |
| `ReadState`, `ReadSecrets` | before the lock too |
| `OpenBackup`, `SealBackup`, `SealFails` | `createPersistentBackupLocked` with its pruning |
| `Begin`, `Apply`, `Commit`, `Publish` and their failures | `mutateInstalledInstance`, `commitManagedStateChangeWithServiceRestart`; one `Apply` per rename |
| `Undo`, `UndoDone`, `UndoFails` | the deferred rollback from the snapshot |
| `BeginRestore`, `Restore`, `RestoreDone`, `Mark` and their failures | `restoreBackupWithOutput`, then `recoverIncompleteMutation`'s marking, after the lock is dropped |
| `Denied` | a restore begun in the renewal unit, whose first entries lie where systemd lets it write nothing (`Confined`) |
| `Cleanup` | `cleanup apply`: any age limits, the newest of each kind kept |
| `Crash` | a kill of one invocation anywhere; the kernel drops its lock |

`Rendered` computes what a change writes from what the code reads: the state
read first and the secrets read after it, each possibly of another version.

`Installation.tla` is what the engine promises one operator: changes happen
whole, each on top of the last, each raising the revision by one. The refinement
maps it to the version *under* the change in progress (`Settled`), so that
`Commit` is the abstract step, and everything else, kills and recoveries
included, is a stutter.

`MCStateTx.tla` says who runs which commands; `StateTxProofs.tla` holds the proofs.

### HostChange

`HostChange.tla` models the commands that change the host around the managed
state: both first installations, the self-update, the core update, the renewal
of the certificate, the removal, `doctor --fix`, and the recovery of a core
update. They have one form in the code, and have it here: a fixed sequence of
steps under the lock, a restart, a record; on failure a second sequence that
undoes the first.

| Model | Code |
|---|---|
| `disk` | one entry per group of files: `cores` is xray and lego, `units` the four unit files, `config` the two configurations; the value is the transaction that wrote it |
| `Install`, `InstallReality`, `Self`, `Core`, `Cert`, `Uninstall`, `Restore` | the order in which `installManagedFiles`, `installRealityOnlyManagedFiles`, `updateSelf`, `updateCore`, `activateCertificateRenewal`, `runUninstall` and `applyRestoreEntries` write and remove |
| `UndoInstall`, `UndoSelf`, `UndoCore`, `UndoCert` | `rollbackInitialInstall`, `rollbackSelfUpdate`, `rollbackCoreUpdate`, `rollbackCertificateRenewal` |
| `running` | the files the services were last started with |
| `journal`, `bak` | `transaction.json` and the two backups of a core update; the others keep no record of their beginning. A record `RECOVERED` that still names the transaction's own copy is one recovered from it (`recovery_source: transaction-local-backup`) |
| `names[t]` | the files the `state.json` of transaction `t` describes |
| `Write`, `WriteFails`, `Restart`, `RestartFails`, `Commit`, `CommitFails` | forward, each able to fail with or without its effect |
| `Abort` | the failure of a command whose rollback is armed and that has written nothing (`systemMutated`, `mutated`, `activated` are false): it undoes nothing, and records that it rolled back |
| `StopServices`, `UndoStep`, `UndoFails`, `UndoRestart`, `Settle`, `SettleUnrecorded` | back |
| `StartRecovery`, `BeginRecovery`, `RecoveryRefused`, `Restored`, `RecoveryFails`, `Mark` | `recoverIncompleteMutation` and `recoverIncompleteCoreUpdate` |
| `Blocked` | `ReadWritePaths` of the renewal unit: a confined invocation cannot write elsewhere |
| `Kill`, `Reboot`, `LoseBackup` | the process dies; the host restarts and starts what is enabled; an operator removes a backup directory |

A command that recovers first and then does its work is modelled as two
invocations. The recovery of instance and node changes is StateTx's, that of a
core update is here; the two modules share no transaction.

### UdpBuffer, PortHop, Fail2ban, Subscription

Four parts of a host whose variables are disjoint. `MCHostParts.tla` puts them in
one state space, of which `part` selects the one that moves, so that one run
checks each by itself. Their status and plan commands only read and are no
actions; `Rest` is a host on which no command is under way and none is given, so that a
command that could not go on would still be a deadlock.

`UdpBuffer.tla`: `apply`, `rollback` and the removal at uninstall. Every kernel
parameter is set in a step of its own (`Put`); `previous` is the command's copy of
the values it found, `owned` the one in `udp-buffer.json`. One command runs at a
time, under the lock. `slips` collects what the code cannot undo (`cut`: a
command was cut off, or an error it ignores; `lost`: it was cut off while the
undo of `apply` set the parameters, with the record already removed; `kept`: an
uninstall kept the record with the certificate).

`PortHop.tla`: the rules file, the unit that loads it, the kernel's table, and
the published range with the listening port in `state.json`. `enable` is two steps, since it compares
the file with what it publishes before it commits (`Verify`, `Enable`).
`backups` holds the state that a `restore`, a `rollback` or a recovery may put
back (`RestoreState`), which leaves the file and the unit as they are.
`disturbed` collects the commands that changed the file, the unit or the listener
under a published range or an active unit, and the restores that published a range
again; nothing refuses them. A reboot empties the table and loads
the file of an enabled unit again; `disable --now` empties it only if the unit was up.

`Fail2ban.tla`: `apply`, `whitelist` and `remove` by any administrators at once,
each reading, checking and writing in turn. A jail is its port and its
whitelist; a record's digest is the jail it was made of. `alone` and `spoiled`
say whether a command ran beside another, was killed, or failed half way, since
the last one that succeeded. `left` is the jail that an uninstall, which removes the
record but knows nothing of the jail file, left in force.

`Subscription.tla`: `configure` and `remove` under the lock, with their undo;
`publish`, `rollback` and the publication after a change, which record their
outcome or their failure in `publication.json` under no lock. The Worker is
reduced to what `WorkerPublish` shows of it: it accepts revisions that are not older than
the one it serves, and the answer may be lost.

### WorkerPublish, and what it implements: PublicationHistory

`WorkerPublish.tla` models the requests of one node. A request is a record with a
program counter; each `get` or `put` of the store whose order matters is a step of
its own. Records read in turn although nothing can change them between are read
in one step (one isolate writes a record once). `queue` is `nodePublishQueues`. A
revision record is its revision and a token for its content; targets in `Shared`
have the same content in every body (an unchanged file). Targets are handled in
one fixed order, since the node sorts its artifacts by name, and appends the
manifest. `Fails` is a store operation that throws, at every step; `Evict` takes
an isolate's requests and its queue. `Activates` selects whether activate and
rollback requests arrive at all, alone, or at any time.

`PublicationHistory.tla` is what subscribers are promised: a complete publication
never changes, and only complete ones become current. A publication is complete
when its manifest is stored.

### ReadToken

`ReadToken.tla` models the token commands on the node (`proc`) and the requests they
make in the Worker (`req`). A token is a number and stands for its hash; token 1 is the one the
Worker is deployed with (`READ_TOKEN_HASH`), which counts while nothing has been
stored (`initialized`). Each `get` and `put` is a step; `Breaks` is a store
operation that throws; `Lost` an answer that does not arrive; `Killed` the death
of the command. A request outlives its command, and the next command does not
wait for it: `Slot` bounds how many may be in the Worker together. `crossed` is history: it
collects the rotations and revocations that were under way together with another. `MCReadToken.tla` adds the symmetry of
the requests.

### Where the code has holes

The models do what the code does, and where that breaks a promise a variable
remembers it and the property excepts it, so that everything else is still
checked: `untold` (HostChange), `slips` (UdpBuffer), `disturbed` (PortHop),
`alone`, `spoiled` and `left` (Fail2ban), `broken` (Subscription), `crossed`
(ReadToken). No action is guarded by any of them. What they stand for:

- An installation, self-update, renewal or removal that is killed leaves no
  record (`untold`). An installation killed between `state.json` and `ownership.json` can
  neither be repeated nor removed (`app/app.go:892`).
- The transaction's own copy of a core update holds the files of that update
  only. If the persistent backup is lost and recovery falls back on the copy
  after an earlier attempt wrote other files from the persistent one, those stay: the
  record says where the recovery came from (`app/recovery.go:83-100`), and
  `Marked` counts it. With both backups gone the update is never resolved.
- `cert renew` first recovers what a kill interrupted, from a unit that may not
  write what it restores: it fails each day until an operator runs a command
  (`app/certificate.go:485`).
- A first installation that fails after it has begun to write removes the certificate and
  key it found, if a removal had kept them (`app/app.go:1240`). One that fails before
  removes nothing. Both are recorded `ROLLED_BACK`.
- The undo of a UDP buffer `apply` removes the record before it resets the
  parameters; cut off in between, the host's values are lost
  (`app/hysteria2_udp_buffer.go:163-172`).
- An uninstall that keeps the certificate leaves `udp-buffer.json` where it is and removes the
  sysctl file it is about: `apply`, `rollback` and a later uninstall refuse from then on
  (`app/hysteria2_udp_buffer.go:133`, `210`, `449`).
- `port-hop prepare` under an active unit, then `enable`, publishes a range the
  kernel does not redirect; `instance modify` moves the listener under a
  published range; `restore` publishes the range of its backup whatever is
  redirected by now; uninstall leaves the unit up without its file.
- fail2ban commands that overlap lose whitelist entries, and an `apply` whose
  package or check fails leaves a jail without its record, which stops every later command.
- Uninstall removes the fail2ban record with the state directory and leaves the jail in
  force (`app/uninstall.go:73`); after a new installation `apply` refuses it and
  `remove` says it is not the program's own (`app/fail2ban.go:160`, `215`).
- The Worker's rotation reads the current token and stores it as the previous one
  later (`worker.mjs:326`), and nothing makes a command wait for the request of one that was killed
  or timed out. If `rotate` with an overlap reads token 1 and its command is killed, `revoke` of token 1
  succeeds, and the stale rotation then stores token 1 as the previous one: it reads again.
  A stale rotation may likewise store its hash over one already reported as rotated.
- `doctor --fix` takes no lock and may start services that a removal has just stopped.

## Runs

| Run | Question | Bounds |
|---|---|---|
| `StateTxSolo` | with commands that recover first, one after the other: is a mixture of versions always on record, is no committed change lost, do revisions stay distinct, does the engine implement `Installation`, is everything repaired in the end? | 2 transactions, 3 backups of which 2 are kept, 2 kills, 2 failures |
| `StateTxPair` | with two shells and all kinds of commands at once, beside the confined timer, and late write errors: is the backup recovery needs always complete, was a rollback recorded as done complete? | 2 transactions, 2 backups of which 1 is kept, 1 kill, 2 failures |
| `StateTxRules` | violated: is a committed change kept when one of the commands is `rules`? | 2 transactions, 1 kill |
| `StateTxRace` | violated: does recovery undo only unfinished transactions, with `recover` in a second shell? | no kill, no failure |
| `StateTxRestoreKill` | violated: is a killed `restore` repaired? | 1 kill |
| `HostChanges` | with an operator who installs, updates, removes and recovers beside the confined renewal timer: is a mixture of two installations on record, do the services run what is installed, do rollback and recovery restore what they found, does a removal leave nothing, is a core update resolved in the end? | 2 transactions, 1 kill or reboot, 2 failures, 1 start of the timer |
| `HostParts` | each of UDP buffers, fail2ban, port hopping and subscription by itself: are the host's values kept, do record, file and service agree, is what is published redirected, are credentials whole and publications real? | UDP: 4 parameters, 2 values, 2 kills, 2 failures. fail2ban: 2 administrators, 2 ports, 2 addresses of which 1 fits, 3 commands, 1 kill, 2 failures. Port hopping: 2 ranges, 2 ports, 6 commands, 1 reboot, 1 failure. Subscription: 2 shells, 2 credentials, 2 revisions, 4 commands, 1 kill, 2 failures |
| `WorkerServe` | with publications at the same time and activations on their own: is history complete and immutable, is what becomes current served whole, is the current publication only replaced by a newer one unless activated? | 2 requests, 2 revisions, 2 contents, 4 targets, 1 isolate |
| `WorkerAnswered` | is every request answered, also behind a failed one? | 3 requests, 1 revision |
| `WorkerRollbackRace` | violated: is it still served whole when an activation may run beside a publication? | 2 requests, 2 revisions |
| `TokenAlone` | with one command after another, failing and killed anywhere, beside the requests of killed ones: is a revoked token refused, does a rotated one read, does the node know the token that reads? | 3 tokens, 2 requests |
| `TokenLost` | violated: does the node know it when an answer is lost? | 3 tokens, 2 requests |

**Why the bounds are enough.** Two transactions on top of the initial state give
recovery an older and a newer record to choose from, a change on top of a
recovered one, and a stale state to be computed from. Three backups with two kept, and
two with one kept, make pruning choose. Two kills reach a kill during the recovery of an earlier
kill; two failures reach a change that fails and whose rollback fails, and any pair of
operations of different commands. `ConfigFiles` has one element in `StateTxSolo`: the configurations are
written one after the other in either order, and a second one tears the installation in the
same ways as the exports do.

`HostChanges` starts from an empty host and from one that transaction 1
installed, so on the latter one more change meets every other command. One kill is enough
there: a core update is the only command that can be recovered, its recovery writes the
same files in a fixed order, and an invocation of the timer or a failing step
interrupts that recovery too. Two failures reach a rollback that fails, and a
persistent backup that is lost together with a failing local recovery.

Four parameters are what the code sets. Two kills reach one in an `apply` and
one in the `rollback` that cleans up after it; six port hopping commands prepare, activate, enable, disable and prepare a
second range; three fail2ban commands apply, change and remove, or overlap in
pairs; four subscription commands configure, publish, change and publish again,
with another shell beside any of them.

A publication interleaves with one other through the queue, and a second content
reaches every conflict answer. In the token runs a third token gives a rotation with a
previous token, any token may be revoked at any time after it, and two requests are what it takes for
one of a killed command to meet that of the next.

**Fairness.** `StateTx` and `HostChange`: an invocation that can go on does (the processes are
scheduled), and the operator, who is not confined, runs `vpskit recover` again
and again while there is something to recover (until it succeeds, most other commands fail with it). That
is an assumption about a person, and the code has nothing better to offer: the daily timer recovers too,
but from a unit that may not write what a restore writes first, so it never gets
there and nothing is assumed of it. No
failure or kill is assumed to happen, and none is assumed not to. `WorkerPublish`: a
request that can go on does; arrival, failure and eviction are not fair.

## What the violated runs show

1. **`StateTxRules`** `rules` and `hysteria2` commands neither recover first nor
   are recognised by recovery (`app/recovery.go:109-142`, `190-197`). After a killed
   `node modify`, `rules apply` commits; the next recovery puts the older backup
   over it.
2. **`StateTxRace`** Recovery picks its transaction before it takes the lock
   (`app/recovery.go:51`) and does not look at its status again: one that was
   merely running in another shell and has committed is undone and marked `RECOVERED`.
3. **`StateTxRestoreKill`** `restore` and `rollback` write their record at the end
   only; killed part way they leave a mixture and nothing to recover.
4. **`WorkerRollbackRace`** Activations do not wait in the queue, so their
   writes mix with a publication's, and what is answered `COMMITTED` is served
   with a target of another revision.
5. **`TokenLost`** When the answer to an accepted rotation is lost, the command
   deletes the only file that holds the new token.

`EventuallyResolved` excepts installations with a `ROLLBACK_FAILED` record: a
change made after that takes a backup of the damage, and if it is killed,
recovery refuses that backup's digests each time (`app/backup.go:402-424`), so the
record stays `IN_PROGRESS` and every command that recovers first fails until the
operator restores an older backup. `CoreEventuallyResolved` has the same
exception, that of a command which left damage without a record, and that of a
record with no backup left.

Four further behaviours appear when the constants are changed and have no run
of their own. With `LateErrors = TRUE` in `StateTxSolo`, a write of `COMMITTED` that
reports an error after its rename is followed by an undo
(`OnlyIncompleteIsRecovered`), and a kill in that undo leaves a mixture that no
record shows; of the safety properties of that run only `TypeOK`, `RecoveredIsRestored` and
`RolledBackIsRestored` survive. With two isolates in `WorkerServe`, two publications of one
revision write one history (`CompleteHistory`) and an older publication replaces a
newer one (`ForwardOnly`): the queue is the isolate's own. Without the exception of
`crossed`, `TokenAlone` finds a rotation replaced after it was answered (`RotatedIsValid`) and a
revoked token stored again (`RevokedStaysRevoked`). And a publication that stopped between
its manifest and its candidate record is activated without its rule files
(`Resolved`).

## Proofs

Every proof is for all values of the constants that meet the named assumptions
in the module it is about, unless it names a further one: any number of
invocations, files, requests, tokens or parameters, any number of kills and
failures.

**`StateTxProofs`**, for any commands, overlapping in any way, late errors or not.
- `TypeCorrect`: the type invariant, strengthened by `Placed`: the lock is held
  exactly by the invocation that is in a locked section.
- `RecoverySourceKept`: the backup an `IN_PROGRESS` record names is
  complete. On its own it is not inductive: between taking a backup and recording the transaction the
  backup is named by nobody. `Sources` adds that the lock holder's backup is open
  or sealed as its step requires and that numbers not yet given out are
  unused; pruning keeps it because it never removes the backup just taken or
  one a record names.
- `RolledBackRestored`: a transaction recorded `ROLLED_BACK` has left every file
  as its *persistent* backup holds it, although what is put back is the
  *snapshot*. `Saved` says why: from the backup to the end of the transaction the
  lock is held, so the snapshot and the backup agree; and in an undo the files no longer in
  `todo` agree with the snapshot.

With one shell, whose commands come one after the other, beside any number of confined
renewals (`OneAtATime`), of any commands:
- `RecoveredIsWhole`, also with late errors: a transaction recorded `RECOVERED`
  has left every file as the backup it names holds it.
- `FinishedStaysFinished`, without late errors: only a transaction in progress is
  recovered. What recovery chose before it took the lock is then still so when it
  marks it.

With the same, without late errors, and of commands that recover
first (`OneOperator`):
- `TornIsOnRecord`, `ChangesStartFromWhole`, `CommittedIsKept`,
  `RevisionsAreDistinct`, and `EngineKeepsPromise`: the engine implements `Installation`. One
  invariant carries all five, `Solo`. At most one transaction is in progress and is the
  latest (`OneIncomplete`). Unless a rollback failed, the files are whole when
  none is in progress, and otherwise the backup that recovery will use is
  (`Sound`). The version under the change in progress carries every committed
  change and none has a higher revision (`Kept`), which is what a mere "no
  change is lost" lacks to be inductive. `AtWork` says for each step what the
  invocation read, which transaction it works on and how far its files are. The refinement then goes
  step by step: `Commit` is the abstract change, everything else keeps the
  version underneath.

Each hypothesis of `OneOperator` is needed; changing the constants of `StateTxSolo`
shows it. With `LateErrors = TRUE` the five and `OnlyIncompleteIsRecovered` are
violated, `RecoveredIsRestored` is not. With two unconfined invocations all seven are
violated. With one invocation that also runs `rules`, `ChangesStartWhole`,
`NoCommittedChangeLost` and `ImplementsInstallation` are; with one that also runs
`restore`, those, `TornIsEvident` and `CommittedRevisionsDistinct`.

**`WorkerPublishProofs`**
- `PublishTypeCorrect`: types, for any isolates. `Lines` adds that a publication in
  flight waits in its isolate's queue, and is first in it once past its first check.
- `HistoryIsComplete`, with one isolate: `HistoryInv` adds how far every request
  has come (`Progress`): the targets no longer in `todo` are stored as the
  publication has them, and the record a lookup missed is missing still, since
  only the first of the queue stores anything. The manifest is handled last, so
  when it is stored everything is.
- `WorkerKeepsHistory`, with one isolate: the Worker implements `PublicationHistory`. Storing a manifest is
  `Complete`, a commit or an activation is `Show`, the rest stutters.
- `SwitchesAreWhole`, `OnlyForward`, with one isolate and activations that come
  alone (`Activates # "any"`): `Serving` says that a switch under way is newer than what
  is current and that the targets it has switched are served from it. Both
  assumptions are needed: `WorkerRollbackRace` shows what happens without the
  second, and two isolates violate `ForwardOnly`.

**`ReadTokenProofs`**
- `TokenTypeCorrect`: types, for any number of commands at once.
- `RevokedIsRevoked`, `RotatedReads`, for any number too: a task that met no other is alone
  with its request (`Solitary`), so what the request has found still holds (`Finds`) and what it answers
  is so (`Tells`). A token whose revocation met nothing can be brought back by no
  rotation, since none under way carries it or has seen it (`Past`).
- `NewTokenIsKept`, if no answer is lost: whatever is current, or is on its way to become so, has its client file
  (`Held`), since a file goes only with a token that no request will store (`Unmade`).

**`SubscriptionProofs`**, for any shells at once.
- `SubTypeCorrect`: types; the lock is held by the one that writes or undoes.
- `CredentialsStayPaired`: `Pairing` says where the steps left to take lead: forward
  to paired files, backward to the files found.
- `RecordedWasMade`: `AllMade` extends it to every place a record waits to be
  written, found or put back from.

**`Fail2banProofs`**, for any administrators at once.
- `JailTypeCorrect`: types. A written jail fits, which needs the whitelist of a
  record to fit.
- `JailStaysInForce`: `Staged` says that a command which has been alone is at
  the stage its step tells, and that one which has not is noted; a jail without
  a record is another's, or the one an uninstall left.

**`UdpBufferProofs`**, for any number of parameters.
- `UdpTypeCorrect`, `UdpOriginalIsKept`, `UdpWholeOrNot`: `HoldsOriginal` says where the
  host's values are at each step, and how many parameters hold them; `Orderly`
  where the file, the record and the socket are, as long as nothing was cut off, and
  after an uninstall that kept the record.

**`PortHopProofs`**, for any ranges, ports and sequences of commands.
- `HopTypeCorrect`, `PublishedIsRedirected`: as long as nothing was disturbed the
  table is what the file says while the unit is active, and empty
  while it is not (`UnitFollowsFile`), and what is published is what the file
  says (`FilePublished`).

**`HostChangeProofs`**, for any number of invocations and transactions.
- `HostTypeCorrect`: types, with `Holding`: whoever is in a locked step holds the lock,
  and whoever holds it is in such a step or about to remove the service user.
- `RemovalLeavesNothing`, if whoever may remove an installation is the only operator
  beside renewal timers (`RemoverAlone`): `Cleared` says that the services stay
  down and that what is not gone is still to go or to stay. The assumption is
  needed because a removal drops the lock with the root directory before it removes
  the user: an installation begun between the two would lose its user.

With one operator's shell beside any number of confined renewals (`OneShell`: one
invocation at a time that is not confined, as in the run; every other one comes from the
unit the program installs):
- `RecoveredAsFound`: a core update recorded as recovered has the core's files back and
  the services run what is installed, although renewals start the same recovery
  and break off in it. `Shelled` says how: at most one update is in progress and
  its backup is what it found (`OneIncomplete`, `PlacedAt`); a confined recovery gets no
  further than its first file that systemd refuses, so what it changes lies in the
  core's own files (`BarredAt`, `Spared`); the operator's recovery leads to the backup
  from wherever that left off (`RestoringAt`).
- `MixtureHasARecord`: whenever nobody is at work, files of two installations are mixed only
  if a record says so (`Marked`) or a command that keeps no record of its
  beginning was cut short (`untold`).
- `ServicesFollowFiles`: and then, if nothing is amiss, the services run the installed
  files.
- `RollbacksRestore`: a change recorded as rolled back or aborted has left every file as it
  found it. Going forward, files outside the command's scope are as they are to be again
  (`Contained`); going back, every file is so or is still in `todo`, and `todo` leads there
  (`Returning`). A first installation is taken back to an empty host; that this is what it found, but for a
  certificate a removal kept, is known only if nothing was left behind before (`TidyCloses`).

These three share the invariant `Tidy`, which adds `Calm` to `Shelled`. Between commands the
files are those of one installation and the services run them (`Quiet`). A command at work has
found such files, leads to such files, and the services run one or the other
according to the step it is at (`SteadyAt`, `OnwardAt`). The backup of an update in
progress is of one installation (`Mendable`). The steps that made it hard are those around
the end of a recovery, which drops the lock before it marks the record (`Settled`,
`Marking`): in between the record still says `IN_PROGRESS` over files that are whole, a renewal may
start the recovery once more, and `LateAt` says that what it writes is what is there. All of `Calm` is
for as long as nothing tells of files left behind (`Amiss`).

The invariant found a fault of an earlier form of the model: it closed a
recovery from the transaction's own copy like any other, and `MixtureIsEvident` was then
false in an instance larger than the run's. The code's record names its source and keeps
the copy, and so does the model now (`local`).

`OneShell` and `RemoverAlone` are needed: with two shells of all commands TLC finds each of the
four properties violated. `doctor --fix` starts the services beside a removal
(`ServicesRunInstalled`); an installation begins before a removal has removed the
user (`RollbackRestores`); an update is recovered over what a removal left
(`RecoveryRestores`, `MixtureIsEvident`).

Only model-checked: liveness (`EventuallyWhole`, `EventuallyResolved`,
`CoreEventuallyResolved`, `EventuallyAnswered`), since the prover does not reason about
`ENABLED`. Every invariant and every other action property or refinement that a passing
run checks is also a theorem.

## Not modelled

The contents of files (a rendering is the number of its change); what a service
does beyond a check, restart or health check succeeding or failing; power loss
that loses a synced rename; who may send a request
(signature, clock, nonce), and the propagation delay of the key-value store
(a read sees the last write, except that a read-back may fail). Downloads,
signatures and the ACME exchange are one step that succeeds or fails, and
the rewrite of the ACME account file before the lock is left out. Cloudflare's
runtime, systemd and the kernel are external and appear as `Evict`, fairness,
`Reboot` and `Kill`.

The schema migrations, instance adapters and the port arithmetic convert one
document into another in a single process; they have no order, failure or
concurrency of their own, and the engine writes their results. Read-only
commands, rendering, release bundles, laboratory and deployment scripts change
no managed state.

## Plan

1. `Subscription` composed with `WorkerPublish` in place of its reduced Worker.
2. `HostChange`: the theorems of `OneShell` for several shells none of which removes or
   installs, where recoveries of one update follow each other.
3. The refinement of an abstract host by `HostChange`, with the invariant `Tidy`.
