----------------------------- MODULE HostChange -----------------------------
(***************************************************************************)
(* The commands of vpskit that change the host around the managed state:   *)
(* the first installation, the updates of the program and of the core, the *)
(* certificate renewal, the removal, and the recovery of a core update.    *)
(*                                                                         *)
(* Each takes the process lock, works through a fixed sequence of renames  *)
(* and removals, restarts the services and writes its record; a failure    *)
(* runs a second sequence that undoes the first.  Only a core update       *)
(* records IN_PROGRESS before it writes, so only a core update can be      *)
(* recovered once it is killed.  Removal records and undoes nothing.       *)
(*                                                                         *)
(* A transaction is numbered in the order of its beginning; a file holds   *)
(* the number of the transaction that wrote it, Absent if there is none.   *)
(***************************************************************************)
EXTENDS Integers, Sequences, FiniteSets

CONSTANTS
  Cli,        \* invocations of the program that may be alive together
  NoCli,      \* nobody (the lock is free)
  Runs,       \* Runs[p]: the commands p is used for
  Confined,   \* invocations systemd lets write below /var/lib/vpskit only
  MaxTx,      \* bound: transactions
  MaxCrash,   \* bound: kills and reboots
  MaxFault,   \* bound: failing operations
  MaxTimer    \* bound: starts of the confined invocations

Installs == {"install", "installReality"}
Command  == Installs \cup {"self", "core", "cert", "uninstall", "recover"}

ASSUME HostAssumption ==
  /\ IsFiniteSet(Cli) /\ NoCli \notin Cli /\ Confined \subseteq Cli
  /\ Runs \in [Cli -> SUBSET Command]
  /\ MaxTx \in Nat \ {0} /\ {MaxCrash, MaxFault, MaxTimer} \subseteq Nat

VARIABLES
  disk,      \* the managed files (and the service user)
  running,   \* the files the services were last started with
  journal,   \* journal[t]: its transaction.json and the backups it names
  bak,       \* bak[t]: the image in those backups
  names,     \* names[t]: the installation the state.json of t describes
  lock,      \* holder of vpskit.lock
  snap,      \* the image the holder found
  todo,      \* the steps of the holder's sequence
  pc, job,   \* where each invocation is, and its local variables
  untold,    \* commands that left files behind without a record of it
  nextTx, crashes, faults, timers

files == <<disk, running, journal, bak, names, untold>>
held  == <<lock, snap, todo>>
count == <<nextTx, crashes, faults, timers>>
vars  == <<disk, running, journal, bak, names, lock, snap, todo, pc, job, untold,
           nextTx, crashes, faults, timers>>

\* The files below /var/lib/vpskit, and the others.  "cores" stands for xray
\* and lego, "units" for the unit files, "config" for the two configurations.
StateRoot == {"secrets", "env", "cert", "key", "acme", "state", "ownership"}
File == StateRoot \cup {"vpskit", "singbox", "cores", "versions", "units", "config",
                        "exports", "user"}
Absent  == 0
TxId    == 1..MaxTx
Version == {Absent} \cup TxId
Image   == [File -> Version]
Empty   == [f \in File |-> Absent]

\* What the services read when they start.
Serving == {"singbox", "cores", "config", "cert", "key"}
Serve(d) == [f \in Serving |-> d[f]]
Stopped == Serve(Empty)

\* What a persistent backup holds (managedBackupSources and the lego tree).
BackedUp == File \ {"env", "user"}

Status == {"NONE", "IN_PROGRESS", "COMMITTED", "ROLLED_BACK", "ABORTED",
           "ROLLBACK_FAILED", "RECOVERED"}
Record == [status : Status, cmd : Command \cup {"none"}, backup : SUBSET {"persistent", "local"}]
NoRecord == [status |-> "NONE", cmd |-> "none", backup |-> {}]

\* tx: its transaction; base: the state it read; target: what it recovers;
\* replaces: whether the core's binary changes; keepCert: whether other units
\* use the certificate; local: whether it recovers from the transaction's own
\* copy; restarted, bad: restartAttempted, rollbackErrors.
Job == [cmd : Command \cup {"none"}, tx : Version, base : Version, target : Version,
        replaces : BOOLEAN, keepCert : BOOLEAN, local : BOOLEAN, restarted : BOOLEAN, bad : BOOLEAN]
NoJob == [cmd |-> "none", tx |-> Absent, base |-> Absent, target |-> Absent,
          replaces |-> FALSE, keepCert |-> FALSE, local |-> FALSE, restarted |-> FALSE, bad |-> FALSE]

\* The host before any installation, and one that transaction 1 installed.
Init ==
  /\ disk \in {Empty, [f \in File |-> 1]}
  /\ running = Serve(disk)
  /\ journal = [t \in TxId |-> IF t = 1 /\ disk # Empty
                               THEN [NoRecord EXCEPT !.status = "COMMITTED", !.cmd = "install"]
                               ELSE NoRecord]
  /\ bak = [t \in TxId |-> Empty]
  /\ names = [t \in TxId |-> IF t = 1 THEN disk ELSE Empty]
  /\ lock = NoCli /\ snap = Empty /\ todo = <<>>
  /\ pc = [p \in Cli |-> "idle"] /\ job = [p \in Cli |-> NoJob]
  /\ untold = {}
  /\ nextTx = (IF disk = Empty THEN 1 ELSE 2)
  /\ crashes = 0 /\ faults = 0 /\ timers = 0

-----------------------------------------------------------------------------
(* The sequences.  A step gives a file a version.                          *)

Step(f, v) == [file |-> f, to |-> v]
New(fs, t) == [i \in DOMAIN fs |-> Step(fs[i], t)]
Gone(fs)   == New(fs, Absent)
Back(fs)   == [i \in DOMAIN fs |-> Step(fs[i], snap[fs[i]])]

\* ensureServiceUser, installManagedFiles.
Install(t) ==
  <<Step("user", IF disk["user"] # Absent THEN disk["user"] ELSE t)>>
  \o New(<<"vpskit", "singbox", "cores", "versions", "cert", "key">>, t)
  \o Gone(<<"acme">>)
  \o New(<<"acme", "config", "exports", "secrets", "env", "state", "ownership", "units">>, t)

\* installRealityOnlyManagedFiles: no certificate, no ACME account, no timer.
InstallReality(t) ==
  <<Step("user", IF disk["user"] # Absent THEN disk["user"] ELSE t)>>
  \o New(<<"vpskit", "singbox", "cores", "versions", "config", "exports", "secrets",
           "state", "ownership", "units">>, t)

\* Faulty: the secrets are not among what is removed.
UndoInstallNoSecrets(p) ==
  Gone(<<"units", "vpskit", "config", "exports", "versions", "singbox", "cores",
         "cert", "key", "acme", "state", "ownership">>
       \o IF snap["user"] = Absent THEN <<"user">> ELSE <<>>)

\* rollbackInitialInstall, once systemMutated is set.
UndoInstall(p) ==
  Gone(<<"units", "vpskit", "config", "exports", "versions", "singbox", "cores", "secrets",
         "env", "cert", "key", "acme", "state", "ownership">>
       \o IF snap["user"] = Absent THEN <<"user">> ELSE <<>>)

\* updateSelf: the staged assets and units, then activateProfileMutation.
Self(t) ==
  New(<<"vpskit", "singbox", "cores", "versions", "units", "config", "exports", "secrets",
        "state", "ownership">>, t)

\* rollbackSelfUpdate, over managedFiles.
UndoSelf ==
  Back(<<"vpskit", "singbox", "cores", "versions", "units", "config", "secrets", "exports",
         "state", "ownership">>)

\* updateCore.
Core(t, replaces) ==
  New((IF replaces THEN <<"singbox">> ELSE <<>>) \o <<"versions", "state", "ownership">>, t)

\* Faulty: versions.lock is not put back.
UndoCoreNoVersions(image, replaces) ==
  LET order == (IF replaces THEN <<"singbox">> ELSE <<>>) \o <<"state", "ownership">>
  IN  [i \in DOMAIN order |-> Step(order[i], image[order[i]])]

\* rollbackCoreUpdate, from the backup image of the transaction.
UndoCore(image, replaces) ==
  LET order == (IF replaces THEN <<"singbox">> ELSE <<>>) \o <<"state", "ownership", "versions">>
  IN  [i \in DOMAIN order |-> Step(order[i], image[order[i]])]

\* activateCertificateRenewal: the old lego tree is moved away, not replaced.
Cert(t) == New(<<"cert", "key">>, t) \o Gone(<<"acme">>) \o New(<<"acme">>, t)

\* rollbackCertificateRenewal: the lego tree only if it was moved away.
UndoCert(d) ==
  Back(<<"cert", "key">> \o IF d["acme"] # snap["acme"] THEN <<"acme">> ELSE <<>>)

\* Faulty: the unit files are not in the ownership list.
UninstallNoUnits(keepCert) ==
  Gone(<<"vpskit", "singbox", "cores", "versions", "config">>
       \o (IF keepCert THEN <<>> ELSE <<"cert", "key">>)
       \o <<"state", "ownership", "secrets", "env", "acme", "exports">>)

\* runUninstall: the owned files in their order, then directories, the longest
\* path first.
Uninstall(keepCert) ==
  Gone(<<"vpskit", "singbox", "cores", "versions", "units", "config">>
       \o (IF keepCert THEN <<>> ELSE <<"cert", "key">>)
       \o <<"state", "ownership", "secrets", "env", "acme", "exports">>)

\* applyRestoreEntries: by name in the backup, then lego, state and ownership.
Restore(image) ==
  LET order == <<"singbox", "vpskit", "cores", "cert", "key", "exports", "config", "secrets",
                 "units", "versions", "acme", "state", "ownership">>
  IN  [i \in DOMAIN order |-> Step(order[i], image[order[i]])]

Forward(p, t) ==
  CASE job[p].cmd = "install"        -> Install(t)
    [] job[p].cmd = "installReality" -> InstallReality(t)
    [] job[p].cmd = "self"           -> Self(t)
    [] job[p].cmd = "core"           -> Core(t, job[p].replaces)
    [] job[p].cmd = "cert"           -> Cert(t)

\* What the rollback of p's command does to the files d.
Undo(p, d) ==
  CASE job[p].cmd \in Installs -> UndoInstall(p)
    [] job[p].cmd = "self"     -> UndoSelf
    [] job[p].cmd = "core"     -> UndoCore(snap, job[p].replaces)
    [] job[p].cmd = "cert"     -> UndoCert(d)
    [] job[p].cmd = "recover"  -> Restore(snap)

-----------------------------------------------------------------------------
(* Control.                                                                *)

Fault == faults < MaxFault /\ faults' = faults + 1
Goto(p, l) == pc' = [pc EXCEPT ![p] = l]
Exit(p) == Goto(p, "idle") /\ job' = [job EXCEPT ![p] = NoJob]
Release(p) == /\ lock' = (IF lock = p THEN NoCli ELSE lock)
              /\ IF lock = p THEN todo' = <<>> /\ snap' = Empty ELSE UNCHANGED <<todo, snap>>

\* Faulty: a core update in progress is not looked for.
NoneIncomplete == {}

\* findIncompleteMutations.
Incomplete == {t \in TxId : journal[t].status = "IN_PROGRESS"}
Latest(t) == t \in Incomplete /\ \A u \in Incomplete : u <= t

\* Bound: a transaction number is left for every invocation under way.
Budget == nextTx + Cardinality({q \in Cli : job[q].cmd \in Command \ {"recover", "uninstall"}})
            <= MaxTx
Timer(p) == IF p \in Confined THEN timers < MaxTimer /\ timers' = timers + 1
            ELSE UNCHANGED timers

\* The command finds a core update in progress and recovers it first; what it
\* was given for is another invocation.
StartRecovery(p) ==
  /\ pc[p] = "idle" /\ Runs[p] # {} /\ Timer(p)
  /\ \E t \in TxId : /\ Latest(t)
                     /\ job' = [job EXCEPT ![p].cmd = "recover", ![p].target = t]
  /\ Goto(p, "wait")
  /\ UNCHANGED <<files, held, nextTx, crashes, faults>>

\* `recover` with nothing to recover says so (NOT_NEEDED).
NothingToRecover(p) ==
  /\ pc[p] = "idle" /\ "recover" \in Runs[p] /\ Incomplete = {}
  /\ UNCHANGED vars

\* validateDoctorManagedConfig: what is installed can be started over a
\* configuration that matches the state.
Trusted == /\ disk["state"] # Absent /\ disk["config"] = names[disk["state"]]["config"]
           /\ {disk["singbox"], disk["cores"]} \cap {Absent} = {}

\* `doctor --fix`, after a recovery if one is due: services that are down are
\* enabled and started.  It takes no lock.
DoctorFix(p) ==
  /\ pc[p] = "idle" /\ "recover" \in Runs[p] /\ Incomplete = {}
  /\ Trusted /\ disk["units"] # Absent
  /\ running' = IF running = Stopped THEN Serve(disk) ELSE running
  /\ UNCHANGED <<disk, journal, bak, names, untold, held, pc, job, count>>

\* What a command checks before it takes the lock.
Admits(c) ==
  /\ c \in Installs => /\ disk["state"] = Absent /\ disk["units"] = Absent
                       /\ running = Stopped
  /\ c = "self" => disk["state"] # Absent /\ running # Stopped
  /\ c = "cert" => /\ disk["state"] # Absent /\ disk["env"] # Absent
                   /\ disk["cert"] = disk["key"] /\ disk["cert"] # Absent
  /\ c = "uninstall" => disk["ownership"] # Absent

\* Nothing to recover: the command reads what it needs.
StartCommand(p, c) ==
  /\ pc[p] = "idle" /\ c \in Runs[p] \ {"recover"} /\ Timer(p)
  /\ c # "uninstall" => Budget
  /\ Incomplete = {} /\ Admits(c)
  /\ \E replaces \in IF c = "core" THEN BOOLEAN ELSE {FALSE} :
       job' = [job EXCEPT ![p].cmd = c, ![p].base = disk["state"], ![p].replaces = replaces]
  /\ Goto(p, "wait")
  /\ UNCHANGED <<files, held, nextTx, crashes, faults>>

\* AcquireProcessLock fails at once.
Busy(p) ==
  /\ pc[p] = "wait" /\ lock # NoCli
  /\ Exit(p)
  /\ UNCHANGED <<files, held, count>>

\* What is checked under the lock before anything is written: updateCore reads
\* its state and the core's digest there, the others copy what they will undo.
Ready(p) ==
  /\ job[p].cmd \in {"self", "core"} =>
       disk["state"] # Absent /\ running # Stopped /\ disk["ownership"] # Absent
  /\ job[p].cmd = "core" => disk["singbox"] = names[disk["state"]]["singbox"]
  /\ job[p].cmd = "cert" => {disk["cert"], disk["key"], disk["acme"]} \cap {Absent} = {}

\* The state p's transaction renders: what it writes, and what the state it
\* started from says of the rest.
Rendered(p, base, t) ==
  LET written == {Forward(p, t)[i].file : i \in DOMAIN Forward(p, t)}
  IN  [f \in File |-> IF f \in written THEN t
                      ELSE IF base = Absent THEN Absent ELSE names[base][f]]

\* Faulty: no record precedes the writes.
Unrecorded(c) == NoRecord

\* The record that precedes the writes: only updateCore has one.
Progress(c) ==
  IF c = "core"
  THEN [status |-> "IN_PROGRESS", cmd |-> c, backup |-> {"persistent", "local"}]
  ELSE NoRecord

\* The lock is taken and the transaction prepared: backups, staging, checks.
Begin(p) ==
  /\ pc[p] = "wait" /\ lock = NoCli /\ job[p].cmd \notin {"recover", "uninstall"}
  /\ Ready(p) /\ nextTx \in TxId
  /\ LET t    == nextTx
         base == IF job[p].cmd = "core" THEN disk["state"] ELSE job[p].base
     IN  /\ lock' = p /\ snap' = disk
         /\ todo' = Forward(p, t)
         /\ names' = IF job[p].cmd = "cert" THEN names
                     ELSE [names EXCEPT ![t] = Rendered(p, base, t)]
         /\ journal' = [journal EXCEPT ![t] = Progress(job[p].cmd)]
         /\ bak' = [bak EXCEPT ![t] = IF job[p].cmd = "core" THEN disk ELSE Empty]
         /\ job' = [job EXCEPT ![p].tx = t, ![p].base = base]
  /\ nextTx' = nextTx + 1
  /\ Goto(p, "write")
  /\ UNCHANGED <<disk, running, untold, crashes, faults, timers>>

\* A check, the backup or the staging fails: nothing is written, and nothing
\* recorded (where the deferred rollback is armed by then: Abort).
Refuse(p) ==
  /\ pc[p] = "wait" /\ lock = NoCli /\ job[p].cmd \notin {"recover", "uninstall"}
  /\ IF Ready(p) THEN Fault ELSE UNCHANGED faults
  /\ Exit(p)
  /\ UNCHANGED <<files, held, nextTx, crashes, timers>>

\* A persistent backup is restored over an installation, and only if its
\* configuration and its certificate match its state.
Usable(t) ==
  IF "persistent" \in journal[t].backup
  THEN /\ bak[t]["config"] = names[bak[t]["state"]]["config"]
       /\ bak[t]["cert"] = bak[t]["key"]
       /\ disk["state"] # Absent
  ELSE "local" \in journal[t].backup

\* recoverIncompleteMutation: by the persistent backup, or else by the
\* transaction's own copy.
BeginRecovery(p) ==
  /\ pc[p] = "wait" /\ lock = NoCli /\ job[p].cmd = "recover" /\ Usable(job[p].target)
  /\ LET t == job[p].target
     IN  IF "persistent" \in journal[t].backup
         THEN /\ todo' = Restore(bak[t])
              /\ Goto(p, "write")
              /\ UNCHANGED job
         ELSE /\ todo' = UndoCore(bak[t], names[t]["singbox"] = t)
              /\ Goto(p, "local")
              /\ job' = [job EXCEPT ![p].local = TRUE, ![p].restarted = TRUE]
  /\ lock' = p /\ snap' = disk
  /\ UNCHANGED <<files, count>>

\* The backup cannot be used, or a check of it fails.
RecoveryRefused(p) ==
  /\ pc[p] = "wait" /\ lock = NoCli /\ job[p].cmd = "recover"
  /\ IF Usable(job[p].target) THEN Fault ELSE UNCHANGED faults
  /\ Exit(p)
  /\ UNCHANGED <<files, held, nextTx, crashes, timers>>

\* The services are stopped and disabled.
BeginUninstall(p) ==
  /\ pc[p] = "wait" /\ lock = NoCli /\ job[p].cmd = "uninstall"
  /\ lock' = p /\ snap' = disk
  /\ \E keepCert \in BOOLEAN :
       /\ keepCert => disk["cert"] # Absent
       /\ todo' = Uninstall(keepCert)
       /\ job' = [job EXCEPT ![p].keepCert = keepCert]
  /\ running' = Stopped
  /\ Goto(p, "write")
  /\ UNCHANGED <<disk, journal, bak, names, untold, count>>

-----------------------------------------------------------------------------
(* Going forward.                                                          *)

After(d, step) == [d EXCEPT ![step.file] = step.to]

\* systemd refuses a confined invocation this write (ReadWritePaths).
Blocked(p) == p \in Confined /\ todo # <<>> /\ Head(todo).file \notin StateRoot

Write(p) ==
  /\ pc[p] = "write" /\ todo # <<>> /\ ~Blocked(p)
  /\ disk' = After(disk, Head(todo))
  /\ todo' = Tail(todo)
  /\ UNCHANGED <<running, journal, bak, names, untold, lock, snap, pc, job, count>>

\* The deferred rollback starts, from the files d.
Abandon(p, d) ==
  /\ todo' = Undo(p, d)
  /\ Goto(p, IF job[p].cmd \in Installs THEN "stop" ELSE "undo")

\* Nothing is written yet.
Unwritten(p) == disk = snap /\ todo = Forward(p, job[p].tx)

\* A write fails, with or without its effect, or a check after the last one.
\* An installation has set systemMutated.
WriteFails(p) ==
  /\ pc[p] = "write" /\ job[p].cmd # "uninstall"
  /\ job[p].cmd \in Installs => ~Unwritten(p)
  /\ IF Blocked(p) THEN UNCHANGED <<disk, faults>>
     ELSE Fault /\ disk' \in {disk} \cup {After(disk, todo[i]) : i \in DOMAIN todo \cap {1}}
  /\ Abandon(p, disk')
  /\ UNCHANGED <<running, journal, bak, names, untold, lock, snap, job, nextTx, crashes, timers>>

\* updateCore cannot record the phase APPLYING; an installation fails in its
\* staging or in useradd, before systemMutated is set; a renewal is not issued.
\* Nothing was written and nothing is undone.
Abort(p) ==
  /\ pc[p] = "write" /\ job[p].cmd \in Installs \cup {"core", "cert"} /\ Unwritten(p)
  /\ Fault
  /\ journal' = [journal EXCEPT ![job[p].tx] =
                   [status |-> (IF job[p].cmd = "core" THEN "ABORTED" ELSE "ROLLED_BACK"),
                    cmd |-> job[p].cmd, backup |-> {}]]
  /\ bak' = [bak EXCEPT ![job[p].tx] = Empty]
  /\ Exit(p) /\ Release(p)
  /\ UNCHANGED <<disk, running, names, untold, nextTx, crashes, timers>>

\* An update of the core that keeps the binary restarts nothing.
Restarts(p) == job[p].cmd = "core" => job[p].replaces

Restart(p) ==
  /\ pc[p] = "write" /\ todo = <<>> /\ job[p].cmd # "uninstall"
  /\ running' = IF Restarts(p) THEN Serve(disk) ELSE running
  /\ job' = [job EXCEPT ![p].restarted = Restarts(p)]
  /\ Goto(p, "commit")
  /\ UNCHANGED <<disk, journal, bak, names, untold, held, count>>

\* Faulty: restartAttempted is set once the restart has succeeded.
AttemptedAfter(p) == job[p].restarted

\* restartAttempted, set before the restart.
Attempted(p) == TRUE

\* The services do not come up, or only some do, or too late.
RestartFails(p) ==
  /\ pc[p] = "write" /\ todo = <<>> /\ job[p].cmd # "uninstall" /\ Restarts(p) /\ Fault
  /\ running' \in {running, Stopped, Serve(disk)}
  /\ job' = [job EXCEPT ![p].restarted = Attempted(p)]
  /\ Abandon(p, disk)
  /\ UNCHANGED <<disk, journal, bak, names, untold, lock, snap, nextTx, crashes, timers>>

\* The checks that come last: updateCore hashes the active configuration.
Verified(p) ==
  job[p].cmd = "core" => disk["config"] = names[job[p].base]["config"]

Commit(p) ==
  /\ pc[p] = "commit" /\ job[p].cmd # "recover" /\ Verified(p)
  /\ journal' = [journal EXCEPT ![job[p].tx] =
                   [status |-> "COMMITTED", cmd |-> job[p].cmd, backup |-> {}]]
  /\ bak' = [bak EXCEPT ![job[p].tx] = Empty]
  /\ Exit(p) /\ Release(p)
  /\ UNCHANGED <<disk, running, names, untold, count>>

CommitFails(p) ==
  /\ pc[p] = "commit"
  /\ IF job[p].cmd = "recover" \/ Verified(p) THEN Fault ELSE UNCHANGED faults
  /\ Abandon(p, disk)
  /\ UNCHANGED <<files, lock, snap, job, nextTx, crashes, timers>>

\* The command that stops here without a record of it: a core update is on
\* record, and so is a recovery, unless another invocation has completed the
\* same recovery, or has only to mark it.
Leaves(p) ==
  IF \/ (lock # p /\ pc[p] # "user") \/ job[p].cmd = "core"
     \/ /\ job[p].cmd = "recover" /\ journal[job[p].target].status = "IN_PROGRESS"
        /\ \A q \in Cli : pc[q] # "mark"
  THEN {} ELSE {job[p].cmd}

-----------------------------------------------------------------------------
(* Going back.                                                             *)

\* rollbackInitialInstall stops and disables the services; it does not look
\* whether that succeeds.
StopServices(p) ==
  /\ pc[p] = "stop"
  /\ \/ running' = Stopped /\ UNCHANGED <<untold, faults>>
     \/ Fault /\ untold' = untold \cup {job[p].cmd} /\ UNCHANGED running
  /\ Goto(p, "undo")
  /\ UNCHANGED <<disk, journal, bak, names, held, job, nextTx, crashes, timers>>

UndoStep(p) ==
  /\ pc[p] \in {"undo", "local"} /\ todo # <<>> /\ ~Blocked(p)
  /\ disk' = After(disk, Head(todo))
  /\ todo' = Tail(todo)
  /\ UNCHANGED <<running, journal, bak, names, untold, lock, snap, pc, job, count>>

\* rollbackInitialInstall ignores that state.json or ownership.json stays.
Ignored(p) == job[p].cmd \in Installs /\ Head(todo).file \in {"state", "ownership"}

\* A step back fails, with or without its effect; the lego tree may be gone.
\* The others are still taken, but rollbackRestore stops.
UndoFails(p) ==
  /\ pc[p] \in {"undo", "local"} /\ todo # <<>>
  /\ IF Blocked(p) THEN UNCHANGED <<disk, faults>>
     ELSE /\ Fault
          /\ \/ disk' \in {disk, After(disk, Head(todo))}
             \/ Head(todo).file = "acme" /\ disk' = [disk EXCEPT !["acme"] = Absent]
  /\ todo' = IF pc[p] = "undo" /\ job[p].cmd = "recover" THEN <<>> ELSE Tail(todo)
  /\ IF Ignored(p)
     THEN untold' = untold \cup {job[p].cmd} /\ UNCHANGED job
     ELSE job' = [job EXCEPT ![p].bad = TRUE] /\ UNCHANGED untold
  /\ UNCHANGED <<running, journal, bak, names, lock, snap, pc, nextTx, crashes, timers>>

\* rollbackCoreUpdate restarts whenever the binary was to be replaced.
Again(p) == job[p].cmd \notin Installs
            /\ (job[p].restarted \/ (job[p].cmd = "core" /\ job[p].replaces))

UndoRestart(p) ==
  /\ pc[p] \in {"undo", "local"} /\ todo = <<>> /\ Again(p)
  /\ \/ running' = Serve(disk) /\ UNCHANGED <<job, faults>>
     \/ /\ Fault /\ running' \in {running, Stopped, Serve(disk)}
        /\ job' = [job EXCEPT ![p].bad = TRUE]
  /\ Goto(p, IF pc[p] = "undo" THEN "settle" ELSE "localDone")
  /\ UNCHANGED <<disk, journal, bak, names, untold, held, nextTx, crashes, timers>>

Undone(p) == pc[p] = "settle" \/ (pc[p] = "undo" /\ todo = <<>> /\ ~Again(p))

\* Faulty: a status no reader of the journal knows.
RolledBackUnknown(p) == "FAILED"

\* The status of the final record.
RolledBack(p) == IF job[p].bad THEN "ROLLBACK_FAILED" ELSE "ROLLED_BACK"

\* The final record of a command that failed.
Settle(p) ==
  /\ Undone(p) /\ job[p].cmd # "recover"
  /\ journal' = [journal EXCEPT ![job[p].tx] =
                   [status |-> RolledBack(p), cmd |-> job[p].cmd, backup |-> {}]]
  /\ bak' = [bak EXCEPT ![job[p].tx] = Empty]
  /\ Exit(p) /\ Release(p)
  /\ UNCHANGED <<disk, running, names, untold, count>>

\* The final record is not written, which is ignored; a rollback without
\* errors has removed the transaction's own copies.
SettleUnrecorded(p) ==
  /\ Undone(p) /\ job[p].cmd # "recover" /\ Fault
  /\ IF job[p].cmd = "core"
     THEN /\ journal' = [journal EXCEPT ![job[p].tx].backup =
                           IF job[p].bad THEN @ ELSE @ \ {"local"}]
          /\ UNCHANGED untold
     ELSE untold' = untold \cup {job[p].cmd} /\ UNCHANGED journal
  /\ Exit(p) /\ Release(p)
  /\ UNCHANGED <<disk, running, bak, names, nextTx, crashes, timers>>

-----------------------------------------------------------------------------
(* The end of a recovery and of a removal.                                 *)

\* The files are restored: the lock is dropped before the record is marked.
Restored(p) ==
  /\ \/ pc[p] = "commit" /\ job[p].cmd = "recover"
     \/ pc[p] = "localDone" /\ ~job[p].bad
  /\ Goto(p, "mark") /\ Release(p)
  /\ UNCHANGED <<files, job, count>>

\* The restore was undone, or the local recovery had errors: the transaction
\* stays in progress.
RecoveryFails(p) ==
  /\ \/ Undone(p) /\ job[p].cmd = "recover"
     \/ pc[p] = "localDone" /\ job[p].bad
  /\ untold' = IF job[p].bad THEN untold \cup Leaves(p) ELSE untold
  /\ Exit(p) /\ Release(p)
  /\ UNCHANGED <<disk, running, journal, bak, names, count>>

\* RECOVERED, if the record is still there and can be written.  It names the
\* transaction's own copy if that was the source (recovery_source), and that
\* copy is kept.
Mark(p) ==
  /\ pc[p] = "mark"
  /\ \/ /\ journal[job[p].target].status # "NONE"
        /\ journal' = [journal EXCEPT ![job[p].target] =
                         [@ EXCEPT !.status = "RECOVERED",
                                   !.backup = IF job[p].local THEN {"local"} ELSE {}]]
        /\ bak' = IF job[p].local THEN bak ELSE [bak EXCEPT ![job[p].target] = Empty]
        /\ UNCHANGED faults
     \/ /\ IF journal[job[p].target].status # "NONE" THEN Fault ELSE UNCHANGED faults
        /\ UNCHANGED <<journal, bak>>
  /\ Exit(p)
  /\ UNCHANGED <<disk, running, names, untold, held, nextTx, crashes, timers>>

\* /var/lib/vpskit goes, the journal, the backups and the lock file with it;
\* unless the certificate is to stay.
RemoveRoot(p) ==
  /\ pc[p] = "write" /\ todo = <<>> /\ job[p].cmd = "uninstall"
  /\ IF job[p].keepCert THEN UNCHANGED <<disk, journal, bak, held>>
     ELSE /\ disk' = [f \in File |-> IF f \in StateRoot THEN Absent ELSE disk[f]]
          /\ journal' = [t \in TxId |-> NoRecord]
          /\ bak' = [t \in TxId |-> Empty]
          /\ Release(p)
  /\ Goto(p, "user")
  /\ UNCHANGED <<running, names, untold, job, count>>

\* userdel, groupdel: the removal has succeeded.
RemoveUser(p) ==
  /\ pc[p] = "user"
  /\ disk' = [disk EXCEPT !["user"] = Absent]
  /\ Exit(p) /\ Release(p)
  /\ UNCHANGED <<running, journal, bak, names, untold, count>>

\* A removal that fails ends there and then.
UninstallFails(p) ==
  /\ pc[p] \in {"write", "user"} /\ job[p].cmd = "uninstall" /\ Fault
  /\ untold' = untold \cup {"uninstall"}
  /\ Exit(p) /\ Release(p)
  /\ UNCHANGED <<disk, running, journal, bak, names, nextTx, crashes, timers>>

-----------------------------------------------------------------------------
(* Kills and the specification.                                            *)

Kill(p) ==
  /\ pc[p] # "idle" /\ crashes < MaxCrash
  /\ crashes' = crashes + 1
  /\ untold' = untold \cup Leaves(p)
  /\ Exit(p) /\ Release(p)
  /\ UNCHANGED <<disk, running, journal, bak, names, nextTx, faults, timers>>

\* systemd starts what is enabled.
Reboot ==
  /\ crashes < MaxCrash /\ \E p \in Cli : pc[p] # "idle"
  /\ crashes' = crashes + 1
  /\ untold' = untold \cup UNION {Leaves(p) : p \in Cli}
  /\ running' = IF disk["units"] = Absent THEN Stopped ELSE Serve(disk)
  /\ pc' = [p \in Cli |-> "idle"] /\ job' = [p \in Cli |-> NoJob]
  /\ lock' = NoCli /\ todo' = <<>> /\ snap' = Empty
  /\ UNCHANGED <<disk, journal, bak, names, nextTx, faults, timers>>

\* A persistent backup is lost (its directory is removed by hand).
LoseBackup(t) ==
  /\ {"persistent", "local"} \subseteq journal[t].backup /\ Fault
  /\ journal' = [journal EXCEPT ![t].backup = {"local"}]
  /\ UNCHANGED <<disk, running, bak, names, untold, held, pc, job, nextTx, crashes, timers>>

Proceed(p) ==
  \/ Busy(p) \/ Begin(p) \/ Refuse(p)
  \/ BeginRecovery(p) \/ RecoveryRefused(p) \/ BeginUninstall(p)
  \/ Write(p) \/ WriteFails(p) \/ Abort(p) \/ Restart(p) \/ RestartFails(p)
  \/ Commit(p) \/ CommitFails(p)
  \/ StopServices(p) \/ UndoStep(p) \/ UndoFails(p) \/ UndoRestart(p)
  \/ Settle(p) \/ SettleUnrecorded(p)
  \/ Restored(p) \/ RecoveryFails(p) \/ Mark(p)
  \/ RemoveRoot(p) \/ RemoveUser(p) \/ UninstallFails(p)

Next ==
  \/ \E p \in Cli : \/ StartRecovery(p) \/ NothingToRecover(p) \/ DoctorFix(p)
                    \/ \E c \in Command : StartCommand(p, c)
                    \/ Proceed(p) \/ Kill(p)
  \/ \E t \in TxId : LoseBackup(t)
  \/ Reboot

Spec == Init /\ [][Next]_vars

-----------------------------------------------------------------------------
(* Properties.                                                             *)

\* Every variable has its type, and only the holder of the lock has steps to
\* take.
TypeOK ==
  /\ disk \in Image /\ running \in [Serving -> Version]
  /\ journal \in [TxId -> Record] /\ bak \in [TxId -> Image] /\ names \in [TxId -> Image]
  /\ lock \in Cli \cup {NoCli} /\ snap \in Image
  /\ todo \in Seq([file : File, to : Version]) /\ (lock = NoCli => todo = <<>>)
  /\ job \in [Cli -> Job] /\ untold \subseteq Command
  /\ \A p \in Cli : pc[p] \in {"idle", "wait", "write", "commit", "stop", "undo", "local",
                              "settle", "localDone", "mark", "user"}

\* The files are those of one installation, or nothing but what a removal that
\* kept the certificate, or a failed first installation, may leave.
Whole ==
  /\ disk["cert"] = disk["key"]
  /\ IF disk["state"] = Absent
     THEN \A f \in File \ {"cert", "key", "user"} : disk[f] = Absent
     ELSE /\ \A f \in File \ {"cert", "key", "acme"} : disk[f] = names[disk["state"]][f]
          /\ names[disk["state"]]["cert"] # Absent => disk["acme"] = disk["cert"]

\* A transaction whose record says that the files may need attention: it is in
\* progress, its rollback failed, or its own copy was all there was to recover
\* from, which holds less than the attempts before may have written.
Marked ==
  \E t \in TxId : \/ journal[t].status \in {"IN_PROGRESS", "ROLLBACK_FAILED"}
                  \/ journal[t].status = "RECOVERED" /\ journal[t].backup = {"local"}

\* Whenever nobody is at work, files of two installations are mixed only if a
\* record says so, or a command that keeps no record of its beginning was cut
\* short.  A core update, killed or failing at any step, is always on record.
MixtureIsEvident == lock = NoCli /\ ~Whole => Marked \/ untold # {}

\* Whenever nobody is at work and nothing is amiss, the services run the files
\* that are installed: no path, back or forth, ends without the restart it
\* needs (restartAttempted, coreReplaced).
ServicesRunInstalled ==
  lock = NoCli /\ ~Marked /\ untold = {} =>
    running = IF disk["state"] = Absent THEN Stopped ELSE Serve(disk)

\* A change recorded as rolled back or aborted has left every file as it found
\* it, whatever step failed, and whether it had written or not.  For a first
\* installation, whose rollback removes what it may not have written, two
\* things are excepted: what an earlier failure or kill had left behind, and a
\* certificate that a removal had kept.
RollbackRestores ==
  [][\A t \in TxId :
       (journal'[t].status \in {"ROLLED_BACK", "ABORTED"} /\ journal'[t] # journal[t]) =>
       IF journal'[t].cmd \in Installs
       THEN \/ Marked \/ untold # {}
            \/ \A f \in File : disk'[f] = snap[f] \/ (f \in {"cert", "key"} /\ disk'[f] = Absent)
       ELSE disk' = snap]_vars

\* A core update recorded as recovered has every file of the core update back
\* as it found it, from either backup, even where a confined invocation or a
\* failed attempt came first, and the services run what is installed.
RecoveryRestores ==
  [][\A p \in Cli : pc[p] \in {"commit", "localDone"} /\ pc'[p] = "mark" =>
       /\ \A f \in {"singbox", "versions", "state", "ownership"} :
            disk[f] = bak[job[p].target][f]
       /\ running = Serve(disk)]_vars

\* A removal that reports success leaves the certificate it was asked to keep
\* with the files around it, and else nothing.
UninstallLeavesNothing ==
  [][\A p \in Cli : pc[p] = "user" /\ pc'[p] = "idle" /\ crashes' = crashes /\ faults' = faults =>
       /\ running' = Stopped
       /\ \A f \in File : disk'[f] # Absent => job[p].keepCert /\ f \in StateRoot]_vars

\* An operator's shell is not confined: it retries `vpskit recover`.
Fairness ==
  \A p \in Cli : WF_vars(Proceed(p)) /\ (p \notin Confined => WF_vars(StartRecovery(p)))

FairSpec == Spec /\ Fairness

\* A core update left in progress is resolved in the end, by an invocation that
\* is not confined, unless another change has damaged the backup it needs.
CoreEventuallyResolved ==
  \A t \in TxId : (journal[t].status = "IN_PROGRESS") ~>
    (journal[t].status # "IN_PROGRESS" \/ untold # {}
     \/ journal[t].backup = {}
     \/ \E u \in TxId : journal[u].status = "ROLLBACK_FAILED")
=============================================================================
