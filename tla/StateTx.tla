------------------------------ MODULE StateTx ------------------------------
(***************************************************************************)
(* The managed-state transaction engine of the vpskit command line:        *)
(*                                                                         *)
(*   - a mutating command reads state and secrets, takes the process lock, *)
(*     saves a persistent backup, records the transaction IN_PROGRESS,     *)
(*     replaces the managed files one rename at a time, checks and         *)
(*     restarts the services and records COMMITTED; a failure puts back    *)
(*     the snapshot taken before the first write (commitManagedStateChange *)
(*     and mutateInstalledInstance);                                       *)
(*   - `restore` and `rollback` replace the files by those of a backup     *)
(*     (restoreBackupWithOutput);                                          *)
(*   - commands that recover automatically first restore the backup of the *)
(*     latest transaction left IN_PROGRESS (recoverIncompleteMutation).    *)
(*                                                                         *)
(* Several invocations run at the same time (an operator's shells and the  *)
(* certificate timer).  Any of them may be killed between two steps, and   *)
(* any write, check or restart may fail.  The timer's unit cannot write    *)
(* outside /var/lib/vpskit: a restore it begins writes nothing.            *)
(*                                                                         *)
(* A transaction is numbered by the order of its identifier, and its       *)
(* number also names the content it renders: a file holds the number of    *)
(* the transaction whose rendering last changed it.                        *)
(***************************************************************************)
EXTENDS Naturals, FiniteSets

CONSTANTS
  Cli,          \* invocations of the program that may be alive together
  NoCli,        \* nobody (the lock is free)
  Runs,         \* Runs[p]: the commands p is used for
  Confined,     \* the invocations systemd starts from the renewal unit
  ConfigFiles,  \* the hashed service configurations (sing-box.json, xray.json)
  KeepBackups,  \* backups pruneBackups leaves (5 in the code)
  MaxTx,        \* bound: transactions
  MaxBackup,    \* bound: backups ever taken
  MaxCrash,     \* bound: kills
  MaxFault,     \* bound: failing operations
  LateErrors    \* TRUE: an atomic write may report an error after its rename

Command == {"instance", "node", "rules", "hysteria2", "restore", "rollback",
            "backup", "cleanup", "cert", "recover"}

ASSUME CliAssumption ==
  IsFiniteSet(Cli) /\ NoCli \notin Cli /\ Runs \in [Cli -> SUBSET Command]
ASSUME ConfinedAssumption ==
  Confined \subseteq Cli /\ \A p \in Confined : Runs[p] \subseteq {"cert"}
ASSUME FileAssumption == ConfigFiles \cap {"exports", "secret", "state"} = {}
ASSUME BoundAssumption ==
  /\ {KeepBackups, MaxTx, MaxBackup, MaxCrash, MaxFault} \subseteq Nat
  /\ LateErrors \in BOOLEAN

VARIABLES
  disk,    \* the managed files
  ver,     \* ver[v]: what transaction v rendered
  txn,     \* txn[t]: its transaction.json
  bk,      \* bk[b]: the backup directories
  lock,    \* holder of vpskit.lock
  snap,    \* the holder's transaction-local snapshot
  todo,    \* files the holder has still to write
  pc, job, \* where each invocation is, and its local variables
  nextTx, nextBk, crashes, faults

files == <<disk, ver, txn, bk>>
held  == <<lock, snap, todo>>
count == <<nextTx, nextBk, crashes, faults>>
vars  == <<disk, ver, txn, bk, lock, snap, todo, pc, job, nextTx, nextBk, crashes, faults>>

File     == ConfigFiles \cup {"exports", "secret", "state"}
TxId     == 1..MaxTx
Version  == 0..MaxTx
BackupId == 1..MaxBackup
Image    == [File -> Version]


\* An invocation of command c that recovers transaction t from backup b, and
\* one that does not exist.
JobFor(c, t, b) ==
  [cmd |-> c, own |-> 0, base |-> 0, sec |-> 0, target |-> t, src |-> b]
NoJob == JobFor("none", 0, 0)

\* Commands that render a new state.
Mutator == {"instance", "node", "rules", "hysteria2"}

\* Faulty: changes and the certificate timer no longer recover first.
AutoRecoversForgetful == {"backup", "cleanup"}

\* shouldAutoRecover: the commands that first recover what a kill left behind.
AutoRecovers == {"instance", "node", "backup", "cleanup", "cert"}

\* The commands whose IN_PROGRESS records findIncompleteMutations recognises,
\* and whose committed transactions rollback accepts.
Recoverable == {"instance", "node"}

\* The files whose content a command's new state changes.
Touches(c) ==
  CASE c = "instance"  -> File
    [] c = "hysteria2" -> File \ {"xray"}
    [] OTHER           -> {"exports", "state"}

Status == {"NONE", "IN_PROGRESS", "COMMITTED", "ROLLED_BACK", "ROLLBACK_FAILED",
           "RECOVERED", "REMOVED"}

\* The record a transaction directory holds, and one that was never written.
Record == [status : Status, cmd : Command \cup {"none"}, bk : BackupId \cup {0}]
\* A rendered state, a backup directory, an invocation's local variables.
Rendering == [image : Image, rev : Nat, carries : SUBSET TxId]
Backup == [kind : {"ABSENT", "PARTIAL", "SEALED"}, image : Image]
Job == [cmd : Command \cup {"none"}, own : Version, base : Version, sec : Version,
        target : Version, src : BackupId \cup {0}]

NoRecord == [status |-> "NONE", cmd |-> "none", bk |-> 0]

Unlocked == {"idle", "read", "secrets", "await", "awaitBackup", "awaitCleanup",
             "awaitRestore", "mark"}
Locked   == {"seal", "record", "apply", "publish", "undo", "restore"}

Init ==
  /\ disk = [f \in File |-> 0]
  /\ ver = [v \in Version |-> [image |-> [f \in File |-> 0], rev |-> 1, carries |-> {}]]
  /\ txn = [t \in TxId |-> NoRecord]
  /\ bk = [b \in BackupId |-> [kind |-> "ABSENT", image |-> [f \in File |-> 0]]]
  /\ lock = NoCli
  /\ snap = [f \in File |-> 0]
  /\ todo = {}
  /\ pc = [p \in Cli |-> "idle"]
  /\ job = [p \in Cli |-> NoJob]
  /\ nextTx = 1 /\ nextBk = 1 /\ crashes = 0 /\ faults = 0

-----------------------------------------------------------------------------
(* Reading the journal, and the control points of an invocation.           *)

\* Faulty: recovery recognises changes of instances only.
IncompleteInstance == {t \in TxId : txn[t].status = "IN_PROGRESS" /\ txn[t].cmd = "instance"}

\* Faulty: every recorded change counts as incomplete.
IncompleteOrCommitted ==
  {t \in TxId : txn[t].status \in {"IN_PROGRESS", "COMMITTED"} /\ txn[t].cmd \in Recoverable}

\* findIncompleteMutations.
Incomplete == {t \in TxId : txn[t].status = "IN_PROGRESS" /\ txn[t].cmd \in Recoverable}

\* The one recovery takes: the last by identifier.
Latest(t) == t \in Incomplete /\ \A u \in Incomplete : u <= t

\* Faulty: only committed transactions protect their backup.
ReferencedByCommitted == {txn[t].bk : t \in {u \in TxId : txn[u].status = "COMMITTED"}}

\* referencedBackupIDs: the backups that pruning and cleanup must keep.
ReferencedBackups ==
  {txn[t].bk : t \in {u \in TxId : txn[u].status \in {"COMMITTED", "IN_PROGRESS"}}}

Present == {b \in BackupId : bk[b].kind # "ABSENT"}

\* pruneBackups: the oldest unreferenced directories beyond KeepBackups,
\* whether complete or not, never the one just taken.
Pruned(new) ==
  LET removable == Present \ (ReferencedBackups \cup {new})
  IN  {b \in removable :
         Cardinality({x \in removable : x < b}) + KeepBackups < Cardinality(Present)}

\* The digest checks restoreBackupWithOutput makes on a staged backup.
DigestsMatch(image) ==
  \A f \in ConfigFiles : image[f] = ver[image["state"]].image[f]

Fault == faults < MaxFault /\ faults' = faults + 1

Goto(p, l) == pc' = [pc EXCEPT ![p] = l]

\* The invocation returns (its lock is dropped by the caller).
Exit(p) == Goto(p, "idle") /\ job' = [job EXCEPT ![p] = NoJob]

Release == lock' = NoCli /\ todo' = {} /\ UNCHANGED snap

\* What a command does once its automatic recovery is done.
Entry(c) ==
  CASE c \in Mutator     -> "read"
    [] c = "backup"      -> "awaitBackup"
    [] c = "cleanup"     -> "awaitCleanup"
    [] c \in Command \ (Mutator \cup {"backup", "cleanup"}) -> "idle"

\* Bounds: a command starts only if its transaction and backup can be numbered.
Budget(c) ==
  LET running(C) == Cardinality({q \in Cli : job[q].cmd \in C})
  IN  /\ c \in Mutator => nextTx + running(Mutator) <= MaxTx
      /\ c \in Mutator \cup {"backup"} => nextBk + running(Mutator \cup {"backup"}) <= MaxBackup

-----------------------------------------------------------------------------
(* Run: automatic recovery first, then the command.                        *)

\* recoverIncompleteMutation finds a transaction: its backup will be restored.
StartRecovery(p, c) ==
  /\ pc[p] = "idle" /\ c \in Runs[p] /\ Budget(c)
  /\ c \in AutoRecovers \cup {"recover"}
  /\ \E t \in TxId : Latest(t) /\ job' = [job EXCEPT ![p] = JobFor(c, t, txn[t].bk)]
  /\ Goto(p, "awaitRestore")
  /\ UNCHANGED <<files, held, count>>

\* Nothing to recover, or a command that does not look.
StartCommand(p, c) ==
  /\ pc[p] = "idle" /\ c \in Runs[p] /\ Budget(c)
  /\ c \notin {"restore", "rollback"}
  /\ c \in AutoRecovers \cup {"recover"} => Incomplete = {}
  /\ Goto(p, Entry(c))
  /\ job' = [job EXCEPT ![p] = IF Entry(c) = "idle" THEN NoJob ELSE JobFor(c, 0, 0)]
  /\ UNCHANGED <<files, held, count>>

\* restore <backup>: any backup whose manifest loads.
StartRestore(p, b) ==
  /\ pc[p] = "idle" /\ "restore" \in Runs[p] /\ bk[b].kind = "SEALED"
  /\ Goto(p, "awaitRestore")
  /\ job' = [job EXCEPT ![p] = JobFor("restore", 0, b)]
  /\ UNCHANGED <<files, held, count>>

\* rollback <transaction>: the backup of a committed, compatible transaction.
StartRollback(p, t) ==
  /\ pc[p] = "idle" /\ "rollback" \in Runs[p]
  /\ txn[t].status = "COMMITTED" /\ txn[t].cmd \in Recoverable
  /\ Goto(p, "awaitRestore")
  /\ job' = [job EXCEPT ![p] = JobFor("rollback", 0, txn[t].bk)]
  /\ UNCHANGED <<files, held, count>>

-----------------------------------------------------------------------------
(* A mutating command: read, lock, back up, record, apply, commit.         *)

\* readInstalledState, before the lock.
ReadState(p) ==
  /\ pc[p] = "read"
  /\ job' = [job EXCEPT ![p].base = disk["state"]]
  /\ Goto(p, "secrets")
  /\ UNCHANGED <<files, held, count>>

\* readInstalledSecrets, before the lock too.
ReadSecrets(p) ==
  /\ pc[p] = "secrets"
  /\ job' = [job EXCEPT ![p].sec = disk["secret"]]
  /\ Goto(p, "await")
  /\ UNCHANGED <<files, held, count>>

\* AcquireProcessLock fails at once when another invocation holds the lock.
Busy(p) ==
  /\ pc[p] \in {"await", "awaitBackup", "awaitCleanup", "awaitRestore"}
  /\ lock # NoCli
  /\ Exit(p)
  /\ UNCHANGED <<files, held, count>>

\* The lock is taken and a backup directory without a manifest appears.
OpenBackup(p) ==
  /\ pc[p] \in {"await", "awaitBackup"} /\ lock = NoCli /\ nextBk \in BackupId
  /\ lock' = p
  /\ bk' = [bk EXCEPT ![nextBk].kind = "PARTIAL"]
  /\ job' = [job EXCEPT ![p].src = nextBk]
  /\ nextBk' = nextBk + 1
  /\ Goto(p, "seal")
  /\ UNCHANGED <<disk, ver, txn, snap, todo, nextTx, crashes, faults>>

\* Every managed file is copied, the manifest is written, old backups go.
SealBackup(p) ==
  /\ pc[p] = "seal"
  /\ bk' = [b \in BackupId |->
              IF b = job[p].src THEN [kind |-> "SEALED", image |-> disk]
              ELSE IF b \in Pruned(job[p].src) THEN [bk[b] EXCEPT !.kind = "ABSENT"]
              ELSE bk[b]]
  /\ IF job[p].cmd = "backup" THEN Exit(p) /\ Release
     ELSE Goto(p, "record") /\ UNCHANGED <<job, held>>
  /\ UNCHANGED <<disk, ver, txn, count>>

\* The capture fails and its directory is removed; or pruning stops part way,
\* and the sealed backup stays.  The command ends before any record.
SealFails(p) ==
  /\ pc[p] = "seal" /\ Fault
  /\ \/ bk' = [bk EXCEPT ![job[p].src].kind = "ABSENT"]
     \/ \E gone \in SUBSET Pruned(job[p].src) :
          bk' = [b \in BackupId |->
                   IF b = job[p].src THEN [kind |-> "SEALED", image |-> disk]
                   ELSE IF b \in gone THEN [bk[b] EXCEPT !.kind = "ABSENT"]
                   ELSE bk[b]]
  /\ Exit(p) /\ Release
  /\ UNCHANGED <<disk, ver, txn, nextTx, nextBk, crashes>>

\* Faulty: the revision is not raised.
SameRevision(p) == ver[job[p].base].rev

\* updated.ConfigRevision = state.ConfigRevision + 1.
NextRevision(p) == ver[job[p].base].rev + 1

\* What p renders.  A file its command does not change keeps the content of
\* the state it read, unless the secrets it read belong to another state.
Rendered(p) ==
  LET old == ver[job[p].base].image
      new(f) == \/ f \in Touches(job[p].cmd)
                \/ f # "secret" /\ old["secret"] # job[p].sec
  IN [image   |-> [f \in File |-> IF new(f) THEN nextTx
                                  ELSE IF f = "secret" THEN job[p].sec ELSE old[f]],
      rev     |-> NextRevision(p),
      carries |-> ver[job[p].base].carries \cup {nextTx}]

\* Faulty: a status no reader of the journal knows.
InProgressUnknown(p) == [status |-> "STARTED", cmd |-> job[p].cmd, bk |-> job[p].src]

\* The progress record.
InProgress(p) == [status |-> "IN_PROGRESS", cmd |-> job[p].cmd, bk |-> job[p].src]

\* Snapshot, staging and staged checks, then the IN_PROGRESS record.
Begin(p) ==
  /\ pc[p] = "record" /\ nextTx \in TxId
  /\ snap' = disk
  /\ ver' = [ver EXCEPT ![nextTx] = Rendered(p)]
  /\ txn' = [txn EXCEPT ![nextTx] = InProgress(p)]
  /\ job' = [job EXCEPT ![p].own = nextTx]
  /\ todo' = File
  /\ nextTx' = nextTx + 1
  /\ Goto(p, "apply")
  /\ UNCHANGED <<disk, bk, lock, nextBk, crashes, faults>>

\* One of these fails: the command ends, its rollback not yet armed.  A late
\* error leaves the IN_PROGRESS record behind.
BeginFails(p) ==
  /\ pc[p] = "record" /\ Fault
  /\ \/ UNCHANGED <<ver, txn, nextTx>>
     \/ /\ LateErrors /\ nextTx \in TxId
        /\ ver' = [ver EXCEPT ![nextTx] = Rendered(p)]
        /\ txn' = [txn EXCEPT ![nextTx] = InProgress(p)]
        /\ nextTx' = nextTx + 1
  /\ Exit(p) /\ Release
  /\ UNCHANGED <<disk, bk, nextBk, crashes>>

\* activateProfileMutation: the configurations in map order, then exports,
\* secrets and, last of all, state.json.
ApplyOrder(f) ==
  \/ f \in ConfigFiles
  \/ f = "exports" /\ todo \cap ConfigFiles = {}
  \/ f = "secret" /\ todo \subseteq {"secret", "state"}
  \/ f = "state" /\ todo = {"state"}

Apply(p, f) ==
  /\ pc[p] = "apply" /\ f \in todo /\ ApplyOrder(f)
  /\ disk' = [disk EXCEPT ![f] = ver[job[p].own].image[f]]
  /\ todo' = todo \ {f}
  /\ UNCHANGED <<ver, txn, bk, lock, snap, pc, job, count>>

\* A write fails, with or without its effect; or, all files written, a check,
\* the restart, the health check or the COMMITTED record fails.
ApplyFails(p) ==
  /\ pc[p] = "apply" /\ Fault
  /\ \/ UNCHANGED <<disk, txn>>
     \/ /\ LateErrors
        /\ \E f \in todo : /\ ApplyOrder(f)
                           /\ disk' = [disk EXCEPT ![f] = ver[job[p].own].image[f]]
        /\ UNCHANGED txn
     \/ /\ LateErrors /\ todo = {}
        /\ txn' = [txn EXCEPT ![job[p].own].status = "COMMITTED"]
        /\ UNCHANGED disk
  /\ todo' = File
  /\ Goto(p, "undo")
  /\ UNCHANGED <<ver, bk, lock, snap, job, nextTx, nextBk, crashes>>

Commit(p) ==
  /\ pc[p] = "apply" /\ todo = {}
  /\ txn' = [txn EXCEPT ![job[p].own].status = "COMMITTED"]
  /\ Goto(p, "publish")
  /\ UNCHANGED <<disk, ver, bk, held, job, count>>

\* attemptAutoPublishSubscription, whose outcome changes nothing here; then
\* the deferred lock.Close.
Publish(p) ==
  /\ pc[p] = "publish"
  /\ Exit(p) /\ Release
  /\ UNCHANGED <<files, count>>

-----------------------------------------------------------------------------
(* Putting files back: restore, rollback, recovery and the undo of each.   *)

\* applyRestoreEntries: backup entries in path order, state.json last.
RestoreOrder(f) ==
  \/ f = "exports"
  \/ f \in ConfigFiles /\ "exports" \notin todo
  \/ f = "secret" /\ todo \subseteq {"secret", "state"}
  \/ f = "state" /\ todo = {"state"}

\* rollbackRestore from the transaction-local snapshot.
Undo(p, f) ==
  /\ pc[p] = "undo" /\ f \in todo /\ RestoreOrder(f)
  /\ disk' = [disk EXCEPT ![f] = snap[f]]
  /\ todo' = todo \ {f}
  /\ UNCHANGED <<ver, txn, bk, lock, snap, pc, job, count>>

\* Faulty: the outcome of the rollback is not looked at.
EndUndoBlind(p, status) ==
  /\ pc[p] = "undo"
  /\ txn' = IF job[p].own = 0 THEN txn
            ELSE [txn EXCEPT ![job[p].own].status = "ROLLED_BACK"]
  /\ Exit(p) /\ Release
  /\ UNCHANGED <<disk, ver, bk, nextTx, nextBk, crashes>>

\* The failed transaction's final record; a restore's own record is not kept.
EndUndo(p, status) ==
  /\ pc[p] = "undo"
  /\ txn' = IF job[p].own = 0 THEN txn
            ELSE [txn EXCEPT ![job[p].own].status = status]
  /\ Exit(p) /\ Release
  /\ UNCHANGED <<disk, ver, bk, nextTx, nextBk, crashes>>

UndoDone(p) == todo = {} /\ EndUndo(p, "ROLLED_BACK") /\ UNCHANGED faults

\* A copy or a restart of the rollback fails, or its record is not written.
UndoFails(p) ==
  /\ Fault
  /\ \/ EndUndo(p, "ROLLBACK_FAILED")
     \/ job[p].own # 0 /\ EndUndo(p, txn[job[p].own].status)

\* A backup that is named, loads and passes the checks of its staged copy.
Restorable(b) ==
  b \in BackupId /\ bk[b].kind = "SEALED" /\ DigestsMatch(bk[b].image)

\* restoreBackupWithOutput: load, lock, snapshot, stage and check.
BeginRestore(p) ==
  /\ pc[p] = "awaitRestore" /\ lock = NoCli
  /\ Restorable(job[p].src)
  /\ lock' = p
  /\ snap' = disk
  /\ todo' = File
  /\ Goto(p, "restore")
  /\ UNCHANGED <<files, job, count>>

\* The backup is gone or torn, or its staging fails: nothing is written.
RestoreRefused(p) ==
  /\ pc[p] = "awaitRestore" /\ lock = NoCli
  /\ IF Restorable(job[p].src) THEN Fault ELSE UNCHANGED faults
  /\ Exit(p)
  /\ UNCHANGED <<files, held, nextTx, nextBk, crashes>>

\* Faulty: exports are taken to be regenerated later.
RestoreServerOnly(p, f) ==
  /\ pc[p] = "restore" /\ p \notin Confined /\ f \in todo /\ RestoreOrder(f)
  /\ disk' = [disk EXCEPT ![f] = IF f = "exports" THEN @ ELSE bk[job[p].src].image[f]]
  /\ todo' = todo \ {f}
  /\ UNCHANGED <<ver, txn, bk, lock, snap, pc, job, count>>

\* One entry of the backup is copied into place.
Restore(p, f) ==
  /\ pc[p] = "restore" /\ p \notin Confined /\ f \in todo /\ RestoreOrder(f)
  /\ disk' = [disk EXCEPT ![f] = bk[job[p].src].image[f]]
  /\ todo' = todo \ {f}
  /\ UNCHANGED <<ver, txn, bk, lock, snap, pc, job, count>>

RestoreFails(p) ==
  /\ pc[p] = "restore" /\ p \notin Confined /\ Fault
  /\ \/ UNCHANGED disk
     \/ /\ LateErrors
        /\ \E f \in todo : /\ RestoreOrder(f)
                           /\ disk' = [disk EXCEPT ![f] = bk[job[p].src].image[f]]
  /\ todo' = File
  /\ Goto(p, "undo")
  /\ UNCHANGED <<ver, txn, bk, lock, snap, job, nextTx, nextBk, crashes>>

\* Services checked, restarted and healthy: the restore is over and its lock
\* released.  A recovery has still to mark the transaction.
RestoreDone(p) ==
  /\ pc[p] = "restore" /\ p \notin Confined /\ todo = {}
  /\ IF job[p].target = 0 THEN Exit(p) ELSE Goto(p, "mark") /\ UNCHANGED job
  /\ Release
  /\ UNCHANGED <<files, count>>

\* The renewal unit: the first entries are programs below /usr/local, which
\* systemd keeps it from writing, and from putting back.  The command ends.
Denied(p) ==
  /\ pc[p] = "restore" /\ p \in Confined
  /\ Exit(p) /\ Release
  /\ UNCHANGED <<files, count>>

\* Faulty: the record is written back as it was read.
MarkNothing(p) ==
  /\ pc[p] = "mark" /\ txn[job[p].target].status # "REMOVED"
  /\ LET c == job[p].cmd
     IN  IF Entry(c) = "idle" THEN Exit(p)
         ELSE Goto(p, Entry(c)) /\ job' = [job EXCEPT ![p] = JobFor(c, 0, 0)]
  /\ UNCHANGED <<files, held, count>>

\* recoverIncompleteMutation after the restore: re-read the record, mark it
\* RECOVERED whatever it says by now, and go on with the command.
Mark(p) ==
  /\ pc[p] = "mark" /\ txn[job[p].target].status # "REMOVED"
  /\ txn' = [txn EXCEPT ![job[p].target].status = "RECOVERED"]
  /\ LET c == job[p].cmd
     IN  IF Entry(c) = "idle" THEN Exit(p)
         ELSE Goto(p, Entry(c)) /\ job' = [job EXCEPT ![p] = JobFor(c, 0, 0)]
  /\ UNCHANGED <<disk, ver, bk, held, count>>

\* The record is gone or cannot be written: the command ends here.
MarkFails(p) ==
  /\ pc[p] = "mark"
  /\ IF txn[job[p].target].status = "REMOVED" THEN UNCHANGED faults ELSE Fault
  /\ Exit(p)
  /\ UNCHANGED <<files, held, nextTx, nextBk, crashes>>

-----------------------------------------------------------------------------
(* cleanup apply, and kills.                                               *)

\* The unprotected backups up to one age and the terminal records up to
\* another, always keeping the newest of each.
Cleanup(p) ==
  /\ pc[p] = "awaitCleanup" /\ lock = NoCli
  /\ LET loose == Present \ ReferencedBackups
         ended == {t \in TxId : txn[t].status \in {"COMMITTED", "ROLLED_BACK"}}
         old(S, age) == {x \in S : x <= age /\ \E y \in S : x < y}
     IN \E a \in BackupId \cup {0}, e \in Version :
          /\ bk' = [b \in BackupId |-> IF b \in old(loose, a)
                                       THEN [bk[b] EXCEPT !.kind = "ABSENT"] ELSE bk[b]]
          /\ txn' = [t \in TxId |-> IF t \in old(ended, e)
                                    THEN [txn[t] EXCEPT !.status = "REMOVED"] ELSE txn[t]]
  /\ Exit(p)
  /\ UNCHANGED <<disk, ver, held, count>>

\* SIGKILL, an out-of-memory kill or a reboot: the kernel drops the lock.
Crash(p) ==
  /\ pc[p] # "idle" /\ crashes < MaxCrash
  /\ crashes' = crashes + 1
  /\ Exit(p)
  /\ IF lock = p THEN Release ELSE UNCHANGED held
  /\ UNCHANGED <<files, nextTx, nextBk, faults>>

-----------------------------------------------------------------------------

Start(p) ==
  \/ \E c \in Command : StartRecovery(p, c) \/ StartCommand(p, c)
  \/ \E b \in BackupId : StartRestore(p, b)
  \/ \E t \in TxId : StartRollback(p, t)

\* What an invocation does without failing.
Proceed(p) ==
  \/ ReadState(p) \/ ReadSecrets(p) \/ Busy(p) \/ OpenBackup(p) \/ SealBackup(p)
  \/ Begin(p) \/ (\E f \in File : Apply(p, f)) \/ Commit(p) \/ Publish(p)
  \/ (\E f \in File : Undo(p, f)) \/ UndoDone(p)
  \/ BeginRestore(p) \/ RestoreRefused(p) \/ (\E f \in File : Restore(p, f))
  \/ RestoreDone(p) \/ Denied(p) \/ Mark(p) \/ MarkFails(p) \/ Cleanup(p)

Fails(p) ==
  SealFails(p) \/ BeginFails(p) \/ ApplyFails(p) \/ UndoFails(p) \/ RestoreFails(p)

Next == \E p \in Cli : Start(p) \/ Proceed(p) \/ Fails(p) \/ Crash(p)

Spec == Init /\ [][Next]_vars

-----------------------------------------------------------------------------
(* Properties.                                                             *)

\* Every variable has its type.
TypeOK ==
  /\ disk \in Image /\ snap \in Image /\ todo \subseteq File
  /\ ver \in [Version -> Rendering]
  /\ txn \in [TxId -> Record]
  /\ bk \in [BackupId -> Backup]
  /\ lock \in Cli \cup {NoCli}
  /\ pc \in [Cli -> Unlocked \cup Locked]
  /\ job \in [Cli -> Job]
  /\ nextTx \in Nat /\ nextBk \in Nat /\ crashes \in Nat /\ faults \in Nat

\* The installed files are not all those of the version state.json names.
Torn == disk # ver[disk["state"]].image

\* Some rollback failed: the command said so and left the rest to the operator.
Damaged == \E t \in TxId : txn[t].status = "ROLLBACK_FAILED"

\* Whoever may need a recovery can have it: the backup an IN_PROGRESS record
\* names is complete, whatever was pruned, cleaned up or killed meanwhile
\* (pruneBackups, buildCleanupPlan, recoverIncompleteMutation).
RecoverySource ==
  \A t \in TxId : txn[t].status = "IN_PROGRESS" =>
    txn[t].bk \in BackupId /\ bk[txn[t].bk].kind = "SEALED"

\* While nobody holds the lock, a mixture of two versions on disk is on
\* record: a transaction is IN_PROGRESS or its rollback failed
\* (commitManagedStateChange's order of record, writes and final record).
TornIsEvident ==
  lock = NoCli /\ Torn =>
    \E t \in TxId : txn[t].status \in {"IN_PROGRESS", "ROLLBACK_FAILED"}

\* No command takes its backup of, and renders its change from, an
\* installation a killed command left half written: automatic recovery comes
\* first (Run, shouldAutoRecover).
ChangesStartWhole ==
  ~Damaged => \A p \in Cli : pc[p] = "record" => ~Torn

\* A change reported as committed is still part of the installation once
\* nobody is working on it (no recovery of something else takes it away).
NoCommittedChangeLost ==
  lock = NoCli /\ Incomplete = {} /\ ~Damaged =>
    \A t \in TxId : txn[t].status = "COMMITTED" => t \in ver[disk["state"]].carries

\* Two committed changes never carry the same configuration revision, the
\* number clients and the publication identifier tell them apart by.
CommittedRevisionsDistinct ==
  \A t, u \in TxId : txn[t].status = "COMMITTED" /\ txn[u].status = "COMMITTED" /\ t # u =>
    ver[t].rev # ver[u].rev

\* A transaction recorded as rolled back has left every file, not only
\* state.json, as its persistent backup shows it (rollbackRestore).
RolledBackIsRestored ==
  [][\A t \in TxId : txn[t].status # "ROLLED_BACK" /\ txn'[t].status = "ROLLED_BACK" =>
       disk' = bk[txn[t].bk].image]_vars

\* So has a transaction recorded as recovered (recoverIncompleteMutation).
RecoveredIsRestored ==
  [][\A t \in TxId : txn[t].status # "RECOVERED" /\ txn'[t].status = "RECOVERED" =>
       disk' = bk[txn[t].bk].image]_vars

\* Only transactions that did not finish are undone by recovery: a record
\* leaves COMMITTED or ROLLED_BACK only when cleanup removes it.
OnlyIncompleteIsRecovered ==
  [][\A t \in TxId : txn[t].status \in {"COMMITTED", "ROLLED_BACK"} =>
       txn'[t].status \in {txn[t].status, "REMOVED"}]_vars

\* The version a reader of the journal takes to be installed: the one under
\* the change in progress, if there is one, else the one state.json names.
Settled ==
  IF Incomplete = {} THEN disk["state"]
  ELSE bk[txn[CHOOSE t \in TxId : Latest(t)].bk].image["state"]

Promise == INSTANCE Installation
  WITH Change <- TxId, changes <- ver[Settled].carries, revision <- ver[Settled].rev

\* The engine implements the abstract installation: changes are atomic,
\* ordered and never lost under kills and failures.
ImplementsInstallation == Promise!Spec

\* Every invocation keeps moving, and an operator who is told of an interrupted
\* transaction runs `recover` in the end.  The timer's recovery cannot write.
Fairness ==
  \A p \in Cli : /\ WF_vars(Proceed(p))
                 /\ p \notin Confined => WF_vars(StartRecovery(p, "recover"))

FairSpec == Spec /\ Fairness

\* An installation left half written is whole again, or its damage on record,
\* in the end.
EventuallyWhole == Torn ~> (~Torn \/ Damaged)

\* Every interrupted transaction is resolved in the end.  Where a rollback has
\* failed, a later backup may hold the damage and be refused for good.
EventuallyResolved ==
  \A t \in TxId : (t \in Incomplete) ~> (t \notin Incomplete \/ Damaged)
=============================================================================
