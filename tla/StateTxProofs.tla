--------------------------- MODULE StateTxProofs ---------------------------
(***************************************************************************)
(* Proofs about StateTx for every value of its bounds:                     *)
(*                                                                         *)
(*   - for any number of invocations and any assignment of commands: type  *)
(*     correctness, exclusion by the lock, that an interrupted transaction *)
(*     always has a complete backup, and that a transaction recorded as    *)
(*     rolled back has left what that backup shows;                        *)
(*   - for one invocation at a time that may write, of any commands, and   *)
(*     any number of confined ones: the same of a transaction recorded as  *)
(*     recovered, and that finished transactions are left alone;           *)
(*   - for the same, of commands that recover first: that changes start    *)
(*     from whole versions, are never lost and are numbered apart, and     *)
(*     that the engine implements Installation.                            *)
(***************************************************************************)
EXTENDS StateTx, TLAPS

\* Fresh local variables are well typed.
LEMMA JobTyped ==
  /\ \A c \in Command \cup {"none"}, t \in Version, b \in BackupId \cup {0} :
       JobFor(c, t, b) \in Job
  /\ NoJob \in Job
  /\ 0 \in Version
  <1>1. 0 \in Version
      BY BoundAssumption DEF Version
  <1> QED
      BY <1>1 DEF JobFor, NoJob, Job

\* The initial state is well typed.
LEMMA InitTyped == Init => TypeOK
  <1> SUFFICES ASSUME Init PROVE TypeOK
      OBVIOUS
  <1> USE BoundAssumption
  <1>1. [f \in File |-> 0] \in Image
      BY DEF Image, Version
  <1>2. lock \in Cli \cup {NoCli} /\ todo \subseteq File
      BY DEF Init
  <1>3. txn \in [TxId -> Record]
      BY DEF Init, NoRecord, Record, Status
  <1>4. pc \in [Cli -> Unlocked \cup Locked]
      BY DEF Init, Unlocked
  <1>5. job \in [Cli -> Job]
      BY JobTyped DEF Init
  <1>6. ver \in [Version -> Rendering]
      BY <1>1 DEF Init, Rendering
  <1>7. bk \in [BackupId -> Backup]
      BY <1>1 DEF Init, Backup
  <1> QED
      BY <1>1, <1>2, <1>3, <1>4, <1>5, <1>6, <1>7 DEF TypeOK, Init

\* An invocation that returns leaves well-typed local variables.
LEMMA ExitTyped ==
  ASSUME TypeOK, NEW p \in Cli, Exit(p)
  PROVE  pc' \in [Cli -> Unlocked \cup Locked] /\ job' \in [Cli -> Job]
  BY JobTyped DEF TypeOK, Exit, Goto, Unlocked

\* Releasing the lock is well typed.
LEMMA ReleaseTyped ==
  ASSUME TypeOK, Release
  PROVE  lock' \in Cli \cup {NoCli} /\ todo' \subseteq File /\ snap' \in Image
  BY DEF TypeOK, Release

\* Writing one file of a version, a snapshot or a backup keeps the disk typed.
LEMMA WriteTyped ==
  ASSUME TypeOK, NEW f \in File, NEW image \in Image,
         disk' = [disk EXCEPT ![f] = image[f]]
  PROVE  disk' \in Image
  BY DEF TypeOK, Image

\* What an invocation renders is well typed.
LEMMA RenderedTyped ==
  ASSUME TypeOK, NEW p \in Cli, nextTx \in TxId
  PROVE  Rendered(p) \in Rendering
  <1> DEFINE old == ver[job[p].base].image
  <1>1. job[p] \in Job /\ job[p].base \in Version /\ job[p].sec \in Version
      BY DEF TypeOK, Job
  <1>2. ver[job[p].base] \in Rendering
      BY <1>1 DEF TypeOK
  <1>3. /\ old \in Image /\ ver[job[p].base].rev \in Nat
        /\ ver[job[p].base].carries \in SUBSET TxId
      BY <1>2 DEF Rendering
  <1>4. nextTx \in Version
      BY BoundAssumption DEF TxId, Version
  <1>5. Rendered(p).image \in Image
      BY <1>1, <1>3, <1>4 DEF Rendered, Image
  <1>6. Rendered(p).rev \in Nat /\ Rendered(p).carries \in SUBSET TxId
      BY <1>3 DEF Rendered, NextRevision
  <1> QED
      BY <1>5, <1>6 DEF Rendered, Rendering

\* A record whose status changes stays a record.
LEMMA StatusTyped ==
  ASSUME TypeOK, NEW t, NEW s \in Status,
         txn' = [txn EXCEPT ![t].status = s]
  PROVE  txn' \in [TxId -> Record]
  BY DEF TypeOK, Record

\* What an invocation's place tells about the lock and its variables: whoever
\* is past the lock holds it, a restore in progress has a backup to copy from,
\* and whoever runs runs a command.
Placed ==
  \A p \in Cli :
    /\ pc[p] \in Locked => lock = p
    /\ pc[p] = "restore" => job[p].src \in BackupId
    /\ pc[p] # "idle" => job[p].cmd \in Command

\* Starting a command keeps the types.
LEMMA StartTyped ==
  ASSUME TypeOK, NEW p \in Cli, Start(p)
  PROVE  TypeOK'
  <1>2. ASSUME NEW t \in TxId
        PROVE  txn[t].bk \in BackupId \cup {0} /\ t \in Version
      BY BoundAssumption DEF TypeOK, Record, TxId, Version
  <1>3. CASE \E c \in Command : StartRecovery(p, c)
      BY JobTyped, <1>2, <1>3 DEF StartRecovery, TypeOK, Goto, Unlocked, files, held, count
  <1>4. CASE \E c \in Command : StartCommand(p, c)
      BY JobTyped, <1>4 DEF StartCommand, TypeOK, Goto, Unlocked, Entry, files, held, count
  <1>5. CASE \E b \in BackupId : StartRestore(p, b)
    <2>1. "restore" \in Command
        BY DEF Command
    <2> QED
        BY JobTyped, <1>5, <2>1 DEF StartRestore, TypeOK, Goto, Unlocked, files, held, count
  <1>6. CASE \E t \in TxId : StartRollback(p, t)
    <2>1. "rollback" \in Command
        BY DEF Command
    <2> QED
        BY JobTyped, <1>2, <1>6, <2>1 DEF StartRollback, TypeOK, Goto, Unlocked, files, held, count
  <1> QED
      BY <1>3, <1>4, <1>5, <1>6 DEF Start

\* Every step of an invocation that runs keeps the types.
LEMMA ProceedTyped ==
  ASSUME TypeOK, Placed, NEW p \in Cli, Proceed(p)
  PROVE  TypeOK'
  <1> USE DEF files, held, count
  <1>a. "state" \in File /\ "secret" \in File
      BY DEF File
  <1>b. disk["state"] \in Version /\ disk["secret"] \in Version
      BY <1>a DEF TypeOK, Image
  <1>c. \A v \in Version : ver[v].image \in Image
      BY DEF TypeOK, Rendering
  <1>d. \A b \in BackupId : bk[b].image \in Image
      BY DEF TypeOK, Backup
  <1>e. job[p] \in Job /\ job[p].own \in Version
      BY DEF TypeOK, Job
  <1>1. CASE ReadState(p)
      BY <1>b, <1>1 DEF ReadState, TypeOK, Goto, Unlocked, Job
  <1>2. CASE ReadSecrets(p)
      BY <1>b, <1>2 DEF ReadSecrets, TypeOK, Goto, Unlocked, Job
  <1>3. CASE Busy(p)
      BY <1>3, ExitTyped DEF Busy, TypeOK
  <1>4. CASE OpenBackup(p)
    <2>1. bk' \in [BackupId -> Backup]
        BY <1>4 DEF OpenBackup, TypeOK, Backup
    <2>2. job' \in [Cli -> Job]
        BY <1>4 DEF OpenBackup, TypeOK, Job
    <2> QED
        BY <1>4, <2>1, <2>2 DEF OpenBackup, TypeOK, Goto, Locked
  <1>5. CASE SealBackup(p)
    <2>1. bk' \in [BackupId -> Backup]
        BY <1>5 DEF SealBackup, TypeOK, Backup
    <2>2. CASE job[p].cmd = "backup"
        BY <1>5, <2>1, <2>2, ExitTyped, ReleaseTyped DEF SealBackup, TypeOK
    <2>3. CASE job[p].cmd # "backup"
        BY <1>5, <2>1, <2>3 DEF SealBackup, TypeOK, Goto, Locked
    <2> QED
        BY <2>2, <2>3
  <1>6. CASE Begin(p)
    <2>1. nextTx \in TxId /\ nextTx \in Version
        BY <1>6, BoundAssumption DEF Begin, TypeOK, TxId, Version
    <2>2. ver' \in [Version -> Rendering]
        BY <1>6, <2>1, RenderedTyped DEF Begin, TypeOK
    <2>3. InProgress(p) \in Record
        BY <1>e DEF InProgress, Record, Status, Job
    <2>4. txn' \in [TxId -> Record]
        BY <1>6, <2>1, <2>3 DEF Begin, TypeOK
    <2>5. job' \in [Cli -> Job]
        BY <1>6, <2>1 DEF Begin, TypeOK, Job
    <2> QED
        BY <1>6, <2>1, <2>2, <2>4, <2>5 DEF Begin, TypeOK, Goto, Locked
  <1>7. CASE \E f \in File : Apply(p, f)
    <2>1. PICK f \in File : Apply(p, f)
        BY <1>7
    <2>2. disk' \in Image
        BY <1>c, <1>e, <2>1, WriteTyped DEF Apply
    <2> QED
        BY <2>1, <2>2 DEF Apply, TypeOK
  <1>8. CASE Commit(p)
    <2>1. txn' \in [TxId -> Record]
        BY <1>8, StatusTyped DEF Commit, Status
    <2> QED
        BY <1>8, <2>1 DEF Commit, TypeOK, Goto, Locked
  <1>9. CASE Publish(p)
      BY <1>9, ExitTyped, ReleaseTyped DEF Publish, TypeOK
  <1>10. CASE \E f \in File : Undo(p, f)
    <2>1. PICK f \in File : Undo(p, f)
        BY <1>10
    <2>2. disk' \in Image
        BY <2>1, WriteTyped DEF Undo, TypeOK
    <2> QED
        BY <2>1, <2>2 DEF Undo, TypeOK
  <1>11. CASE UndoDone(p)
    <2>1. txn' \in [TxId -> Record]
        BY <1>11, StatusTyped DEF UndoDone, EndUndo, Status, TypeOK
    <2> QED
        BY <1>11, <2>1, ExitTyped, ReleaseTyped DEF UndoDone, EndUndo, TypeOK
  <1>12. CASE BeginRestore(p)
      BY <1>12 DEF BeginRestore, TypeOK, Goto, Locked
  <1>13. CASE RestoreRefused(p)
      BY <1>13, ExitTyped DEF RestoreRefused, TypeOK, Fault
  <1>14. CASE \E f \in File : Restore(p, f)
    <2>1. PICK f \in File : Restore(p, f)
        BY <1>14
    <2>2. job[p].src \in BackupId
        BY <2>1 DEF Restore, Placed
    <2>3. disk' \in Image
        BY <1>d, <2>1, <2>2, WriteTyped DEF Restore
    <2> QED
        BY <2>1, <2>3 DEF Restore, TypeOK
  <1>15. CASE RestoreDone(p)
    <2>1. CASE job[p].target = 0
        BY <1>15, <2>1, ExitTyped, ReleaseTyped DEF RestoreDone, TypeOK
    <2>2. CASE job[p].target # 0
        BY <1>15, <2>2, ReleaseTyped DEF RestoreDone, TypeOK, Goto, Unlocked
    <2> QED
        BY <2>1, <2>2
  <1>19. CASE Denied(p)
      BY <1>19, ExitTyped, ReleaseTyped DEF Denied, TypeOK
  <1>16. CASE Mark(p)
    <2>1. txn' \in [TxId -> Record]
        BY <1>16, StatusTyped DEF Mark, Status
    <2>2. CASE Entry(job[p].cmd) = "idle"
        BY <1>16, <2>1, <2>2, ExitTyped DEF Mark, TypeOK
    <2>3. CASE Entry(job[p].cmd) # "idle"
      <3>1. job[p].cmd \in Command
          BY <1>16 DEF Mark, Placed
      <3>2. Entry(job[p].cmd) \in Unlocked
          BY <3>1 DEF Entry, Unlocked
      <3> QED
          BY <1>16, <2>1, <2>3, <3>1, <3>2, JobTyped DEF Mark, TypeOK, Goto
    <2> QED
        BY <2>2, <2>3
  <1>17. CASE MarkFails(p)
      BY <1>17, ExitTyped DEF MarkFails, TypeOK, Fault
  <1>18. CASE Cleanup(p)
    <2>1. bk' \in [BackupId -> Backup]
        BY <1>18 DEF Cleanup, TypeOK, Backup
    <2>2. txn' \in [TxId -> Record]
        BY <1>18 DEF Cleanup, TypeOK, Record, Status
    <2> QED
        BY <1>18, <2>1, <2>2, ExitTyped DEF Cleanup, TypeOK
  <1> QED
      BY <1>1, <1>2, <1>3, <1>4, <1>5, <1>6, <1>7, <1>8, <1>9, <1>10, <1>11, <1>12,
         <1>13, <1>14, <1>15, <1>16, <1>17, <1>18, <1>19 DEF Proceed

\* Failing steps keep the types.
LEMMA FailsTyped ==
  ASSUME TypeOK, Placed, NEW p \in Cli, Fails(p)
  PROVE  TypeOK'
  <1>c. \A v \in Version : ver[v].image \in Image
      BY DEF TypeOK, Rendering
  <1>d. \A b \in BackupId : bk[b].image \in Image
      BY DEF TypeOK, Backup
  <1>e. job[p] \in Job /\ job[p].own \in Version
      BY DEF TypeOK, Job
  <1>1. CASE SealFails(p)
    <2>1. bk' \in [BackupId -> Backup]
        BY <1>1 DEF SealFails, TypeOK, Backup
    <2> QED
        BY <1>1, <2>1, ExitTyped, ReleaseTyped DEF SealFails, TypeOK, Fault
  <1>2. CASE BeginFails(p)
    <2>1. CASE nextTx \in TxId
      <3>1. InProgress(p) \in Record
          BY <1>e DEF InProgress, Record, Status, Job
      <3>2. nextTx \in Version
          BY <2>1, BoundAssumption DEF TxId, Version
      <3>3. ver' \in [Version -> Rendering] /\ txn' \in [TxId -> Record] /\ nextTx' \in Nat
          BY <1>2, <2>1, <3>1, <3>2, RenderedTyped DEF BeginFails, TypeOK
      <3> QED
          BY <1>2, <3>3, ExitTyped, ReleaseTyped DEF BeginFails, TypeOK, Fault
    <2>2. CASE nextTx \notin TxId
        BY <1>2, <2>2, ExitTyped, ReleaseTyped DEF BeginFails, TypeOK, Fault
    <2> QED
        BY <2>1, <2>2
  <1>3. CASE ApplyFails(p)
    <2>1. disk' \in Image
        BY <1>3, <1>c, <1>e, WriteTyped DEF ApplyFails, TypeOK
    <2>2. txn' \in [TxId -> Record]
        BY <1>3, StatusTyped DEF ApplyFails, Status, TypeOK
    <2> QED
        BY <1>3, <2>1, <2>2 DEF ApplyFails, TypeOK, Fault, Goto, Locked
  <1>4. CASE UndoFails(p)
    <2>1. CASE EndUndo(p, "ROLLBACK_FAILED")
      <3>1. txn' \in [TxId -> Record]
          BY <2>1, StatusTyped DEF EndUndo, Status, TypeOK
      <3> QED
          BY <1>4, <2>1, <3>1, ExitTyped, ReleaseTyped DEF UndoFails, EndUndo, TypeOK, Fault
    <2>2. CASE job[p].own # 0 /\ EndUndo(p, txn[job[p].own].status)
      <3>0. job[p].own \in TxId
          BY <1>e, <2>2, BoundAssumption DEF Version, TxId
      <3>1. txn' \in [TxId -> Record]
          BY <2>2, <3>0, StatusTyped DEF EndUndo, TypeOK, Record
      <3> QED
          BY <1>4, <2>2, <3>1, ExitTyped, ReleaseTyped DEF UndoFails, EndUndo, TypeOK, Fault
    <2> QED
        BY <1>4, <2>1, <2>2 DEF UndoFails
  <1>5. CASE RestoreFails(p)
    <2>0. job[p].src \in BackupId
        BY <1>5 DEF RestoreFails, Placed
    <2>1. disk' \in Image
        BY <1>5, <1>d, <2>0, WriteTyped DEF RestoreFails, TypeOK
    <2> QED
        BY <1>5, <2>1 DEF RestoreFails, TypeOK, Fault, Goto, Locked
  <1> QED
      BY <1>1, <1>2, <1>3, <1>4, <1>5 DEF Fails

\* So do kills.
LEMMA CrashTyped ==
  ASSUME TypeOK, NEW p \in Cli, Crash(p)
  PROVE  TypeOK'
  BY ExitTyped, ReleaseTyped DEF Crash, TypeOK, files, held

\* Each step keeps every invocation's place consistent with the lock.
LEMMA PlacedStep ==
  ASSUME TypeOK, Placed, NEW p \in Cli, Start(p) \/ Proceed(p) \/ Fails(p) \/ Crash(p)
  PROVE  Placed'
  <1> USE DEF Placed, TypeOK, files, held, count, Exit, Goto, Release
  <1>a. /\ NoCli \notin Cli
        /\ NoJob = [cmd |-> "none", own |-> 0, base |-> 0, sec |-> 0, target |-> 0, src |-> 0]
      BY CliAssumption DEF NoJob, JobFor
  <1>1. CASE Start(p)
      BY <1>1 DEF Start, StartRecovery, StartCommand, StartRestore, StartRollback, Locked,
         Entry, JobFor, Command
  <1>2. CASE Proceed(p)
    <2>1. CASE ReadState(p) \/ ReadSecrets(p)
      <3>1. job'[p].cmd = job[p].cmd /\ \A q \in Cli \ {p} : job'[q] = job[q]
          BY <2>1 DEF ReadState, ReadSecrets, Job
      <3>2. UNCHANGED lock /\ pc'[p] \in {"secrets", "await"} /\ pc[p] # "idle"
          BY <2>1 DEF ReadState, ReadSecrets
      <3>3. \A q \in Cli \ {p} : pc'[q] = pc[q]
          BY <2>1 DEF ReadState, ReadSecrets
      <3> QED
          BY <3>1, <3>2, <3>3 DEF Locked
    <2>0. CASE Busy(p)
        BY <1>a, <2>0 DEF Busy, Locked
    <2>2. CASE OpenBackup(p)
        BY <1>a, <2>2 DEF OpenBackup, Locked
    <2>3. CASE SealBackup(p)
        BY <1>a, <2>3 DEF SealBackup, Locked
    <2>4. CASE Begin(p)
        BY <2>4 DEF Begin, Locked
    <2>5. CASE \E f \in File : Apply(p, f) \/ Undo(p, f) \/ Restore(p, f)
        BY <2>5 DEF Apply, Undo, Restore
    <2>6. CASE Commit(p)
        BY <2>6 DEF Commit, Locked
    <2>7. CASE Publish(p) \/ UndoDone(p)
        BY <2>7 DEF Publish, UndoDone, EndUndo, Locked
    <2>8. CASE BeginRestore(p)
        BY <1>a, <2>8 DEF BeginRestore, Restorable, Locked
    <2>9. CASE RestoreRefused(p) \/ MarkFails(p) \/ Cleanup(p)
        BY <2>9 DEF RestoreRefused, MarkFails, Cleanup, Locked
    <2>10. CASE RestoreDone(p) \/ Denied(p)
        BY <1>a, <2>10 DEF RestoreDone, Denied, Locked
    <2>11. CASE Mark(p)
      <3>1. CASE Entry(job[p].cmd) = "idle"
          BY <1>a, <2>11, <3>1 DEF Mark, Locked
      <3>2. CASE Entry(job[p].cmd) # "idle"
        <4>1. job[p].cmd \in Command
            BY <2>11 DEF Mark
        <4>2. Entry(job[p].cmd) \in {"read", "awaitBackup", "awaitCleanup"}
            BY <3>2, <4>1 DEF Entry
        <4>3. job' = [job EXCEPT ![p] = JobFor(job[p].cmd, 0, 0)] /\ UNCHANGED lock
            BY <2>11, <3>2 DEF Mark
        <4>4. pc' = [pc EXCEPT ![p] = Entry(job[p].cmd)]
            BY <2>11, <3>2 DEF Mark
        <4>5. JobFor(job[p].cmd, 0, 0).cmd \in Command
            BY <4>1 DEF JobFor
        <4> QED
            BY <4>2, <4>3, <4>4, <4>5 DEF Locked
      <3> QED
          BY <3>1, <3>2
    <2> QED
        BY <1>2, <2>0, <2>1, <2>2, <2>3, <2>4, <2>5, <2>6, <2>7, <2>8, <2>9, <2>10, <2>11
        DEF Proceed
  <1>3. CASE Fails(p)
      BY <1>a, <1>3 DEF Fails, SealFails, BeginFails, ApplyFails, UndoFails, EndUndo,
         RestoreFails, Locked
  <1>4. CASE Crash(p)
      BY <1>a, <1>4 DEF Crash, Locked
  <1> QED
      BY <1>1, <1>2, <1>3, <1>4

\* A step without effect.
LEMMA StutterPlaced ==
  ASSUME TypeOK, Placed, UNCHANGED vars
  PROVE  TypeOK' /\ Placed'
  <1>1. TypeOK'
      BY DEF TypeOK, vars
  <1>2. Placed'
      BY DEF Placed, vars
  <1> QED
      BY <1>1, <1>2

\* In every reachable state the variables have their types, and an invocation
\* that is past AcquireProcessLock is the one that holds the lock.
THEOREM TypeCorrect == Spec => [](TypeOK /\ Placed)
  <1>1. Init => TypeOK /\ Placed
    <2>1. Init => Placed
        BY DEF Init, Placed, Locked
    <2> QED
        BY <2>1, InitTyped
  <1>2. TypeOK /\ Placed /\ [Next]_vars => TypeOK' /\ Placed'
    <2> SUFFICES ASSUME TypeOK, Placed, [Next]_vars PROVE TypeOK' /\ Placed'
        OBVIOUS
    <2>1. CASE Next
        BY <2>1, StartTyped, ProceedTyped, FailsTyped, CrashTyped, PlacedStep DEF Next
    <2>2. CASE UNCHANGED vars
        BY <2>2, StutterPlaced
    <2> QED
        BY <2>1, <2>2
  <1> QED
      BY <1>1, <1>2, PTL DEF Spec

-----------------------------------------------------------------------------

\* What makes a backup last as long as it may be needed: a backup number is
\* used once, the backup being filled belongs to no transaction yet, and the
\* one a command is about to name in its record is complete.
Sources ==
  /\ nextBk > 0
  /\ \A t \in TxId : txn[t].bk < nextBk
  /\ \A p \in Cli : pc[p] \in {"seal", "record"} =>
       job[p].src \in BackupId /\ job[p].src < nextBk
  /\ \A p \in Cli : pc[p] = "seal" => \A t \in TxId : txn[t].bk # job[p].src
  /\ \A p \in Cli : pc[p] = "record" => bk[job[p].src].kind = "SEALED"
  /\ RecoverySource

\* A step that touches no backup, starts no transaction and brings nobody to
\* the capture or to the record keeps the sources.
LEMMA SourcesKept ==
  ASSUME Sources, UNCHANGED <<bk, nextBk>>,
         \A t \in TxId : /\ txn'[t].bk = txn[t].bk
                         /\ txn'[t].status = "IN_PROGRESS" => txn[t].status = "IN_PROGRESS",
         \A q \in Cli : pc'[q] \in {"seal", "record"} =>
                          pc'[q] = pc[q] /\ job'[q].src = job[q].src
  PROVE  Sources'
  BY DEF Sources, RecoverySource

\* Finishing a record with any other status starts no transaction.
LEMMA StatusKept ==
  ASSUME TypeOK, NEW u, NEW s, s # "IN_PROGRESS" \/ (u \in TxId /\ s = txn[u].status),
         txn' = [txn EXCEPT ![u].status = s]
  PROVE  \A t \in TxId : /\ txn'[t].bk = txn[t].bk
                         /\ txn'[t].status = "IN_PROGRESS" => txn[t].status = "IN_PROGRESS"
  BY DEF TypeOK, Record

\* Each step keeps the sources.
LEMMA SourcesStep ==
  ASSUME TypeOK, Placed, Sources, NEW p \in Cli,
         Start(p) \/ Proceed(p) \/ Fails(p) \/ Crash(p)
  PROVE  Sources'
  <1> USE DEF files, held, count, Exit, Goto, Release
  <1>a. pc \in [Cli -> Unlocked \cup Locked] /\ job \in [Cli -> Job]
      BY DEF TypeOK
  <1>b. \A q \in Cli : pc[q] \in {"seal", "record"} => lock = q
      BY DEF Placed, Locked
  <1>1. CASE Start(p)
    <2>1. UNCHANGED <<bk, txn, nextBk>>
        BY <1>1 DEF Start, StartRecovery, StartCommand, StartRestore, StartRollback
    <2>2. \A q \in Cli : pc'[q] \in {"seal", "record"} => pc'[q] = pc[q] /\ q # p
      <3>1. \E l \in {"awaitRestore", "read", "awaitBackup", "awaitCleanup", "idle"} :
              pc' = [pc EXCEPT ![p] = l]
          BY <1>1 DEF Start, StartRecovery, StartCommand, StartRestore, StartRollback, Entry
      <3> QED
          BY <1>a, <3>1
    <2>3. \A q \in Cli \ {p} : job'[q] = job[q]
        BY <1>1, <1>a DEF Start, StartRecovery, StartCommand, StartRestore, StartRollback
    <2> QED
        BY <2>1, <2>2, <2>3, SourcesKept
  <1>2. CASE Proceed(p)
    <2>1. CASE ReadState(p) \/ ReadSecrets(p)
        BY <2>1, <1>a, SourcesKept DEF ReadState, ReadSecrets
    <2>2. CASE Busy(p) \/ RestoreRefused(p) \/ MarkFails(p) \/ Publish(p)
        BY <2>2, <1>a, SourcesKept DEF Busy, RestoreRefused, MarkFails, Publish
    <2>3. CASE OpenBackup(p)
      <3>1. \A q \in Cli : pc[q] \notin {"seal", "record"}
          BY <1>b, <2>3, CliAssumption DEF OpenBackup
      <3>2. /\ pc' = [pc EXCEPT ![p] = "seal"] /\ job'[p].src = nextBk
            /\ nextBk \in BackupId /\ nextBk' = nextBk + 1 /\ txn' = txn
            /\ \A b \in BackupId \ {nextBk} : bk'[b] = bk[b]
          BY <1>a, <2>3 DEF OpenBackup, TypeOK
      <3>3. nextBk \in Nat /\ \A t \in TxId : txn[t].bk \in Nat /\ txn[t].bk < nextBk
          BY BoundAssumption DEF TypeOK, Record, BackupId, Sources
      <3>4. RecoverySource'
          BY <3>2, <3>3 DEF Sources, RecoverySource
      <3> QED
          BY <1>a, <3>1, <3>2, <3>3, <3>4 DEF Sources
    <2>4. CASE SealBackup(p)
      <3> DEFINE b == job[p].src
      <3>1. pc[p] = "seal" /\ lock = p /\ b \in BackupId /\ b < nextBk
          BY <1>b, <2>4 DEF SealBackup, Sources
      <3>2. \A q \in Cli \ {p} : pc[q] \notin {"seal", "record"} /\ pc'[q] = pc[q]
          BY <1>a, <1>b, <2>4, <3>1 DEF SealBackup
      <3>3. bk'[b].kind = "SEALED" /\ UNCHANGED <<txn, nextBk>>
          BY <2>4, <3>1 DEF SealBackup
      <3>4. \A c \in BackupId : c # b /\ c \notin Pruned(b) => bk'[c] = bk[c]
          BY <2>4 DEF SealBackup
      <3>5. \A t \in TxId : txn[t].status = "IN_PROGRESS" => txn[t].bk \notin Pruned(b)
          BY DEF Pruned, ReferencedBackups
      <3>6. RecoverySource'
          BY <3>1, <3>3, <3>4, <3>5 DEF Sources, RecoverySource
      <3>7. pc'[p] = "idle" \/ (pc'[p] = "record" /\ job' = job)
          BY <1>a, <2>4 DEF SealBackup
      <3> QED
          BY <3>1, <3>2, <3>3, <3>6, <3>7 DEF Sources
    <2>5. CASE Begin(p)
      <3>1. /\ pc[p] = "record" /\ lock = p /\ nextTx \in TxId
            /\ job[p].src \in BackupId /\ job[p].src < nextBk
            /\ bk[job[p].src].kind = "SEALED"
          BY <1>b, <2>5 DEF Begin, Sources
      <3>2. \A q \in Cli : pc'[q] \notin {"seal", "record"}
          BY <1>a, <1>b, <2>5, <3>1 DEF Begin
      <3>3. /\ UNCHANGED <<bk, nextBk>> /\ txn'[nextTx].bk = job[p].src
            /\ \A t \in TxId \ {nextTx} : txn'[t] = txn[t]
          BY <2>5, <3>1 DEF Begin, InProgress, TypeOK
      <3> QED
          BY <3>1, <3>2, <3>3 DEF Sources, RecoverySource
    <2>6. CASE \E f \in File : Apply(p, f) \/ Undo(p, f) \/ Restore(p, f)
        BY <2>6, SourcesKept DEF Apply, Undo, Restore
    <2>7. CASE Commit(p)
        BY <2>7, <1>a, StatusKept, SourcesKept DEF Commit
    <2>8. CASE UndoDone(p)
      <3>1. CASE job[p].own = 0
          BY <2>8, <3>1, <1>a, SourcesKept DEF UndoDone, EndUndo
      <3>2. CASE job[p].own # 0
          BY <2>8, <3>2, <1>a, StatusKept, SourcesKept DEF UndoDone, EndUndo
      <3> QED
          BY <3>1, <3>2
    <2>9. CASE BeginRestore(p)
        BY <2>9, <1>a, SourcesKept DEF BeginRestore
    <2>10. CASE RestoreDone(p) \/ Denied(p)
        BY <2>10, <1>a, SourcesKept DEF RestoreDone, Denied
    <2>11. CASE Mark(p)
      <3>1. UNCHANGED <<bk, nextBk>> /\ \A t \in TxId :
              /\ txn'[t].bk = txn[t].bk
              /\ txn'[t].status = "IN_PROGRESS" => txn[t].status = "IN_PROGRESS"
          BY <2>11, StatusKept DEF Mark
      <3>2. \A q \in Cli \ {p} : pc'[q] = pc[q] /\ job'[q] = job[q]
          BY <1>a, <2>11 DEF Mark
      <3>3. pc'[p] \notin {"seal", "record"}
        <4>1. Entry(job[p].cmd) \in {"read", "awaitBackup", "awaitCleanup", "idle"}
          <5>1. job[p].cmd \in Command
              BY <2>11 DEF Mark, Placed
          <5> QED
              BY <5>1 DEF Entry
        <4> QED
            BY <1>a, <2>11, <4>1 DEF Mark
      <3> QED
          BY <3>1, <3>2, <3>3, SourcesKept
    <2>12. CASE Cleanup(p)
      <3>1. \A q \in Cli : pc[q] \notin {"seal", "record"} /\ pc'[q] \notin {"seal", "record"}
          BY <1>a, <1>b, <2>12, CliAssumption DEF Cleanup
      <3>2. \A b \in ReferencedBackups \cap BackupId : bk'[b] = bk[b]
          BY <2>12 DEF Cleanup
      <3>3. \A t \in TxId : txn'[t].bk = txn[t].bk /\ txn'[t].status \in {txn[t].status, "REMOVED"}
          BY <2>12 DEF Cleanup, TypeOK, Record
      <3>4. \A t \in TxId : txn[t].status = "IN_PROGRESS" => txn[t].bk \in ReferencedBackups
          BY DEF ReferencedBackups
      <3>5. UNCHANGED nextBk
          BY <2>12 DEF Cleanup
      <3> QED
          BY <3>1, <3>2, <3>3, <3>4, <3>5 DEF Sources, RecoverySource
    <2> QED
        BY <1>2, <2>1, <2>2, <2>3, <2>4, <2>5, <2>6, <2>7, <2>8, <2>9, <2>10, <2>11, <2>12
        DEF Proceed
  <1>3. CASE Fails(p)
    <2>1. CASE SealFails(p)
      <3>1. \A q \in Cli : pc'[q] \notin {"seal", "record"}
          BY <1>a, <1>b, <2>1 DEF SealFails
      <3>2. \A t \in TxId : txn[t].bk # job[p].src
          BY <2>1 DEF SealFails, Sources
      <3>3. \A c \in BackupId : c # job[p].src /\ c \notin Pruned(job[p].src) => bk'[c] = bk[c]
        <4>1. CASE bk' = [bk EXCEPT ![job[p].src].kind = "ABSENT"]
            BY <4>1 DEF TypeOK
        <4>2. CASE bk' # [bk EXCEPT ![job[p].src].kind = "ABSENT"]
            BY <2>1, <4>2 DEF SealFails
        <4> QED
            BY <4>1, <4>2
      <3>4. UNCHANGED <<txn, nextBk>>
          BY <2>1 DEF SealFails
      <3>5. \A t \in TxId : txn[t].status = "IN_PROGRESS" => txn[t].bk \notin Pruned(job[p].src)
          BY DEF Pruned, ReferencedBackups
      <3> QED
          BY <3>1, <3>2, <3>3, <3>4, <3>5 DEF Sources, RecoverySource
    <2>2. CASE BeginFails(p)
      <3>1. /\ job[p].src \in BackupId /\ job[p].src < nextBk
            /\ bk[job[p].src].kind = "SEALED"
          BY <2>2 DEF BeginFails, Sources
      <3>2. \A q \in Cli : pc'[q] \notin {"seal", "record"}
          BY <1>a, <1>b, <2>2 DEF BeginFails
      <3>3. UNCHANGED <<bk, nextBk>>
          BY <2>2 DEF BeginFails
      <3>4. \A t \in TxId : txn'[t] = txn[t] \/ txn'[t].bk = job[p].src
          BY <2>2 DEF BeginFails, InProgress, TypeOK
      <3> QED
          BY <3>1, <3>2, <3>3, <3>4 DEF Sources, RecoverySource
    <2>3. CASE ApplyFails(p)
      <3>1. \A t \in TxId : /\ txn'[t].bk = txn[t].bk
                            /\ txn'[t].status = "IN_PROGRESS" => txn[t].status = "IN_PROGRESS"
          BY <2>3, StatusKept DEF ApplyFails
      <3> QED
          BY <2>3, <3>1, <1>a, SourcesKept DEF ApplyFails
    <2>4. CASE UndoFails(p)
      <3>1. \A t \in TxId : /\ txn'[t].bk = txn[t].bk
                            /\ txn'[t].status = "IN_PROGRESS" => txn[t].status = "IN_PROGRESS"
        <4>1. job[p].own # 0 => job[p].own \in TxId
            BY <1>a, BoundAssumption DEF Job, Version, TxId
        <4> QED
            BY <2>4, <4>1, StatusKept DEF UndoFails, EndUndo
      <3> QED
          BY <2>4, <3>1, <1>a, SourcesKept DEF UndoFails, EndUndo
    <2>5. CASE RestoreFails(p)
        BY <2>5, <1>a, SourcesKept DEF RestoreFails
    <2> QED
        BY <1>3, <2>1, <2>2, <2>3, <2>4, <2>5 DEF Fails
  <1>4. CASE Crash(p)
      BY <1>4, <1>a, SourcesKept DEF Crash
  <1> QED
      BY <1>1, <1>2, <1>3, <1>4

\* Whatever is pruned, cleaned up, killed or failing, the backup an IN_PROGRESS
\* record names is there and complete: pruneBackups and cleanup read the
\* journal under the lock, and mutating commands complete the backup before
\* they write the record.
THEOREM RecoverySourceKept == Spec => []RecoverySource
  <1>1. Init => Sources
      BY BoundAssumption DEF Init, Sources, RecoverySource, NoRecord
  <1>2. TypeOK /\ Placed /\ Sources /\ [Next]_vars => Sources'
    <2> SUFFICES ASSUME TypeOK, Placed, Sources, [Next]_vars PROVE Sources'
        OBVIOUS
    <2>1. CASE Next
        BY <2>1, SourcesStep DEF Next
    <2>2. CASE UNCHANGED vars
        BY <2>2 DEF Sources, RecoverySource, vars
    <2> QED
        BY <2>1, <2>2
  <1>3. Sources => RecoverySource
      BY DEF Sources
  <1> QED
      BY <1>1, <1>2, <1>3, TypeCorrect, PTL DEF Spec

-----------------------------------------------------------------------------

\* Why an undone change leaves what its backup shows: the installation does not
\* move between the backup and the snapshot, both under the lock, and the undo
\* puts the snapshot back one file at a time.
Saved ==
  \A p \in Cli :
    /\ pc[p] = "record" => bk[job[p].src].image = disk
    /\ pc[p] \in {"apply", "undo"} /\ job[p].own # 0 => snap = bk[txn[job[p].own].bk].image
    /\ pc[p] = "undo" => \A f \in File \ todo : disk[f] = snap[f]
    /\ pc[p] \in {"awaitRestore", "restore"} => job[p].own = 0

\* A step taken away from the lock's protection, which leaves the records'
\* backups and every invocation's place or own transaction alone, keeps what is
\* saved.
LEMMA SavedKept ==
  ASSUME Saved, UNCHANGED <<disk, bk, snap, todo>>,
         \A t \in TxId : txn'[t].bk = txn[t].bk,
         \A q \in Cli : job[q].own # 0 => job[q].own \in TxId,
         \A q \in Cli : pc'[q] \in {"record", "apply", "undo", "awaitRestore", "restore"} =>
           pc'[q] = pc[q] /\ job'[q] = job[q]
  PROVE  Saved'
  BY DEF Saved

\* Changing a status names no other backup.
LEMMA BackupKept ==
  ASSUME TypeOK, NEW u, NEW s, txn' = [txn EXCEPT ![u].status = s]
  PROVE  \A t \in TxId : txn'[t].bk = txn[t].bk
  BY DEF TypeOK, Record

\* Once an invocation holding the lock has returned, nothing is in progress.
LEMMA SavedAfterExit ==
  ASSUME TypeOK, Placed, Saved, NEW p \in Cli, lock = p,
         \E l \in {"idle", "mark", "publish", "seal"} : pc' = [pc EXCEPT ![p] = l],
         \A q \in Cli \ {p} : job'[q] = job[q]
  PROVE  Saved'
  <1>1. \A q \in Cli \ {p} : pc[q] \notin Locked /\ pc'[q] = pc[q]
      BY DEF Placed, TypeOK
  <1>2. pc'[p] \notin {"record", "apply", "undo", "awaitRestore", "restore"}
      BY DEF TypeOK
  <1> QED
      BY <1>1, <1>2 DEF Saved, Locked

\* Each step keeps what is saved.
LEMMA SavedStep ==
  ASSUME TypeOK, Placed, Sources, Saved, NEW p \in Cli,
         Start(p) \/ Proceed(p) \/ Fails(p) \/ Crash(p)
  PROVE  Saved'
  <1> USE DEF files, held, count, Exit, Goto, Release
  <1>a. pc \in [Cli -> Unlocked \cup Locked] /\ job \in [Cli -> Job]
      BY DEF TypeOK
  <1>b. \A q \in Cli : pc[q] \in Locked => lock = q
      BY DEF Placed
  <1>c. \A q \in Cli : job[q].own # 0 => job[q].own \in TxId
      BY <1>a, BoundAssumption DEF Job, Version, TxId
  <1>d. lock = NoCli => \A q \in Cli : pc[q] \notin Locked
      BY <1>b, CliAssumption
  <1>1. CASE Start(p)
    <2>1. UNCHANGED <<disk, bk, snap, todo, txn>>
        BY <1>1 DEF Start, StartRecovery, StartCommand, StartRestore, StartRollback
    <2>2. \A q \in Cli \ {p} : job'[q] = job[q] /\ pc'[q] = pc[q]
        BY <1>1, <1>a DEF Start, StartRecovery, StartCommand, StartRestore, StartRollback
    <2>3. /\ pc'[p] \in {"awaitRestore", "read", "awaitBackup", "awaitCleanup", "idle"}
          /\ pc'[p] = "awaitRestore" => job'[p].own = 0
        BY <1>1, <1>a DEF Start, StartRecovery, StartCommand, StartRestore, StartRollback,
           Entry, JobFor
    <2> QED
        BY <2>1, <2>2, <2>3 DEF Saved
  <1>2. CASE Proceed(p)
    <2>1. CASE ReadState(p) \/ ReadSecrets(p)
        BY <2>1, <1>a, <1>c, SavedKept DEF ReadState, ReadSecrets
    <2>2. CASE Busy(p) \/ RestoreRefused(p) \/ MarkFails(p)
        BY <2>2, <1>a, <1>c, SavedKept DEF Busy, RestoreRefused, MarkFails
    <2>3. CASE OpenBackup(p)
      <3>1. \A q \in Cli : pc[q] \notin Locked
          BY <1>d, <2>3 DEF OpenBackup
      <3>2. \A q \in Cli \ {p} : pc'[q] = pc[q] /\ job'[q] = job[q]
          BY <1>a, <2>3 DEF OpenBackup
      <3>3. pc'[p] = "seal"
          BY <1>a, <2>3 DEF OpenBackup
      <3> QED
          BY <3>1, <3>2, <3>3 DEF Saved, Locked
    <2>4. CASE SealBackup(p)
      <3>1. lock = p /\ job[p].src \in BackupId
          BY <1>b, <2>4 DEF SealBackup, Sources, Locked
      <3>2. CASE job[p].cmd = "backup"
          BY <2>4, <3>1, <3>2, <1>a, SavedAfterExit DEF SealBackup
      <3>3. CASE job[p].cmd # "backup"
        <4>1. pc' = [pc EXCEPT ![p] = "record"] /\ UNCHANGED <<job, disk, held>>
            BY <2>4, <3>3 DEF SealBackup
        <4>2. bk'[job[p].src].image = disk
            BY <2>4, <3>1 DEF SealBackup
        <4>3. \A q \in Cli \ {p} : pc[q] \notin Locked /\ pc'[q] = pc[q]
            BY <1>a, <1>b, <3>1, <4>1
        <4> QED
            BY <1>a, <4>1, <4>2, <4>3 DEF Saved, Locked
      <3> QED
          BY <3>2, <3>3
    <2>5. CASE Begin(p)
      <3>1. lock = p /\ pc[p] = "record" /\ nextTx \in TxId
          BY <1>b, <2>5 DEF Begin, Locked
      <3>2. /\ txn'[nextTx].bk = job[p].src /\ snap' = disk
            /\ bk[job[p].src].image = disk /\ bk' = bk
            /\ job'[p].own = nextTx /\ pc'[p] = "apply"
          BY <1>a, <2>5, <3>1 DEF Begin, InProgress, Saved, TypeOK, Job
      <3>3. \A q \in Cli \ {p} : /\ pc[q] \notin Locked
                                 /\ pc'[q] = pc[q] /\ job'[q] = job[q]
          BY <1>a, <1>b, <2>5, <3>1 DEF Begin
      <3> QED
          BY <3>2, <3>3 DEF Saved, Locked
    <2>6. CASE \E f \in File : Apply(p, f) \/ Restore(p, f)
      <3>1. lock = p /\ pc[p] \in {"apply", "restore"}
          BY <1>b, <2>6 DEF Apply, Restore, Locked
      <3>2. UNCHANGED <<pc, job, txn, bk, snap>>
          BY <2>6 DEF Apply, Restore
      <3>3. \A q \in Cli \ {p} : pc[q] \notin Locked
          BY <1>b, <3>1
      <3> QED
          BY <3>1, <3>2, <3>3 DEF Saved, Locked
    <2>7. CASE \E f \in File : Undo(p, f)
      <3>1. PICK f \in File : Undo(p, f)
          BY <2>7
      <3>2. /\ lock = p /\ pc[p] = "undo"
            /\ UNCHANGED <<pc, job, txn, bk, snap>> /\ todo' = todo \ {f}
            /\ disk' = [disk EXCEPT ![f] = snap[f]]
          BY <1>b, <3>1 DEF Undo, Locked
      <3>3. \A q \in Cli \ {p} : pc[q] \notin Locked
          BY <1>b, <3>2
      <3>4. \A g \in File \ todo' : disk'[g] = snap[g]
          BY <3>2 DEF Saved, TypeOK, Image
      <3> QED
          BY <3>2, <3>3, <3>4 DEF Saved, Locked
    <2>8. CASE Commit(p) \/ Publish(p) \/ UndoDone(p)
      <3>1. lock = p
          BY <1>b, <2>8 DEF Commit, Publish, UndoDone, EndUndo, Locked
      <3> QED
          BY <1>a, <2>8, <3>1, SavedAfterExit DEF Commit, Publish, UndoDone, EndUndo
    <2>9. CASE BeginRestore(p)
      <3>1. \A q \in Cli : pc[q] \notin Locked
          BY <1>d, <2>9 DEF BeginRestore
      <3>2. \A q \in Cli \ {p} : pc'[q] = pc[q]
          BY <1>a, <2>9 DEF BeginRestore
      <3>3. pc'[p] = "restore" /\ job[p].own = 0 /\ job' = job
          BY <1>a, <2>9 DEF BeginRestore, Saved
      <3> QED
          BY <3>1, <3>2, <3>3 DEF Saved, Locked
    <2>10. CASE RestoreDone(p) \/ Denied(p)
      <3>1. lock = p
          BY <1>b, <2>10 DEF RestoreDone, Denied, Locked
      <3> QED
          BY <1>a, <2>10, <3>1, SavedAfterExit DEF RestoreDone, Denied
    <2>11. CASE Mark(p)
      <3>1. \A t \in TxId : txn'[t].bk = txn[t].bk
          BY <2>11, BackupKept DEF Mark
      <3>2. \A q \in Cli \ {p} : pc'[q] = pc[q] /\ job'[q] = job[q]
          BY <1>a, <2>11 DEF Mark
      <3>3. pc'[p] \in {"read", "awaitBackup", "awaitCleanup", "idle"}
        <4>1. job[p].cmd \in Command
            BY <2>11 DEF Mark, Placed
        <4>2. Entry(job[p].cmd) \in {"read", "awaitBackup", "awaitCleanup", "idle"}
            BY <4>1 DEF Entry
        <4> QED
            BY <1>a, <2>11, <4>2 DEF Mark
      <3> QED
          BY <2>11, <1>c, <3>1, <3>2, <3>3, SavedKept DEF Mark
    <2>12. CASE Cleanup(p)
      <3>1. \A q \in Cli : pc[q] \notin Locked
          BY <1>d, <2>12 DEF Cleanup
      <3>2. \A q \in Cli \ {p} : pc'[q] = pc[q] /\ job'[q] = job[q]
          BY <1>a, <2>12 DEF Cleanup
      <3>3. pc'[p] = "idle"
          BY <1>a, <2>12 DEF Cleanup
      <3> QED
          BY <3>1, <3>2, <3>3 DEF Saved, Locked
    <2> QED
        BY <1>2, <2>1, <2>2, <2>3, <2>4, <2>5, <2>6, <2>7, <2>8, <2>9, <2>10, <2>11, <2>12
        DEF Proceed
  <1>3. CASE Fails(p)
    <2>0. lock = p
        BY <1>b, <1>3 DEF Fails, SealFails, BeginFails, ApplyFails, UndoFails, EndUndo,
           RestoreFails, Locked
    <2>1. CASE SealFails(p) \/ BeginFails(p) \/ UndoFails(p)
        BY <1>a, <2>0, <2>1, SavedAfterExit DEF SealFails, BeginFails, UndoFails, EndUndo
    <2>2. CASE ApplyFails(p) \/ RestoreFails(p)
      <3>1. \A q \in Cli \ {p} : pc[q] \notin Locked /\ pc'[q] = pc[q]
          BY <1>a, <1>b, <2>0, <2>2 DEF ApplyFails, RestoreFails
      <3>2. /\ UNCHANGED <<job, bk, snap>> /\ todo' = File
            /\ pc[p] \in {"apply", "restore"} /\ pc'[p] = "undo"
          BY <1>a, <2>2 DEF ApplyFails, RestoreFails
      <3>3. \A t \in TxId : txn'[t].bk = txn[t].bk
          BY <2>2, BackupKept DEF ApplyFails, RestoreFails
      <3> QED
          BY <1>c, <3>1, <3>2, <3>3 DEF Saved, Locked
    <2> QED
        BY <1>3, <2>1, <2>2 DEF Fails
  <1>4. CASE Crash(p)
    <2>1. CASE lock = p
        BY <1>4, <1>a, <2>1, SavedAfterExit DEF Crash
    <2>2. CASE lock # p
        BY <1>4, <1>a, <1>c, <2>2, SavedKept DEF Crash
    <2> QED
        BY <2>1, <2>2
  <1> QED
      BY <1>1, <1>2, <1>3, <1>4

\* Only the end of an undo records ROLLED_BACK.
LEMMA RolledBackStep ==
  ASSUME TypeOK, Placed, Sources, Saved, NEW p \in Cli,
         Start(p) \/ Proceed(p) \/ Fails(p) \/ Crash(p),
         NEW t \in TxId, txn[t].status # "ROLLED_BACK", txn'[t].status = "ROLLED_BACK"
  PROVE  disk' = bk[txn[t].bk].image
  <1>1. UndoDone(p)
    <2> USE DEF files, held, count
    <2>1. ~ Start(p) /\ ~ Crash(p)
        BY DEF Start, StartRecovery, StartCommand, StartRestore, StartRollback, Crash
    <2>2. ~ Fails(p)
      <3>1. ~ SealFails(p) /\ ~ BeginFails(p) /\ ~ RestoreFails(p)
          BY DEF SealFails, BeginFails, RestoreFails, InProgress, TypeOK
      <3>2. ~ ApplyFails(p) /\ ~ UndoFails(p)
          BY DEF ApplyFails, UndoFails, EndUndo, TypeOK, Record
      <3> QED
          BY <3>1, <3>2 DEF Fails
    <2>3. ~ Begin(p) /\ ~ Commit(p) /\ ~ Mark(p) /\ ~ Cleanup(p)
        BY DEF Begin, Commit, Mark, Cleanup, InProgress, TypeOK, Record
    <2> QED
        BY <2>1, <2>2, <2>3 DEF Proceed, ReadState, ReadSecrets, Busy, OpenBackup, SealBackup,
           Apply, Publish, Undo, BeginRestore, RestoreRefused, Restore, RestoreDone, Denied, MarkFails
  <1>2. pc[p] = "undo" /\ job[p].own = t /\ disk' = disk /\ todo = {}
      BY <1>1 DEF UndoDone, EndUndo, TypeOK, Record
  <1>3. t # 0
      BY BoundAssumption DEF TxId
  <1>4. snap = bk[txn[t].bk].image /\ \A f \in File : disk[f] = snap[f]
      BY <1>2, <1>3 DEF Saved
  <1> QED
      BY <1>2, <1>4 DEF TypeOK, Image

\* A confined invocation only looks for something to recover, and begins it.
Confines == \A p \in Confined : pc[p] \in {"idle", "awaitRestore", "restore"}

LEMMA ConfinesStep ==
  ASSUME TypeOK, Placed, Confines, NEW p \in Cli,
         Start(p) \/ Proceed(p) \/ Fails(p) \/ Crash(p)
  PROVE  Confines'
  <1> USE DEF files, held, count, Goto, Exit
  <1>1. pc \in [Cli -> Unlocked \cup Locked] /\ Confined \subseteq Cli
      BY ConfinedAssumption DEF TypeOK
  <1>2. \A q \in Cli \ {p} : pc'[q] = pc[q]
      BY <1>1 DEF Start, StartRecovery, StartCommand, StartRestore, StartRollback, Proceed,
         ReadState, ReadSecrets, Busy, OpenBackup, SealBackup, Begin, Apply, Commit, Publish,
         Undo, UndoDone, EndUndo, BeginRestore, RestoreRefused, Restore, RestoreDone, Denied,
         Mark, MarkFails, Cleanup, Fails, SealFails, BeginFails, ApplyFails, UndoFails,
         RestoreFails, Crash
  <1>3. ASSUME p \in Confined PROVE pc'[p] \in {"idle", "awaitRestore", "restore"}
    <2>1. pc[p] \in {"idle", "awaitRestore", "restore"} /\ Runs[p] \subseteq {"cert"}
        BY <1>3, ConfinedAssumption DEF Confines
    <2>2. CASE Start(p)
      <3>1. ~\E b \in BackupId : StartRestore(p, b)
          BY <2>1 DEF StartRestore
      <3>2. ~\E t \in TxId : StartRollback(p, t)
          BY <2>1 DEF StartRollback
      <3>3. ASSUME NEW c \in Command, StartRecovery(p, c) \/ StartCommand(p, c)
            PROVE  pc'[p] \in {"idle", "awaitRestore"}
        <4>1. Entry("cert") = "idle"
            BY DEF Entry, Mutator, Command
        <4>2. c = "cert"
            BY <2>1, <3>3 DEF StartRecovery, StartCommand
        <4> QED
            BY <1>1, <3>3, <4>1, <4>2 DEF StartRecovery, StartCommand
      <3> QED
          BY <2>2, <3>1, <3>2, <3>3 DEF Start
    <2>3. CASE Proceed(p)
      <3>1. Busy(p) \/ BeginRestore(p) \/ RestoreRefused(p) \/ Denied(p)
          BY <1>3, <2>1, <2>3 DEF Proceed, ReadState, ReadSecrets, OpenBackup, SealBackup, Begin,
             Apply, Commit, Publish, Undo, UndoDone, EndUndo, Restore, RestoreDone, Mark,
             MarkFails, Cleanup
      <3> QED
          BY <1>1, <3>1 DEF Busy, BeginRestore, RestoreRefused, Denied
    <2>4. ~Fails(p)
        BY <1>3, <2>1 DEF Fails, SealFails, BeginFails, ApplyFails, UndoFails, EndUndo,
           RestoreFails
    <2>5. CASE Crash(p)
        BY <1>1, <2>5 DEF Crash
    <2> QED
        BY <2>2, <2>3, <2>4, <2>5
  <1> QED
      BY <1>1, <1>2, <1>3 DEF Confines

\* What every invocation may count on, together.
Safely == TypeOK /\ Placed /\ Sources /\ Saved /\ Confines

\* In every reachable state, for any invocations.
LEMMA Safety == Spec => []Safely
  <1>1. Init => Sources /\ Saved /\ Confines
      BY BoundAssumption, ConfinedAssumption
      DEF Init, Sources, RecoverySource, NoRecord, Saved, Confines
  <1>2. TypeOK /\ Placed /\ Sources /\ Saved /\ Confines /\ [Next]_vars =>
          Sources' /\ Saved' /\ Confines'
    <2> SUFFICES ASSUME TypeOK, Placed, Sources, Saved, Confines, [Next]_vars
                 PROVE  Sources' /\ Saved' /\ Confines'
        OBVIOUS
    <2>1. CASE Next
        BY <2>1, SourcesStep, SavedStep, ConfinesStep DEF Next
    <2>2. CASE UNCHANGED vars
        BY <2>2 DEF Sources, RecoverySource, Saved, Confines, vars
    <2> QED
        BY <2>1, <2>2
  <1> QED
      BY <1>1, <1>2, TypeCorrect, PTL DEF Spec, Safely

\* A transaction recorded as rolled back has left every managed file as the
\* persistent backup taken before it shows it, for any interleaving, kill or
\* failure before (commitManagedStateChange, rollbackRestore).
THEOREM RolledBackRestored == Spec => RolledBackIsRestored
  <1> DEFINE A == \A t \in TxId :
                    txn[t].status # "ROLLED_BACK" /\ txn'[t].status = "ROLLED_BACK" =>
                      disk' = bk[txn[t].bk].image
  <1>1. Safely /\ [Next]_vars => [A]_vars
    <2> SUFFICES ASSUME TypeOK, Placed, Sources, Saved, Next, NEW t \in TxId,
                        txn[t].status # "ROLLED_BACK", txn'[t].status = "ROLLED_BACK"
                 PROVE  disk' = bk[txn[t].bk].image
        BY DEF Safely
    <2> QED
        BY RolledBackStep DEF Next
  <1> QED
      BY <1>1, Safety, PTL DEF Spec, RolledBackIsRestored

-----------------------------------------------------------------------------
(* One invocation at a time that may write, of any commands, beside any    *)
(* number of confined ones.                                                *)

\* The invocations that may write, at most one of which is alive.
Writer     == Cli \ Confined
OneAtATime == \A p, q \in Writer : p = q

\* What p goes by, if it does not hold the lock; what it goes by, if it does.
Beside(p) ==
  /\ pc'[p] = pc[p] /\ job'[p] = job[p] /\ UNCHANGED <<disk, ver, txn, bk, nextTx>>
  /\ pc[p] \in Locked => UNCHANGED <<snap, todo>>

\* A confined invocation leaves it to the others.
LEMMA ConfinedStep ==
  ASSUME Safely, NEW c \in Confined, Start(c) \/ Proceed(c) \/ Fails(c) \/ Crash(c)
  PROVE  /\ UNCHANGED <<disk, ver, txn, bk, nextTx>> /\ snap' \in {snap, disk}
         /\ \A p \in Writer : Beside(p)
  <1> USE DEF files, held, count, Goto, Exit, Release
  <1>1. /\ pc \in [Cli -> Unlocked \cup Locked] /\ job \in [Cli -> Job] /\ c \in Cli
        /\ pc[c] \in {"idle", "awaitRestore", "restore"} /\ Runs[c] \subseteq {"cert"}
        /\ \A p \in Cli : pc[p] \in Locked => lock = p
      BY ConfinedAssumption DEF Safely, TypeOK, Confines, Placed
  <1>2. NoCli \notin Cli /\ \A p \in Writer : p \in Cli /\ p # c
      BY CliAssumption DEF Writer
  <1>3. \/ \E x \in Command : StartRecovery(c, x) \/ StartCommand(c, x)
        \/ Busy(c) \/ BeginRestore(c) \/ RestoreRefused(c) \/ Denied(c) \/ Crash(c)
    <2>1. ~Fails(c)
        BY <1>1 DEF Fails, SealFails, BeginFails, ApplyFails, UndoFails, EndUndo, RestoreFails
    <2>2. ~(\E b \in BackupId : StartRestore(c, b)) /\ ~\E t \in TxId : StartRollback(c, t)
        BY <1>1 DEF StartRestore, StartRollback
    <2>3. Proceed(c) => Busy(c) \/ BeginRestore(c) \/ RestoreRefused(c) \/ Denied(c)
        BY <1>1 DEF Proceed, ReadState, ReadSecrets, OpenBackup, SealBackup, Begin, Apply,
           Commit, Publish, Undo, UndoDone, EndUndo, Restore, RestoreDone, Mark, MarkFails,
           Cleanup
    <2> QED
        BY <2>1, <2>2, <2>3 DEF Start
  <1>4. /\ UNCHANGED <<disk, ver, txn, bk, nextTx>> /\ snap' \in {snap, disk}
        /\ \A p \in Cli \ {c} : pc'[p] = pc[p] /\ job'[p] = job[p]
      BY <1>1, <1>3 DEF StartRecovery, StartCommand, Busy, BeginRestore, RestoreRefused, Denied,
         Crash
  <1>5. UNCHANGED <<snap, todo>> \/ lock \in {NoCli, c}
    <2>1. Denied(c) => lock = c
        BY <1>1 DEF Denied, Locked
    <2> QED
        BY <1>3, <2>1 DEF StartRecovery, StartCommand, Busy, BeginRestore, RestoreRefused, Crash
  <1>6. ASSUME NEW p \in Writer PROVE Beside(p)
    <2>1. p \in Cli /\ p # c /\ p # NoCli
        BY <1>2
    <2>2. pc[p] \in Locked => lock = p
        BY <1>1, <2>1
    <2>3. pc[p] \in Locked => UNCHANGED <<snap, todo>>
        BY <1>5, <2>1, <2>2
    <2> QED
        BY <1>4, <2>1, <2>3 DEF Beside
  <1> QED
      BY <1>4, <1>6

\* Where a recovery is: it has the backup that its transaction names, and the
\* files it has put back are those of the backup.
Follows(p) ==
  LET j == job[p] IN
  /\ pc[p] \in {"awaitRestore", "restore", "mark"} /\ j.target # 0 =>
       j.target \in TxId /\ j.src = txn[j.target].bk
  /\ pc[p] = "restore" => \A f \in File \ todo : disk[f] = bk[j.src].image[f]
  /\ pc[p] = "mark" => j.target # 0 /\ disk = bk[j.src].image

LEMMA FollowsStep ==
  ASSUME Safely, NEW p \in Cli, Follows(p), Start(p) \/ Proceed(p) \/ Fails(p) \/ Crash(p)
  PROVE  Follows(p)'
  <1> USE DEF files, held, count
  <1>1. /\ pc \in [Cli -> Unlocked \cup Locked] /\ job \in [Cli -> Job]
        /\ disk \in [File -> Version]
      BY DEF Safely, TypeOK, Image
  <1>2. CASE Start(p)
    <2>1. ASSUME NEW c \in Command, StartRecovery(p, c)
          PROVE  Follows(p)'
      <3>1. PICK t \in TxId : job' = [job EXCEPT ![p] = JobFor(c, t, txn[t].bk)]
          BY <2>1 DEF StartRecovery
      <3>2. job'[p].target = t /\ job'[p].src = txn[t].bk
          BY <1>1, <3>1 DEF JobFor
      <3>3. pc'[p] = "awaitRestore" /\ txn' = txn
          BY <1>1, <2>1 DEF StartRecovery, Goto
      <3> QED
          BY <3>2, <3>3 DEF Follows
    <2>2. ASSUME NEW c \in Command, StartCommand(p, c)
          PROVE  Follows(p)'
      <3>1. pc'[p] \in {"read", "awaitBackup", "awaitCleanup", "idle"}
          BY <1>1, <2>2 DEF StartCommand, Goto, Entry
      <3> QED
          BY <3>1 DEF Follows
    <2>3. CASE (\E b \in BackupId : StartRestore(p, b)) \/ \E t \in TxId : StartRollback(p, t)
      <3>1. pc'[p] = "awaitRestore" /\ job'[p].target = 0
          BY <1>1, <2>3 DEF StartRestore, StartRollback, Goto, JobFor
      <3> QED
          BY <3>1 DEF Follows
    <2> QED
        BY <1>2, <2>1, <2>2, <2>3 DEF Start
  <1>3. CASE BeginRestore(p)
    <2>1. /\ pc[p] = "awaitRestore" /\ pc'[p] = "restore" /\ todo' = File
          /\ UNCHANGED <<job, txn>>
        BY <1>1, <1>3 DEF BeginRestore, Goto
    <2> QED
        BY <2>1 DEF Follows
  <1>4. ASSUME NEW f \in File, Restore(p, f)
        PROVE  Follows(p)'
    <2>1. /\ pc[p] = "restore" /\ UNCHANGED <<pc, job, txn, bk>> /\ todo' = todo \ {f}
          /\ disk' = [disk EXCEPT ![f] = bk[job[p].src].image[f]]
        BY <1>4 DEF Restore
    <2>2. \A g \in File \ todo' : disk'[g] = bk[job[p].src].image[g]
        BY <1>1, <2>1 DEF Follows
    <2> QED
        BY <2>1, <2>2 DEF Follows
  <1>5. CASE RestoreDone(p)
    <2>1. CASE job[p].target = 0
      <3>1. pc'[p] = "idle"
          BY <1>1, <1>5, <2>1 DEF RestoreDone, Exit, Goto
      <3> QED
          BY <3>1 DEF Follows
    <2>2. CASE job[p].target # 0
      <3>1. /\ pc[p] = "restore" /\ pc'[p] = "mark" /\ todo = {}
            /\ UNCHANGED <<job, txn, bk, disk>>
          BY <1>1, <1>5, <2>2 DEF RestoreDone, Goto
      <3>2. bk[job[p].src].image \in [File -> Version]
          BY <3>1 DEF Safely, Placed, TypeOK, Backup, Image
      <3>3. disk = bk[job[p].src].image
          BY <1>1, <3>1, <3>2 DEF Follows
      <3> QED
          BY <2>2, <3>1, <3>3 DEF Follows
    <2> QED
        BY <2>1, <2>2
  <1>6. CASE Mark(p)
    <2>1. pc'[p] \in {"read", "awaitBackup", "awaitCleanup", "idle"}
      <3>1. job[p].cmd \in Command
          BY <1>6 DEF Mark, Safely, Placed
      <3> QED
          BY <1>1, <1>6, <3>1 DEF Mark, Exit, Goto, Entry
    <2> QED
        BY <2>1 DEF Follows
  <1>7. CASE \/ Busy(p) \/ Publish(p) \/ UndoDone(p) \/ RestoreRefused(p) \/ MarkFails(p)
             \/ Cleanup(p) \/ SealFails(p) \/ BeginFails(p) \/ UndoFails(p) \/ Crash(p)
             \/ Denied(p)
    <2>1. pc'[p] = "idle"
        BY <1>1, <1>7 DEF Denied, Busy, Publish, UndoDone, UndoFails, EndUndo, RestoreRefused, MarkFails,
           Cleanup, SealFails, BeginFails, Crash, Exit, Goto
    <2> QED
        BY <2>1 DEF Follows
  <1>8. CASE \/ ReadState(p) \/ ReadSecrets(p) \/ OpenBackup(p) \/ SealBackup(p) \/ Begin(p)
             \/ Commit(p) \/ ApplyFails(p) \/ RestoreFails(p)
             \/ \E f \in File : Apply(p, f) \/ Undo(p, f)
    <2>1. pc'[p] \in {"secrets", "await", "seal", "record", "apply", "publish", "undo", "idle"}
        BY <1>1, <1>8 DEF ReadState, ReadSecrets, OpenBackup, SealBackup, Begin, Commit,
           ApplyFails, RestoreFails, Apply, Undo, Exit, Goto
    <2> QED
        BY <2>1 DEF Follows
  <1> QED
      BY <1>2, <1>3, <1>4, <1>5, <1>6, <1>7, <1>8 DEF Proceed, Fails

\* A transaction recorded as recovered has left every managed file as its
\* persistent backup shows it, with any commands, kills, failures and late
\* errors before (recoverIncompleteMutation).  Two shells violate it: the
\* lock is dropped before the record is marked.
THEOREM RecoveredIsWhole ==
  ASSUME OneAtATime
  PROVE  Spec => RecoveredIsRestored
  <1> DEFINE Inv == \A p \in Writer : Follows(p)
             A == \A t \in TxId :
                    txn[t].status # "RECOVERED" /\ txn'[t].status = "RECOVERED" =>
                      disk' = bk[txn[t].bk].image
  <1>1. Init => Inv
      BY DEF Init, Follows, Writer
  <1>2. Safely /\ Inv /\ [Next]_vars => Inv'
    <2> SUFFICES ASSUME Safely, Inv, [Next]_vars PROVE Inv'
        OBVIOUS
    <2>1. CASE Next
      <3>1. PICK p \in Cli : Start(p) \/ Proceed(p) \/ Fails(p) \/ Crash(p)
          BY <2>1 DEF Next
      <3>2. CASE p \in Writer
        <4>1. Follows(p)'
            BY <3>1, <3>2, FollowsStep
        <4> QED
            BY <3>2, <4>1 DEF OneAtATime
      <3>3. CASE p \in Confined
        <4>1. \A q \in Writer : Beside(q)
            BY <3>1, <3>3, ConfinedStep
        <4> QED
            BY <4>1 DEF Beside, Follows, Locked
      <3> QED
          BY <3>2, <3>3 DEF Writer
    <2>2. CASE UNCHANGED vars
        BY <2>2 DEF vars, Follows
    <2> QED
        BY <2>1, <2>2
  <1>3. Safely /\ Inv /\ [Next]_vars => [A]_vars
    <2> SUFFICES ASSUME Safely, Inv, Next, NEW t \in TxId,
                        txn[t].status # "RECOVERED", txn'[t].status = "RECOVERED"
                 PROVE  disk' = bk[txn[t].bk].image
        OBVIOUS
    <2>1. PICK p \in Cli : Mark(p) /\ t = job[p].target
      <3>1. PICK p \in Cli : Start(p) \/ Proceed(p) \/ Fails(p) \/ Crash(p)
          BY DEF Next
      <3> USE DEF files, held, count
      <3>2. ~Start(p) /\ ~Crash(p)
          BY DEF Start, StartRecovery, StartCommand, StartRestore, StartRollback, Crash
      <3>3. ~SealFails(p) /\ ~BeginFails(p) /\ ~RestoreFails(p)
          BY DEF SealFails, BeginFails, RestoreFails, InProgress, Safely, TypeOK
      <3>4. ~ApplyFails(p) /\ ~UndoFails(p)
          BY DEF ApplyFails, UndoFails, EndUndo, Safely, TypeOK, Record
      <3>5. ~Begin(p) /\ ~Commit(p) /\ ~Cleanup(p) /\ ~UndoDone(p)
          BY DEF Begin, Commit, Cleanup, UndoDone, EndUndo, InProgress, Safely, TypeOK, Record
      <3>6. Mark(p)
          BY <3>1, <3>2, <3>3, <3>4, <3>5 DEF Fails, Proceed, ReadState, ReadSecrets, Busy,
             OpenBackup, SealBackup, Apply, Publish, Undo, BeginRestore, RestoreRefused, Restore,
             RestoreDone, Denied, MarkFails
      <3>7. t = job[p].target
          BY <3>6 DEF Mark, Safely, TypeOK, Record
      <3> QED
          BY <3>6, <3>7
    <2>2. Follows(p) /\ t # 0
      <3>1. p \in Writer
          BY <2>1 DEF Mark, Safely, Confines, Writer
      <3> QED
          BY <3>1, BoundAssumption DEF TxId
    <2> QED
        BY <2>1, <2>2 DEF Mark, Follows
  <1> QED
      BY <1>1, <1>2, <1>3, Safety, PTL DEF Spec, RecoveredIsRestored

\* The transaction being written, undone or recovered has not finished, and
\* numbers not given out have no record.
Unfinished(p) ==
  /\ \A t \in TxId : t >= nextTx => txn[t].status = "NONE"
  /\ pc[p] \in {"awaitRestore", "restore", "mark"} /\ job[p].target # 0 =>
       job[p].target \in TxId /\ txn[job[p].target].status = "IN_PROGRESS"
  /\ pc[p] \in {"apply", "undo"} /\ job[p].own # 0 =>
       job[p].own \in TxId /\ txn[job[p].own].status = "IN_PROGRESS"
  /\ pc[p] = "apply" => job[p].own # 0

\* What one step does to the status of a record, and that the step leaves the
\* invocation on an unfinished one.
LEMMA UnfinishedStep ==
  ASSUME Safely, ~LateErrors, NEW p \in Cli, Unfinished(p),
         Start(p) \/ Proceed(p) \/ Fails(p) \/ Crash(p)
  PROVE  /\ Unfinished(p)'
         /\ \A t \in TxId : txn[t].status \in {"COMMITTED", "ROLLED_BACK"} =>
              txn'[t].status \in {txn[t].status, "REMOVED"}
  <1> USE DEF files, held, count
  <1>1. /\ pc \in [Cli -> Unlocked \cup Locked] /\ job \in [Cli -> Job]
        /\ txn \in [TxId -> Record] /\ nextTx \in Nat
      BY DEF Safely, TypeOK
  <1> DEFINE Same == txn' = txn /\ nextTx' = nextTx
             Quiet == {"read", "secrets", "await", "awaitBackup", "awaitCleanup", "seal",
                       "record", "publish", "idle"}
  <1>2. ASSUME Same, pc'[p] \in Quiet
        PROVE  Unfinished(p)'
      BY <1>1, <1>2 DEF Unfinished
  <1>3. CASE Start(p)
    <2>1. ASSUME NEW c \in Command, StartRecovery(p, c)
          PROVE  Unfinished(p)' /\ Same
      <3>1. PICK t \in TxId : Latest(t) /\ job' = [job EXCEPT ![p] = JobFor(c, t, txn[t].bk)]
          BY <2>1 DEF StartRecovery
      <3>2. job'[p].target = t /\ txn[t].status = "IN_PROGRESS"
          BY <1>1, <3>1 DEF JobFor, Latest, Incomplete
      <3>3. pc'[p] = "awaitRestore" /\ Same
          BY <1>1, <2>1 DEF StartRecovery, Goto
      <3> QED
          BY <3>2, <3>3 DEF Unfinished
    <2>2. ASSUME NEW c \in Command, StartCommand(p, c)
          PROVE  Unfinished(p)' /\ Same
      <3>1. pc'[p] \in Quiet /\ Same
          BY <1>1, <2>2 DEF StartCommand, Goto, Entry
      <3> QED
          BY <3>1, <1>2
    <2>3. CASE (\E b \in BackupId : StartRestore(p, b)) \/ \E t \in TxId : StartRollback(p, t)
      <3>1. pc'[p] = "awaitRestore" /\ job'[p].target = 0 /\ Same
          BY <1>1, <2>3 DEF StartRestore, StartRollback, Goto, JobFor
      <3>2. Unfinished(p)'
          BY <3>1 DEF Unfinished
      <3> QED
          BY <3>1, <3>2
    <2> QED
        BY <1>3, <2>1, <2>2, <2>3 DEF Start
  <1>4. CASE \/ ReadState(p) \/ ReadSecrets(p) \/ Busy(p) \/ OpenBackup(p) \/ SealBackup(p)
             \/ Publish(p) \/ RestoreRefused(p) \/ MarkFails(p) \/ SealFails(p) \/ BeginFails(p)
             \/ Denied(p) \/ Crash(p)
    <2>1. pc'[p] \in Quiet /\ Same
        BY <1>1, <1>4 DEF Denied, ReadState, ReadSecrets, Busy, OpenBackup, SealBackup, Publish,
           RestoreRefused, MarkFails, SealFails, BeginFails, Crash, Exit, Goto, Release
    <2> QED
        BY <2>1, <1>2
  <1>5. CASE Begin(p)
    <2>1. /\ nextTx \in TxId /\ nextTx' = nextTx + 1 /\ pc'[p] = "apply"
          /\ job'[p].own = nextTx /\ txn' = [txn EXCEPT ![nextTx] = InProgress(p)]
        BY <1>1, <1>5 DEF Begin, Goto, Job
    <2>2. txn[nextTx].status = "NONE"
        BY <1>1, <2>1 DEF Unfinished
    <2>3. \A t \in TxId : t # nextTx => txn'[t] = txn[t]
        BY <1>1, <2>1
    <2>4. \A t \in TxId : t >= nextTx' => txn'[t].status = "NONE"
        BY <1>1, <2>1, <2>3 DEF Unfinished, TxId
    <2>5. txn'[nextTx].status = "IN_PROGRESS" /\ nextTx # 0
        BY <1>1, <2>1 DEF InProgress, TxId
    <2>6. Unfinished(p)'
        BY <2>1, <2>4, <2>5 DEF Unfinished
    <2> QED
        BY <2>2, <2>3, <2>6
  <1>6. CASE (\E f \in File : Apply(p, f) \/ Undo(p, f) \/ Restore(p, f)) \/ BeginRestore(p)
    <2>1. /\ Same /\ job' = job
          /\ \/ pc' = pc
             \/ pc[p] = "awaitRestore" /\ pc'[p] = "restore"
        BY <1>1, <1>6 DEF Apply, Undo, Restore, BeginRestore, Goto
    <2>2. Unfinished(p)'
        BY <1>1, <2>1 DEF Unfinished
    <2> QED
        BY <2>1, <2>2
  <1>7. CASE ApplyFails(p) \/ RestoreFails(p)
    <2>1. /\ Same /\ job' = job /\ pc'[p] = "undo"
          /\ pc[p] = "apply" \/ (pc[p] = "restore" /\ job[p].own = 0)
        BY <1>1, <1>7 DEF ApplyFails, RestoreFails, Goto, Safely, Saved
    <2>2. Unfinished(p)'
        BY <1>1, <2>1 DEF Unfinished
    <2> QED
        BY <2>1, <2>2
  <1>8. CASE RestoreDone(p)
    <2>1. /\ Same /\ pc[p] = "restore"
          /\ pc'[p] = "idle" \/ (pc'[p] = "mark" /\ job' = job)
        BY <1>1, <1>8 DEF RestoreDone, Exit, Goto
    <2>2. Unfinished(p)'
        BY <1>1, <2>1 DEF Unfinished
    <2> QED
        BY <2>1, <2>2
  <1>9. CASE Commit(p) \/ UndoDone(p) \/ UndoFails(p) \/ Mark(p) \/ Cleanup(p)
    <2>1. pc'[p] \in Quiet /\ nextTx' = nextTx
      <3>1. Mark(p) => job[p].cmd \in Command
          BY DEF Mark, Safely, Placed
      <3>2. \A c \in Command : Entry(c) \in Quiet
          BY DEF Entry, Command
      <3> QED
          BY <1>1, <1>9, <3>1, <3>2 DEF Commit, UndoDone, UndoFails, EndUndo, Mark, Cleanup, Exit, Goto
    <2>2. ASSUME NEW t \in TxId
          PROVE  \/ txn'[t] = txn[t]
                 \/ txn[t].status = "IN_PROGRESS"
                 \/ txn[t].status \in {"COMMITTED", "ROLLED_BACK"} /\ txn'[t].status = "REMOVED"
      <3>1. CASE Commit(p)
          BY <1>1, <3>1 DEF Commit, Unfinished
      <3>2. CASE UndoDone(p) \/ UndoFails(p)
        <4>1. pc[p] = "undo" /\ \E s : txn' = IF job[p].own = 0 THEN txn
                                              ELSE [txn EXCEPT ![job[p].own].status = s]
            BY <3>2 DEF UndoDone, UndoFails, EndUndo
        <4> QED
            BY <1>1, <4>1 DEF Unfinished
      <3>3. CASE Mark(p)
        <4>1. t # 0 /\ txn' = [txn EXCEPT ![job[p].target].status = "RECOVERED"]
            BY <3>3, BoundAssumption DEF Mark, TxId
        <4> QED
            BY <1>1, <3>3, <4>1 DEF Mark, Unfinished
      <3>4. CASE Cleanup(p)
          BY <1>1, <3>4 DEF Cleanup, Record
      <3> QED
          BY <1>9, <3>1, <3>2, <3>3, <3>4
    <2>3. nextTx' = nextTx /\ \A t \in TxId : t >= nextTx => txn'[t].status = "NONE"
        BY <2>1, <2>2 DEF Unfinished
    <2>4. Unfinished(p)'
        BY <2>1, <2>3 DEF Unfinished
    <2> QED
        BY <2>2, <2>4
  <1> QED
      BY <1>3, <1>4, <1>5, <1>6, <1>7, <1>8, <1>9 DEF Proceed, Fails

\* Recovery and rollback touch only what did not finish: a record leaves
\* COMMITTED or ROLLED_BACK only when cleanup removes it, with any commands,
\* kills and failures before.  A write that reports an error after its rename
\* violates it: a change recorded as committed is then undone.
THEOREM FinishedStaysFinished ==
  ASSUME OneAtATime, ~LateErrors
  PROVE  Spec => OnlyIncompleteIsRecovered
  <1> DEFINE Inv == \A p \in Writer : Unfinished(p)
             A == \A t \in TxId : txn[t].status \in {"COMMITTED", "ROLLED_BACK"} =>
                    txn'[t].status \in {txn[t].status, "REMOVED"}
  <1>1. Init => Inv
      BY BoundAssumption DEF Init, Unfinished, NoRecord, Writer
  <1>2. Safely /\ Inv /\ [Next]_vars => Inv' /\ [A]_vars
    <2> SUFFICES ASSUME Safely, Inv, [Next]_vars PROVE Inv' /\ [A]_vars
        OBVIOUS
    <2>1. CASE Next
      <3>1. PICK p \in Cli : Start(p) \/ Proceed(p) \/ Fails(p) \/ Crash(p)
          BY <2>1 DEF Next
      <3>2. CASE p \in Writer
        <4>1. Unfinished(p)' /\ A
            BY <3>1, <3>2, UnfinishedStep DEF Writer
        <4>2. Inv'
            BY <3>2, <4>1 DEF OneAtATime
        <4> QED
            BY <4>1, <4>2
      <3>3. CASE p \in Confined
        <4>1. UNCHANGED txn /\ \A q \in Writer : Beside(q)
            BY <3>1, <3>3, ConfinedStep
        <4>2. Inv'
            BY <4>1 DEF Beside, Unfinished
        <4> QED
            BY <4>1, <4>2
      <3> QED
          BY <3>2, <3>3 DEF Writer
    <2>2. CASE UNCHANGED vars
      <3>1. Inv'
          BY <2>2 DEF vars, Unfinished
      <3> QED
          BY <2>2, <3>1
    <2> QED
        BY <2>1, <2>2
  <1> QED
      BY <1>1, <1>2, Safety, PTL DEF Spec, OnlyIncompleteIsRecovered

-----------------------------------------------------------------------------
(* One writer at a time, of commands that recover first.                   *)

\* One invocation at a time that may write, of commands that recover first, in
\* which a write that reports an error has had no effect; and the timer.  The
\* theorems of this section are not true of two that may write, with late errors,
\* or with restore and rules: StateTx's violation runs and README.md name the
\* counterexamples.
OneOperator ==
  /\ OneAtATime /\ ~LateErrors
  /\ \A p \in Cli : Runs[p] \subseteq AutoRecovers \cup {"recover"}

\* An image that is wholly of the version its state.json names.
WholeImage(image) == image = ver[image["state"]].image

Committed == {t \in TxId : txn[t].status = "COMMITTED"}

\* Transactions are numbered in order: the numbers not given out have no
\* record, nothing is of a later version, and a state.json names its own.
Numbered ==
  /\ nextTx > 0
  /\ \A t \in TxId : t >= nextTx => txn[t].status = "NONE"
  /\ \A v \in Version : v < nextTx =>
       ver[v].image["state"] = v /\ \A c \in ver[v].carries : c < nextTx
  /\ disk["state"] < nextTx /\ snap["state"] < nextTx
  /\ \A b \in BackupId : bk[b].image["state"] < nextTx

\* At most one transaction is in progress, and recovery will find it.
OneIncomplete ==
  /\ \A t, u \in TxId : txn[t].status = "IN_PROGRESS" /\ txn[u].status = "IN_PROGRESS" => t = u
  /\ \A t \in TxId : txn[t].status = "IN_PROGRESS" => txn[t].cmd \in Recoverable

\* Steps of a command before its record.
Preparing == {"read", "secrets", "await", "awaitBackup", "awaitCleanup", "seal", "record"}

\* Where an invocation is and what it works on.  It prepares a change with
\* nothing left to recover and from the state that is installed; it recovers
\* the transaction in progress; its own is the one in progress, and what is
\* written so far is of it.
AtWork(p) ==
  LET j == job[p] IN
  /\ pc[p] # "idle" => j.cmd \in Runs[p]
  /\ pc[p] \in Preparing => Incomplete = {}
  /\ pc[p] \in {"read", "secrets", "await", "record"} => j.cmd \in Mutator
  /\ pc[p] \in {"secrets", "await", "record"} \/ (pc[p] = "seal" /\ j.cmd # "backup") =>
       j.base = disk["state"]
  /\ pc[p] = "awaitBackup" => j.cmd = "backup"
  /\ pc[p] = "seal" => j.cmd \in Mutator \cup {"backup"}
  /\ pc[p] \in {"awaitRestore", "restore", "mark"} =>
       j.target \in Incomplete /\ j.src = txn[j.target].bk
  /\ pc[p] = "restore" => \A f \in File \ todo : disk[f] = bk[j.src].image[f]
  /\ pc[p] = "mark" => disk = bk[j.src].image
  /\ pc[p] \in {"apply", "undo"} /\ j.own # 0 =>
       /\ j.own \in Incomplete
       /\ disk["state"] \in {j.own, snap["state"]}
       /\ ver[j.own].rev = ver[snap["state"]].rev + 1
       /\ ver[j.own].carries = ver[snap["state"]].carries \cup {j.own}
       /\ j.own \notin ver[snap["state"]].carries
  /\ pc[p] = "apply" => j.own # 0 /\ \A f \in File \ todo : disk[f] = ver[j.own].image[f]
  /\ pc[p] = "undo" /\ j.own = 0 => Incomplete # {}

\* Unless a rollback failed, the installation is whole when nothing is in
\* progress, and else the backup to recover from is.
Sound ==
  ~Damaged =>
    /\ Incomplete = {} => WholeImage(disk)
    /\ \A t \in Incomplete : WholeImage(bk[txn[t].bk].image)

\* The version under the change in progress carries every committed change and
\* none is newer.
Kept == \A t \in Committed : t \in ver[Settled].carries /\ ver[t].rev <= ver[Settled].rev

Solo ==
  /\ Numbered /\ OneIncomplete /\ Sound /\ Kept /\ CommittedRevisionsDistinct
  /\ \A p \in Writer : AtWork(p)

-----------------------------------------------------------------------------
(* The version under the change in progress.                               *)

\* It is the one state.json names, or the one the backup shows that the
\* transaction in progress took.
SettledShown ==
  /\ Incomplete = {} => Settled = disk["state"]
  /\ \A t \in Incomplete : Settled = bk[txn[t].bk].image["state"]

LEMMA SettledIs == OneIncomplete => SettledShown
  <1> SUFFICES ASSUME OneIncomplete PROVE SettledShown
      OBVIOUS
  <1>1. Incomplete = {} => Settled = disk["state"]
      BY DEF Settled
  <1>2. ASSUME NEW t \in Incomplete
        PROVE  Settled = bk[txn[t].bk].image["state"]
    <2> DEFINE u == CHOOSE x \in TxId : Latest(x)
    <2>1. \A x \in Incomplete : x = t /\ x \in TxId
        BY <1>2 DEF OneIncomplete, Incomplete
    <2>2. t <= t
        BY <1>2 DEF Incomplete, TxId
    <2>3. Latest(t)
        BY <1>2, <2>1, <2>2 DEF Latest
    <2>4. u \in TxId /\ Latest(u)
        BY <1>2, <2>1, <2>3
    <2>5. u = t
        BY <2>1, <2>4 DEF Latest
    <2> QED
        BY <1>2, <2>5 DEF Settled
  <1> QED
      BY <1>1, <1>2 DEF SettledShown

\* The same of the next state.
LEMMA SettledBecomes == OneIncomplete' => SettledShown'
  BY SettledIs, PTL

\* The version under the change in progress has been given out.
LEMMA SettledTyped ==
  ASSUME TypeOK, RecoverySource, Numbered, OneIncomplete
  PROVE  /\ Settled \in Version /\ Settled < nextTx
         /\ \A t \in Incomplete : txn[t].bk \in BackupId
  <1>1. SettledShown
      BY SettledIs
  <1>2. "state" \in File
      BY DEF File
  <1>3. \A t \in Incomplete : t \in TxId /\ txn[t].bk \in BackupId
      BY DEF Incomplete, RecoverySource
  <1>4. disk["state"] \in Version /\ \A b \in BackupId : bk[b].image["state"] \in Version
      BY <1>2 DEF TypeOK, Image, Backup
  <1>5. CASE Incomplete = {}
      BY <1>1, <1>3, <1>4, <1>5 DEF SettledShown, Numbered
  <1>6. CASE Incomplete # {}
      BY <1>1, <1>3, <1>4, <1>6 DEF SettledShown, Numbered
  <1> QED
      BY <1>5, <1>6

\* A step leaves what the installation is, or adds one change to it.
Steady ==
  /\ Settled' = Settled /\ Committed' \subseteq Committed
  /\ \A v \in Version : v < nextTx => ver'[v] = ver[v]

Advances(c) ==
  /\ c \notin ver[Settled].carries /\ ver' = ver
  /\ ver[Settled'].carries = ver[Settled].carries \cup {c}
  /\ ver[Settled'].rev = ver[Settled].rev + 1 /\ ver[c].rev = ver[Settled'].rev
  /\ Committed' \subseteq Committed \cup {c}

Moves == Steady \/ \E c \in TxId : Advances(c)

\* Either keeps the committed changes, and their revisions apart.
LEMMA MovesKept ==
  ASSUME TypeOK, TypeOK', RecoverySource, Numbered, OneIncomplete, Kept,
         CommittedRevisionsDistinct, Moves
  PROVE  Kept' /\ CommittedRevisionsDistinct'
  <1>1. Settled \in Version /\ Settled < nextTx
      BY SettledTyped
  <1>2. \A v \in Version : ver[v].rev \in Nat
      BY DEF TypeOK, Rendering
  <1>3. \A t \in Committed : t \in TxId /\ t \in Version /\ t < nextTx
      BY BoundAssumption DEF Committed, Numbered, TxId, Version, TypeOK
  <1>4. \A t \in Committed, u \in Committed : t # u => ver[t].rev # ver[u].rev
      BY DEF Committed, CommittedRevisionsDistinct
  <1>5. CASE Steady
    <2>1. ver'[Settled'] = ver[Settled] /\ \A t \in Committed' : ver'[t] = ver[t] /\ t \in Committed
        BY <1>1, <1>3, <1>5 DEF Steady
    <2>2. Kept'
        BY <2>1 DEF Kept
    <2>3. \A t \in Committed', u \in Committed' : t # u => ver'[t].rev # ver'[u].rev
        BY <1>4, <2>1
    <2> QED
        BY <2>2, <2>3 DEF Committed, CommittedRevisionsDistinct
  <1>6. ASSUME NEW c \in TxId, Advances(c)
        PROVE  Kept' /\ CommittedRevisionsDistinct'
    <2> DEFINE old == ver[Settled]
               new == ver[Settled']
    <2>1. /\ new.rev = old.rev + 1 /\ new.carries = old.carries \cup {c} /\ ver[c].rev = new.rev
          /\ ver' = ver /\ Committed' \subseteq Committed \cup {c}
        BY <1>6 DEF Advances
    <2>2. old.rev \in Nat
        BY <1>1, <1>2
    <2>3. \A t \in Committed : t \in old.carries /\ ver[t].rev <= old.rev /\ ver[t].rev \in Nat
        BY <1>2, <1>3 DEF Kept
    <2> HIDE DEF old, new
    <2>4. \A t \in Committed' : t \in new.carries /\ ver[t].rev <= new.rev
        BY <2>1, <2>2, <2>3
    <2>5. Kept'
        BY <2>1, <2>4 DEF Kept, new
    <2>6. \A t \in Committed', u \in Committed' : t # u => ver[t].rev # ver[u].rev
        BY <1>4, <2>1, <2>2, <2>3
    <2> QED
        BY <2>1, <2>5, <2>6 DEF Committed, CommittedRevisionsDistinct
  <1> QED
      BY <1>5, <1>6 DEF Moves

\* Either is a step of the abstract installation, or none.
LEMMA MovesImplement ==
  ASSUME TypeOK, RecoverySource, Numbered, OneIncomplete, Moves
  PROVE  \/ UNCHANGED <<ver[Settled].carries, ver[Settled].rev>>
         \/ Promise!Next
  <1>1. Settled \in Version /\ Settled < nextTx
      BY SettledTyped
  <1>2. CASE Steady
      BY <1>1, <1>2 DEF Steady
  <1>3. ASSUME NEW c \in TxId, Advances(c)
        PROVE  Promise!Next
    <2>1. Promise!Commit(c)
        BY <1>3 DEF Advances, Promise!Commit
    <2> QED
        BY <2>1 DEF Promise!Next
  <1> QED
      BY <1>2, <1>3 DEF Moves

-----------------------------------------------------------------------------
(* What the steps do to the parts of Solo that are not about places.       *)

\* The parts that speak of files and records.
Recorded == Numbered /\ OneIncomplete /\ Sound

\* A step that writes no file and ends no transaction: records only disappear
\* once they are final, and the backup of the one in progress stays as it is.
LEMMA QuietStep ==
  ASSUME TypeOK, RecoverySource, Recorded,
         UNCHANGED <<disk, ver, nextTx>>, snap'["state"] < nextTx,
         \A t \in TxId : /\ txn'[t].bk = txn[t].bk /\ txn'[t].cmd = txn[t].cmd
                         /\ \/ txn'[t].status = txn[t].status
                            \/ /\ txn[t].status \in {"COMMITTED", "ROLLED_BACK"}
                               /\ txn'[t].status = "REMOVED",
         \A b \in BackupId : bk'[b].image["state"] < nextTx,
         \A t \in Incomplete : bk'[txn[t].bk].image = bk[txn[t].bk].image
  PROVE  Recorded' /\ Steady /\ Incomplete' = Incomplete
  <1> USE DEF Recorded
  <1>1. Incomplete' = Incomplete /\ Committed' \subseteq Committed /\ Damaged' = Damaged
      BY DEF Incomplete, Committed, Damaged
  <1>2. Numbered'
      BY DEF Numbered
  <1>3. OneIncomplete'
      BY DEF OneIncomplete
  <1>4. SettledShown /\ SettledShown'
      BY <1>3, SettledIs, SettledBecomes
  <1>5. \A t \in Incomplete : t \in TxId /\ txn'[t].bk = txn[t].bk
      BY DEF Incomplete
  <1>6. Settled' = Settled
    <2>1. CASE Incomplete = {}
        BY <1>1, <1>4, <2>1 DEF SettledShown
    <2>2. ASSUME NEW t \in Incomplete
          PROVE  Settled' = Settled
        BY <1>1, <1>4, <1>5, <2>2 DEF SettledShown
    <2> QED
        BY <2>1, <2>2
  <1>7. Sound'
      BY <1>1, <1>5 DEF Sound, WholeImage
  <1> QED
      BY <1>1, <1>2, <1>3, <1>6, <1>7 DEF Steady

\* A step that writes files while a transaction is in progress.
LEMMA WriteStep ==
  ASSUME TypeOK, RecoverySource, Recorded, Incomplete # {},
         UNCHANGED <<ver, txn, bk, nextTx, snap>>, disk'["state"] < nextTx
  PROVE  Recorded' /\ Steady /\ Incomplete' = Incomplete
  <1> USE DEF Recorded
  <1>1. Incomplete' = Incomplete /\ Committed' = Committed /\ Damaged' = Damaged
      BY DEF Incomplete, Committed, Damaged
  <1>2. Numbered'
      BY DEF Numbered
  <1>3. OneIncomplete'
      BY DEF OneIncomplete
  <1>4. Settled' = Settled
      BY <1>1, <1>3, SettledIs, SettledBecomes DEF SettledShown
  <1>5. Sound'
      BY <1>1 DEF Sound, WholeImage
  <1> QED
      BY <1>1, <1>2, <1>3, <1>4, <1>5 DEF Steady

\* The transaction in progress is given its final record: nothing is in
\* progress any more, and what state.json names is the version that stands.
LEMMA FinishStep ==
  ASSUME TypeOK, Recorded, UNCHANGED <<disk, ver, bk, nextTx, snap>>,
         NEW t \in Incomplete, NEW s \in Status \ {"IN_PROGRESS", "NONE"},
         txn' = [txn EXCEPT ![t].status = s]
  PROVE  /\ Numbered' /\ OneIncomplete' /\ Incomplete' = {}
         /\ Settled' = disk["state"] /\ Settled = bk[txn[t].bk].image["state"]
         /\ Committed' = IF s = "COMMITTED" THEN Committed \cup {t} ELSE Committed
         /\ (Damaged' <=> Damaged \/ s = "ROLLBACK_FAILED")
  <1> USE DEF Recorded
  <1>1. t \in TxId /\ txn[t].status = "IN_PROGRESS"
      BY DEF Incomplete
  <1>2. txn'[t].status = s /\ \A u \in TxId \ {t} : txn'[u] = txn[u]
      BY <1>1 DEF TypeOK, Record
  <1>3. \A u \in Incomplete : u = t
      BY <1>1 DEF Incomplete, OneIncomplete
  <1>4. Incomplete' = {}
      BY <1>1, <1>2, <1>3 DEF Incomplete
  <1>5. Numbered'
      BY <1>1, <1>2 DEF Numbered
  <1>6. OneIncomplete'
      BY <1>1, <1>2 DEF OneIncomplete
  <1>7. Settled' = disk["state"] /\ Settled = bk[txn[t].bk].image["state"]
      BY <1>4, <1>6, SettledIs, SettledBecomes DEF SettledShown
  <1>8. Committed' = IF s = "COMMITTED" THEN Committed \cup {t} ELSE Committed
      BY <1>1, <1>2 DEF Committed
  <1>9. Damaged' <=> Damaged \/ s = "ROLLBACK_FAILED"
      BY <1>1, <1>2 DEF Damaged
  <1> QED
      BY <1>4, <1>5, <1>6, <1>7, <1>8, <1>9

-----------------------------------------------------------------------------
(* Each step of the one that may write.                                    *)

\* A step that leaves files, records and backups alone.
LEMMA StillStep ==
  ASSUME TypeOK, RecoverySource, Recorded, UNCHANGED <<disk, ver, txn, bk, nextTx, snap>>
  PROVE  Recorded' /\ Steady /\ Incomplete' = Incomplete
  <1>1. snap["state"] < nextTx /\ \A b \in BackupId : bk[b].image["state"] < nextTx
      BY DEF Recorded, Numbered
  <1> QED
      BY <1>1, QuietStep

\* Once it has returned there is nothing to say of it.
LEMMA Returned ==
  ASSUME TypeOK, NEW p \in Cli, Exit(p)
  PROVE  AtWork(p)'
  BY DEF TypeOK, Exit, Goto, AtWork, Preparing

LEMMA SoloStart ==
  ASSUME Safely, OneOperator, Recorded, NEW p \in Cli, AtWork(p), Start(p)
  PROVE  Recorded' /\ Steady /\ AtWork(p)'
  <1> USE DEF Safely, Sources, files, held, count
  <1>1. Runs[p] \subseteq {"instance", "node", "backup", "cleanup", "cert", "recover"}
      BY DEF OneOperator, OneAtATime, AutoRecovers
  <1>2. Recorded' /\ Steady /\ Incomplete' = Incomplete /\ txn' = txn
    <2>1. UNCHANGED <<disk, ver, txn, bk, nextTx, snap>>
        BY DEF Start, StartRecovery, StartCommand, StartRestore, StartRollback
    <2> QED
        BY <2>1, StillStep
  <1>3. pc \in [Cli -> Unlocked \cup Locked] /\ job \in [Cli -> Job]
      BY DEF TypeOK
  <1>4. ASSUME NEW c \in Command, StartRecovery(p, c)
        PROVE  AtWork(p)'
    <2>1. PICK t \in TxId : Latest(t) /\ job' = [job EXCEPT ![p] = JobFor(c, t, txn[t].bk)]
        BY <1>4 DEF StartRecovery
    <2>2. job'[p].cmd = c /\ job'[p].target = t /\ job'[p].src = txn[t].bk /\ job'[p].own = 0
        BY <1>3, <2>1 DEF JobFor
    <2>3. t \in Incomplete /\ c \in Runs[p]
        BY <1>4, <2>1 DEF Latest, StartRecovery
    <2>4. pc'[p] = "awaitRestore"
        BY <1>3, <1>4 DEF StartRecovery, Goto
    <2> QED
        BY <1>2, <2>2, <2>3, <2>4 DEF AtWork, Preparing
  <1>5. ASSUME NEW c \in Command, StartCommand(p, c)
        PROVE  AtWork(p)'
    <2>1. c \in Runs[p] /\ Incomplete = {}
        BY <1>1, <1>5 DEF StartCommand, AutoRecovers
    <2>2. pc'[p] = Entry(c)
        BY <1>3, <1>5 DEF StartCommand, Goto
    <2>3. CASE Entry(c) = "idle"
        BY <2>2, <2>3 DEF AtWork, Preparing
    <2>4. CASE Entry(c) # "idle"
      <3>1. \/ pc'[p] = "read" /\ c \in Mutator
            \/ pc'[p] = "awaitBackup" /\ c = "backup"
            \/ pc'[p] = "awaitCleanup"
          BY <2>2, <2>4 DEF Entry
      <3>2. job'[p].cmd = c
          BY <1>3, <1>5, <2>4 DEF StartCommand, JobFor
      <3> QED
          BY <1>2, <2>1, <3>1, <3>2 DEF AtWork, Preparing
    <2> QED
        BY <2>3, <2>4
  <1>6. ~\E b \in BackupId : StartRestore(p, b)
      BY <1>1 DEF StartRestore
  <1>7. ~\E t \in TxId : StartRollback(p, t)
      BY <1>1 DEF StartRollback
  <1> QED
      BY <1>2, <1>4, <1>5, <1>6, <1>7 DEF Start

\* Reading, waiting for the lock, and what returns without having written.
LEMMA SoloIdleStep ==
  ASSUME Safely, OneOperator, Recorded, NEW p \in Cli, AtWork(p),
         \/ ReadState(p) \/ ReadSecrets(p) \/ Busy(p) \/ BeginFails(p) \/ Publish(p)
         \/ RestoreRefused(p) \/ MarkFails(p) \/ Denied(p) \/ Crash(p)
  PROVE  Recorded' /\ Steady /\ AtWork(p)'
  <1> USE DEF Safely, Sources, files, held, count, Release
  <1>1. Recorded' /\ Steady /\ Incomplete' = Incomplete
    <2>1. UNCHANGED <<disk, ver, txn, bk, nextTx, snap>>
        BY DEF OneOperator, OneAtATime, ReadState, ReadSecrets, Busy, BeginFails, Publish, RestoreRefused,
           MarkFails, Denied, Crash
    <2> QED
        BY <2>1, StillStep
  <1>2. pc \in [Cli -> Unlocked \cup Locked] /\ job \in [Cli -> Job]
      BY DEF TypeOK
  <1>3. CASE ReadState(p)
    <2>1. pc[p] = "read" /\ pc'[p] = "secrets" /\ disk' = disk
        BY <1>2, <1>3 DEF ReadState, Goto
    <2>2. job'[p].cmd = job[p].cmd /\ job'[p].base = disk["state"]
        BY <1>2, <1>3 DEF ReadState, Job
    <2> QED
        BY <1>1, <2>1, <2>2 DEF AtWork, Preparing
  <1>4. CASE ReadSecrets(p)
    <2>1. pc[p] = "secrets" /\ pc'[p] = "await" /\ disk' = disk
        BY <1>2, <1>4 DEF ReadSecrets, Goto
    <2>2. job'[p].cmd = job[p].cmd /\ job'[p].base = job[p].base
        BY <1>2, <1>4 DEF ReadSecrets, Job
    <2> QED
        BY <1>1, <2>1, <2>2 DEF AtWork, Preparing
  <1>5. CASE \/ Busy(p) \/ BeginFails(p) \/ Publish(p) \/ RestoreRefused(p) \/ MarkFails(p)
             \/ Denied(p) \/ Crash(p)
      BY <1>1, <1>5, Returned DEF Busy, BeginFails, Publish, RestoreRefused, MarkFails, Denied,
         Crash
  <1> QED
      BY <1>1, <1>3, <1>4, <1>5

\* Taking a backup.
LEMMA SoloBackup ==
  ASSUME Safely, OneOperator, Recorded, NEW p \in Cli, AtWork(p),
         OpenBackup(p) \/ SealBackup(p) \/ SealFails(p)
  PROVE  Recorded' /\ Steady /\ AtWork(p)'
  <1> USE DEF Safely, Sources, files, held, count, Release
  <1>1. UNCHANGED <<disk, ver, txn, nextTx, snap>> /\ Incomplete = {}
      BY DEF OpenBackup, SealBackup, SealFails, AtWork, Preparing
  <1>2. pc \in [Cli -> Unlocked \cup Locked] /\ job \in [Cli -> Job]
      BY DEF TypeOK
  <1>3. \A b \in BackupId : bk'[b].image = bk[b].image \/ bk'[b].image = disk
    <2>1. CASE OpenBackup(p)
        BY <2>1 DEF OpenBackup, TypeOK, Backup
    <2>2. CASE SealBackup(p)
        BY <2>2 DEF SealBackup, TypeOK, Backup
    <2>3. CASE SealFails(p)
      <3>1. CASE bk' = [bk EXCEPT ![job[p].src].kind = "ABSENT"]
          BY <3>1 DEF TypeOK, Backup
      <3>2. CASE bk' # [bk EXCEPT ![job[p].src].kind = "ABSENT"]
          BY <2>3, <3>2 DEF SealFails, TypeOK, Backup
      <3> QED
          BY <3>1, <3>2
    <2> QED
        BY <2>1, <2>2, <2>3
  <1>4. disk["state"] < nextTx /\ snap["state"] < nextTx
        /\ \A b \in BackupId : bk'[b].image["state"] < nextTx
      BY <1>3 DEF Recorded, Numbered
  <1>5. Recorded' /\ Steady /\ Incomplete' = {}
      BY <1>1, <1>4, QuietStep
  <1>6. CASE OpenBackup(p)
    <2>1. pc'[p] = "seal" /\ pc[p] \in {"await", "awaitBackup"} /\ disk' = disk
        BY <1>2, <1>6 DEF OpenBackup, Goto
    <2>2. job'[p].cmd = job[p].cmd /\ job'[p].base = job[p].base
        BY <1>2, <1>6 DEF OpenBackup, Job
    <2>3. job[p].cmd # "backup" => pc[p] = "await"
        BY <2>1 DEF AtWork
    <2> QED
        BY <1>5, <2>1, <2>2, <2>3 DEF AtWork, Preparing
  <1>7. CASE SealBackup(p)
    <2>1. CASE job[p].cmd = "backup"
        BY <1>5, <1>7, <2>1, Returned DEF SealBackup
    <2>2. CASE job[p].cmd # "backup"
      <3>1. pc'[p] = "record" /\ pc[p] = "seal" /\ job' = job /\ disk' = disk
          BY <1>2, <1>7, <2>2 DEF SealBackup, Goto
      <3> QED
          BY <1>5, <2>2, <3>1 DEF AtWork, Preparing
    <2> QED
        BY <2>1, <2>2
  <1>8. CASE SealFails(p)
      BY <1>5, <1>8, Returned DEF SealFails
  <1> QED
      BY <1>5, <1>6, <1>7, <1>8

\* The record is written.
LEMMA SoloBegin ==
  ASSUME Safely, OneOperator, Recorded, NEW p \in Cli, AtWork(p), Begin(p)
  PROVE  Recorded' /\ Steady /\ AtWork(p)'
  <1> USE DEF Recorded
  <1> DEFINE b == job[p].base
             i == job[p].src
  <1>1. /\ pc \in [Cli -> Unlocked \cup Locked] /\ job \in [Cli -> Job]
        /\ txn \in [TxId -> Record] /\ ver \in [Version -> Rendering] /\ nextTx \in Nat
      BY DEF Safely, TypeOK
  <1>2. /\ pc[p] = "record" /\ nextTx \in TxId /\ snap' = disk /\ todo' = File
        /\ UNCHANGED <<disk, bk>> /\ nextTx' = nextTx + 1
        /\ ver' = [ver EXCEPT ![nextTx] = Rendered(p)]
        /\ txn' = [txn EXCEPT ![nextTx] = InProgress(p)]
      BY DEF Begin
  <1>3. /\ Incomplete = {} /\ job[p].cmd \in Recoverable /\ b = disk["state"]
        /\ job[p].cmd \in Runs[p]
    <2>1. job[p].cmd \in Mutator /\ job[p].cmd \in Runs[p] /\ Incomplete = {} /\ b = disk["state"]
        BY <1>2 DEF AtWork, Preparing
    <2>2. Runs[p] \subseteq {"instance", "node", "backup", "cleanup", "cert", "recover"}
        BY DEF OneOperator, OneAtATime, AutoRecovers
    <2> QED
        BY <2>1, <2>2 DEF Mutator, Recoverable
  <1>4. i \in BackupId /\ bk[i].image = disk
      BY <1>2 DEF Safely, Sources, Saved
  <1>5. nextTx \in Version /\ nextTx # 0 /\ b \in Version /\ b < nextTx
    <2>1. b \in Version
        BY <1>1 DEF Job
    <2> QED
        BY <1>2, <1>3, <2>1, BoundAssumption DEF Numbered, TxId, Version
  <1>6. /\ ver'[nextTx] = Rendered(p) /\ \A v \in Version \ {nextTx} : ver'[v] = ver[v]
        /\ txn'[nextTx] = InProgress(p) /\ \A t \in TxId \ {nextTx} : txn'[t] = txn[t]
      BY <1>1, <1>2, <1>5
  <1>7. /\ Rendered(p).image["state"] = nextTx
        /\ Rendered(p).rev = ver[b].rev + 1
        /\ Rendered(p).carries = ver[b].carries \cup {nextTx}
    <2>1. "state" \in Touches(job[p].cmd) /\ "state" \in File
        BY <1>3 DEF Recoverable, Touches, File
    <2> QED
        BY <2>1 DEF Rendered, NextRevision
  <1>8. Numbered'
    <2>1. \A t \in TxId : t >= nextTx' => txn'[t].status = "NONE"
        BY <1>1, <1>2, <1>6 DEF Numbered, TxId
    <2>2. \A v \in Version : v < nextTx' =>
            ver'[v].image["state"] = v /\ \A c \in ver'[v].carries : c < nextTx'
      <3>1. \A v \in Version : ver[v].carries \subseteq TxId
          BY <1>1 DEF Rendering
      <3>2. \A v \in Version : v < nextTx + 1 => v < nextTx \/ v = nextTx
          BY <1>1, BoundAssumption DEF Version
      <3>3. ASSUME NEW v \in Version, v < nextTx
            PROVE  ver'[v].image["state"] = v /\ \A c \in ver'[v].carries : c < nextTx + 1
        <4>1. ver'[v] = ver[v] /\ ver[v].carries \subseteq Nat
            BY <1>1, <1>6, <3>1, <3>3, BoundAssumption DEF Version, TxId
        <4> QED
            BY <1>1, <3>3, <4>1 DEF Numbered
      <3>4. \A c \in ver[b].carries : c < nextTx + 1
        <4>1. ver[b].carries \subseteq Nat
            BY <1>5, <3>1 DEF TxId
        <4>2. \A c \in ver[b].carries : c < nextTx
            BY <1>5 DEF Numbered
        <4>3. \A c, n \in Nat : c < n => c < n + 1
            OBVIOUS
        <4> QED
            BY <1>1, <4>1, <4>2, <4>3
      <3>5. \A c \in ver'[nextTx].carries : c < nextTx + 1
          BY <1>1, <1>6, <1>7, <3>4
      <3>6. ver'[nextTx].image["state"] = nextTx
          BY <1>6, <1>7
      <3> QED
          BY <1>2, <3>2, <3>3, <3>5, <3>6
    <2>3. /\ disk'["state"] < nextTx' /\ snap'["state"] < nextTx'
          /\ \A c \in BackupId : bk'[c].image["state"] < nextTx'
      <3>1. "state" \in File
          BY DEF File
      <3>2. disk["state"] \in Nat /\ \A c \in BackupId : bk[c].image["state"] \in Nat
          BY <3>1, BoundAssumption DEF Safely, TypeOK, Image, Backup, Version
      <3> QED
          BY <1>1, <1>2, <3>2 DEF Numbered
    <2> QED
        BY <1>1, <1>2, <2>1, <2>2, <2>3 DEF Numbered
  <1>9. /\ InProgress(p).status = "IN_PROGRESS" /\ InProgress(p).bk = i
        /\ InProgress(p).cmd \in Recoverable
      BY <1>3 DEF InProgress
  <1>10. OneIncomplete' /\ Incomplete' = {nextTx}
    <2>1. \A t \in TxId \ {nextTx} : txn'[t].status # "IN_PROGRESS"
        BY <1>3, <1>6 DEF Incomplete, OneIncomplete
    <2> QED
        BY <1>2, <1>6, <1>9, <2>1 DEF Incomplete, OneIncomplete
  <1>11. Settled' = disk["state"] /\ Settled = disk["state"]
      BY <1>2, <1>3, <1>4, <1>6, <1>9, <1>10, SettledIs, SettledBecomes DEF SettledShown
  <1>12. txn[nextTx].status = "NONE"
      BY <1>1, <1>2 DEF Numbered
  <1>13. Steady
    <2>1. Committed' \subseteq Committed
        BY <1>6, <1>9 DEF Committed
    <2> QED
        BY <1>1, <1>6, <1>11, <2>1, BoundAssumption DEF Steady, Version
  <1>14. Sound'
    <2>1. Damaged' => Damaged
        BY <1>6, <1>9 DEF Damaged
    <2>2. Damaged => Damaged'
        BY <1>6, <1>12 DEF Damaged
    <2>3. b # nextTx
        BY <1>1, <1>5, BoundAssumption DEF Version
    <2>4. WholeImage(disk) => disk = ver'[disk["state"]].image
        BY <1>3, <1>5, <1>6, <2>3 DEF WholeImage
    <2>5. ~Damaged => WholeImage(disk)
        BY <1>3 DEF Sound
    <2> QED
        BY <1>2, <1>4, <1>6, <1>9, <1>10, <2>2, <2>4, <2>5 DEF Sound, WholeImage
  <1>15. AtWork(p)'
    <2>1. pc'[p] = "apply"
        BY <1>1 DEF Begin, Goto
    <2>2. job'[p].own = nextTx /\ job'[p].cmd = job[p].cmd
        BY <1>1 DEF Begin, Job
    <2>3. /\ ver'[nextTx].rev = ver'[b].rev + 1
          /\ ver'[nextTx].carries = ver'[b].carries \cup {nextTx}
          /\ nextTx \notin ver'[b].carries
      <3>1. ver'[b] = ver[b]
          BY <1>1, <1>5, <1>6, BoundAssumption DEF Version
      <3>2. \A c \in ver[b].carries : c < nextTx
          BY <1>5 DEF Numbered
      <3> QED
          BY <1>1, <1>6, <1>7, <3>1, <3>2
    <2> QED
        BY <1>2, <1>3, <1>5, <1>10, <2>1, <2>2, <2>3 DEF AtWork, Preparing
  <1> QED
      BY <1>8, <1>10, <1>13, <1>14, <1>15

\* What an invocation with a transaction of its own knows.
LEMMA OwnKnown ==
  ASSUME Safely, Recorded, NEW p \in Cli, AtWork(p),
         pc[p] \in {"apply", "undo"}, job[p].own # 0
  PROVE  /\ job[p].own \in Incomplete /\ job[p].own \in TxId /\ job[p].own < nextTx
         /\ ver[job[p].own].image["state"] = job[p].own
         /\ disk["state"] \in {job[p].own, snap["state"]}
         /\ snap["state"] < nextTx /\ snap = bk[txn[job[p].own].bk].image
         /\ Settled = snap["state"]
         /\ disk["state"] = job[p].own =>
              /\ job[p].own \notin ver[Settled].carries
              /\ ver[disk["state"]].carries = ver[Settled].carries \cup {job[p].own}
              /\ ver[disk["state"]].rev = ver[Settled].rev + 1
  <1>1. job[p].own \in Incomplete /\ job[p].own \in TxId
      BY DEF AtWork, Incomplete
  <1>2. job[p].own < nextTx
      BY <1>1 DEF Safely, TypeOK, Recorded, Numbered, Incomplete, TxId
  <1>3. ver[job[p].own].image["state"] = job[p].own
      BY <1>1, <1>2, BoundAssumption DEF Recorded, Numbered, TxId, Version
  <1>4. snap = bk[txn[job[p].own].bk].image
      BY DEF Safely, Saved
  <1>5. Settled = snap["state"]
      BY <1>1, <1>4, SettledIs DEF Recorded, SettledShown
  <1> QED
      BY <1>1, <1>2, <1>3, <1>4, <1>5 DEF AtWork, Recorded, Numbered

\* A file is written, or the writes stop.
LEMMA SoloApply ==
  ASSUME Safely, OneOperator, Recorded, NEW p \in Cli, AtWork(p),
         (\E f \in File : Apply(p, f)) \/ ApplyFails(p)
  PROVE  Recorded' /\ Steady /\ AtWork(p)'
  <1> USE DEF Recorded, count
  <1> DEFINE o == job[p].own
  <1>1. /\ TypeOK /\ RecoverySource /\ pc \in [Cli -> Unlocked \cup Locked]
        /\ disk \in [File -> Version]
      BY DEF Safely, TypeOK, Sources, Image
  <1>2. pc[p] = "apply" /\ UNCHANGED <<ver, txn, bk, nextTx, snap, job>>
      BY DEF Apply, ApplyFails, OneOperator
  <1>3. o # 0
      BY <1>2 DEF AtWork
  <1>4. /\ o \in Incomplete /\ o < nextTx /\ ver[o].image["state"] = o
        /\ disk["state"] \in {o, snap["state"]} /\ snap["state"] < nextTx
      BY <1>2, <1>3, OwnKnown
  <1>5. CASE \E f \in File : Apply(p, f)
    <2>1. PICK f \in File : Apply(p, f)
        BY <1>5
    <2>2. disk' = [disk EXCEPT ![f] = ver[o].image[f]] /\ todo' = todo \ {f} /\ pc' = pc
        BY <2>1 DEF Apply
    <2>3. disk'["state"] \in {o, snap["state"]}
        BY <1>1, <1>4, <2>2
    <2>4. Recorded' /\ Steady /\ Incomplete' = Incomplete
        BY <1>1, <1>2, <1>4, <2>3, WriteStep
    <2>5. \A g \in File \ todo' : disk'[g] = ver[o].image[g]
        BY <1>1, <1>2, <2>2 DEF AtWork
    <2> QED
        BY <1>2, <1>3, <2>2, <2>3, <2>4, <2>5 DEF AtWork, Preparing
  <1>6. CASE ApplyFails(p)
    <2>1. UNCHANGED <<disk, txn>> /\ pc'[p] = "undo"
        BY <1>1, <1>6 DEF ApplyFails, Goto, OneOperator
    <2>2. Recorded' /\ Steady /\ Incomplete' = Incomplete
        BY <1>1, <1>2, <2>1, StillStep
    <2> QED
        BY <1>2, <1>3, <2>1, <2>2 DEF AtWork, Preparing
  <1> QED
      BY <1>5, <1>6

\* The change stands.
LEMMA SoloCommit ==
  ASSUME Safely, Recorded, NEW p \in Cli, AtWork(p), Commit(p)
  PROVE  Recorded' /\ Moves /\ AtWork(p)'
  <1> USE DEF Recorded, held, count
  <1> DEFINE o == job[p].own
  <1>1. /\ TypeOK /\ pc \in [Cli -> Unlocked \cup Locked] /\ disk \in [File -> Version]
        /\ \A v \in Version : ver[v].image \in [File -> Version]
      BY DEF Safely, TypeOK, Image, Rendering
  <1>2. /\ pc[p] = "apply" /\ UNCHANGED <<disk, ver, bk, nextTx, snap, job>> /\ todo = {}
        /\ txn' = [txn EXCEPT ![o].status = "COMMITTED"] /\ pc'[p] = "publish"
      BY <1>1 DEF Commit, Goto
  <1>3. o # 0 /\ \A f \in File : disk[f] = ver[o].image[f]
      BY <1>2 DEF AtWork
  <1>4. /\ o \in Incomplete /\ o \in TxId /\ ver[o].image["state"] = o
        /\ disk["state"] = o =>
             /\ o \notin ver[Settled].carries
             /\ ver[disk["state"]].carries = ver[Settled].carries \cup {o}
             /\ ver[disk["state"]].rev = ver[Settled].rev + 1
      BY <1>2, <1>3, OwnKnown
  <1>5. o \in Version
      BY <1>4, BoundAssumption DEF TxId, Version
  <1>6. disk = ver[o].image /\ disk["state"] = o
    <2>1. disk = ver[o].image
        BY <1>1, <1>3, <1>5
    <2> QED
        BY <1>4, <2>1
  <1>7. /\ Numbered' /\ OneIncomplete' /\ Incomplete' = {} /\ Settled' = disk["state"]
        /\ Committed' = Committed \cup {o} /\ (Damaged' <=> Damaged)
    <2>1. "COMMITTED" \in Status \ {"IN_PROGRESS", "NONE"}
        BY DEF Status
    <2>2. Recorded
        BY DEF Recorded
    <2> HIDE DEF Recorded
    <2> QED
        BY <1>1, <1>2, <1>4, <2>1, <2>2, FinishStep
  <1>8. Advances(o)
      BY <1>2, <1>4, <1>6, <1>7 DEF Advances
  <1>9. Sound'
      BY <1>2, <1>6, <1>7 DEF Sound, WholeImage
  <1>10. AtWork(p)'
      BY <1>2 DEF AtWork, Preparing
  <1> QED
      BY <1>4, <1>7, <1>8, <1>9, <1>10 DEF Moves

\* A file of the snapshot is put back.
LEMMA SoloUndo ==
  ASSUME Safely, Recorded, NEW p \in Cli, AtWork(p), NEW f \in File, Undo(p, f)
  PROVE  Recorded' /\ Steady /\ AtWork(p)'
  <1> USE DEF count
  <1>1. /\ TypeOK /\ RecoverySource /\ disk \in [File -> Version]
        /\ pc[p] = "undo" /\ UNCHANGED <<ver, txn, bk, nextTx, snap, job, pc>>
        /\ disk' = [disk EXCEPT ![f] = snap[f]]
      BY DEF Safely, TypeOK, Sources, Image, Undo
  <1>2. disk'["state"] \in {disk["state"], snap["state"]}
      BY <1>1
  <1>3. disk["state"] < nextTx /\ snap["state"] < nextTx
      BY DEF Recorded, Numbered
  <1>4. Incomplete # {}
      BY <1>1 DEF AtWork
  <1>5. Recorded' /\ Steady /\ Incomplete' = Incomplete
      BY <1>1, <1>2, <1>3, <1>4, WriteStep
  <1> QED
      BY <1>1, <1>2, <1>5 DEF AtWork, Preparing

\* The undo is over, however it went.
LEMMA SoloUndone ==
  ASSUME Safely, Recorded, NEW p \in Cli, AtWork(p), UndoDone(p) \/ UndoFails(p)
  PROVE  Recorded' /\ Moves /\ AtWork(p)'
  <1> USE DEF Release
  <1> DEFINE o == job[p].own
  <1>1. /\ TypeOK /\ RecoverySource /\ disk \in [File -> Version] /\ snap \in [File -> Version]
      BY DEF Safely, TypeOK, Sources, Image
  <1>2. PICK s : /\ EndUndo(p, s)
                 /\ \/ s = "ROLLED_BACK" /\ todo = {}
                    \/ s = "ROLLBACK_FAILED"
                    \/ o # 0 /\ s = txn[o].status
      BY DEF UndoDone, UndoFails
  <1>3. /\ pc[p] = "undo" /\ UNCHANGED <<disk, ver, bk, nextTx, snap>> /\ Exit(p)
        /\ txn' = IF o = 0 THEN txn ELSE [txn EXCEPT ![o].status = s]
      BY <1>2 DEF EndUndo
  <1>4. AtWork(p)'
      BY <1>1, <1>3, Returned
  <1>5. ASSUME txn' = txn
        PROVE  Recorded' /\ Moves
      BY <1>1, <1>3, <1>5, StillStep DEF Moves
  <1>6. CASE o = 0
      BY <1>3, <1>4, <1>5, <1>6
  <1>7. CASE o # 0
    <2>1. /\ o \in Incomplete /\ o \in TxId /\ disk["state"] \in {o, snap["state"]}
          /\ snap["state"] < nextTx /\ snap = bk[txn[o].bk].image /\ Settled = snap["state"]
          /\ disk["state"] = o =>
               /\ o \notin ver[Settled].carries
               /\ ver[disk["state"]].carries = ver[Settled].carries \cup {o}
               /\ ver[disk["state"]].rev = ver[Settled].rev + 1
        BY <1>3, <1>7, OwnKnown
    <2>2. CASE s = txn[o].status
      <3>1. txn' = txn
          BY <1>1, <1>3, <1>7, <2>1, <2>2 DEF TypeOK, Record
      <3> QED
          BY <1>4, <1>5, <3>1
    <2>3. CASE s \in {"ROLLED_BACK", "ROLLBACK_FAILED"}
      <3>1. /\ Numbered' /\ OneIncomplete' /\ Incomplete' = {} /\ Settled' = disk["state"]
            /\ Committed' = Committed /\ (Damaged' <=> Damaged \/ s = "ROLLBACK_FAILED")
        <4>1. s \in Status \ {"IN_PROGRESS", "NONE"} /\ s # "COMMITTED"
            BY <2>3 DEF Status
        <4> QED
            BY <1>1, <1>3, <1>7, <2>1, <4>1, FinishStep
      <3>2. Moves
        <4>1. CASE disk["state"] = o
          <5>1. Advances(o)
              BY <1>3, <2>1, <3>1, <4>1 DEF Advances
          <5> QED
              BY <2>1, <5>1 DEF Moves
        <4>2. CASE disk["state"] = snap["state"]
            BY <1>3, <2>1, <3>1, <4>2 DEF Moves, Steady
        <4> QED
            BY <2>1, <4>1, <4>2
      <3>3. Sound'
        <4>1. CASE s = "ROLLBACK_FAILED"
            BY <3>1, <4>1 DEF Sound
        <4>2. CASE s = "ROLLED_BACK" /\ todo = {}
          <5>1. disk = snap
              BY <1>1, <1>3, <4>2 DEF Safely, Saved
          <5>2. ~Damaged => WholeImage(disk)
              BY <2>1, <5>1 DEF Recorded, Sound
          <5> QED
              BY <1>3, <3>1, <5>2 DEF Sound, WholeImage
        <4>3. CASE s = txn[o].status
            BY <2>1, <2>3, <4>3 DEF Incomplete
        <4> QED
            BY <1>2, <4>1, <4>2, <4>3
      <3> QED
          BY <1>4, <3>1, <3>2, <3>3 DEF Recorded
    <2> QED
        BY <1>2, <2>2, <2>3
  <1> QED
      BY <1>6, <1>7

\* A backup is put back, up to the moment the lock is dropped.
LEMMA SoloRestore ==
  ASSUME Safely, OneOperator, Recorded, NEW p \in Cli, AtWork(p),
         \/ BeginRestore(p) \/ (\E f \in File : Restore(p, f)) \/ RestoreFails(p)
         \/ RestoreDone(p)
  PROVE  Recorded' /\ Steady /\ AtWork(p)'
  <1> USE DEF files, held, count, Release
  <1> DEFINE j == job[p]
  <1>1. /\ TypeOK /\ RecoverySource /\ pc \in [Cli -> Unlocked \cup Locked]
        /\ disk \in [File -> Version]
      BY DEF Safely, TypeOK, Sources, Image
  <1>2. /\ pc[p] \in {"awaitRestore", "restore"} /\ UNCHANGED <<ver, txn, bk, nextTx>>
      BY DEF BeginRestore, Restore, RestoreFails, RestoreDone
  <1>3. /\ j.target \in Incomplete /\ j.target # 0 /\ j.src = txn[j.target].bk
        /\ j.src \in BackupId /\ j.own = 0 /\ j.cmd \in Runs[p]
    <2>1. j.target \in Incomplete /\ j.src = txn[j.target].bk /\ j.cmd \in Runs[p]
        BY <1>2 DEF AtWork
    <2>2. j.target # 0 /\ j.src \in BackupId
        BY <1>1, <2>1, BoundAssumption DEF Incomplete, TxId, RecoverySource
    <2> QED
        BY <1>2, <2>1, <2>2 DEF Safely, Saved
  <1>4. disk["state"] < nextTx /\ bk[j.src].image["state"] < nextTx
      BY <1>3 DEF Recorded, Numbered
  <1>5. CASE BeginRestore(p)
    <2>1. UNCHANGED <<disk, job>> /\ pc'[p] = "restore" /\ todo' = File /\ snap' = disk
        BY <1>1, <1>5 DEF BeginRestore, Goto
    <2>2. Recorded' /\ Steady /\ Incomplete' = Incomplete
      <3>1. \A b \in BackupId : bk[b].image["state"] < nextTx
          BY DEF Recorded, Numbered
      <3> QED
          BY <1>1, <1>2, <1>4, <2>1, <3>1, QuietStep
    <2> QED
        BY <1>2, <1>3, <2>1, <2>2 DEF AtWork, Preparing
  <1>6. CASE \E f \in File : Restore(p, f)
    <2>1. PICK f \in File : Restore(p, f)
        BY <1>6
    <2>2. /\ disk' = [disk EXCEPT ![f] = bk[j.src].image[f]] /\ todo' = todo \ {f}
          /\ UNCHANGED <<pc, job, snap>> /\ pc[p] = "restore"
        BY <2>1 DEF Restore
    <2>3. disk'["state"] < nextTx
        BY <1>1, <1>4, <2>2
    <2>4. Recorded' /\ Steady /\ Incomplete' = Incomplete
        BY <1>1, <1>2, <1>3, <2>2, <2>3, WriteStep
    <2>5. \A g \in File \ todo' : disk'[g] = bk[j.src].image[g]
        BY <1>1, <2>2 DEF AtWork
    <2> QED
        BY <1>2, <1>3, <2>2, <2>4, <2>5 DEF AtWork, Preparing
  <1>7. CASE RestoreFails(p)
    <2>1. UNCHANGED <<disk, job, snap>> /\ pc'[p] = "undo"
        BY <1>1, <1>7 DEF RestoreFails, Goto, OneOperator
    <2>2. Recorded' /\ Steady /\ Incomplete' = Incomplete
        BY <1>1, <1>2, <2>1, StillStep
    <2> QED
        BY <1>3, <2>1, <2>2 DEF AtWork, Preparing
  <1>8. CASE RestoreDone(p)
    <2>1. UNCHANGED <<disk, job, snap>> /\ pc'[p] = "mark" /\ pc[p] = "restore" /\ todo = {}
        BY <1>1, <1>3, <1>8 DEF RestoreDone, Goto
    <2>2. Recorded' /\ Steady /\ Incomplete' = Incomplete
        BY <1>1, <1>2, <2>1, StillStep
    <2>3. disk = bk[j.src].image
      <3>1. bk[j.src].image \in [File -> Version]
          BY <1>1, <1>3 DEF TypeOK, Backup, Image
      <3> QED
          BY <1>1, <2>1, <3>1 DEF AtWork
    <2> QED
        BY <1>2, <1>3, <2>1, <2>2, <2>3 DEF AtWork, Preparing
  <1> QED
      BY <1>5, <1>6, <1>7, <1>8

\* The transaction is marked RECOVERED, and the command goes on.
LEMMA SoloMark ==
  ASSUME Safely, Recorded, NEW p \in Cli, AtWork(p), Mark(p)
  PROVE  Recorded' /\ Steady /\ AtWork(p)'
  <1> USE DEF held, count
  <1> DEFINE j == job[p]
  <1>1. /\ TypeOK /\ pc \in [Cli -> Unlocked \cup Locked] /\ job \in [Cli -> Job]
      BY DEF Safely, TypeOK
  <1>2. /\ pc[p] = "mark" /\ UNCHANGED <<disk, ver, bk, nextTx, snap>>
        /\ txn' = [txn EXCEPT ![j.target].status = "RECOVERED"]
      BY DEF Mark
  <1>3. /\ j.target \in Incomplete /\ disk = bk[txn[j.target].bk].image
        /\ j.cmd \in Runs[p] /\ j.cmd \in Command
      BY <1>2 DEF AtWork, Safely, Placed
  <1>4. /\ Numbered' /\ OneIncomplete' /\ Incomplete' = {}
        /\ Settled' = disk["state"] /\ Settled = disk["state"]
        /\ Committed' = Committed /\ (Damaged' <=> Damaged)
    <2>1. "RECOVERED" \in Status \ {"IN_PROGRESS", "NONE"}
        BY DEF Status
    <2> QED
        BY <1>1, <1>2, <1>3, <2>1, FinishStep
  <1>5. Steady
      BY <1>2, <1>4 DEF Steady
  <1>6. Sound'
      BY <1>2, <1>3, <1>4 DEF Recorded, Sound, WholeImage
  <1>7. CASE Entry(j.cmd) = "idle"
      BY <1>1, <1>4, <1>5, <1>6, <1>7, Returned DEF Mark, Recorded
  <1>8. CASE Entry(j.cmd) # "idle"
    <2>1. \/ pc'[p] = "read" /\ j.cmd \in Mutator
          \/ pc'[p] = "awaitBackup" /\ j.cmd = "backup"
          \/ pc'[p] = "awaitCleanup"
      <3>1. pc'[p] = Entry(j.cmd)
          BY <1>1, <1>8 DEF Mark, Goto
      <3> QED
          BY <1>3, <1>8, <3>1 DEF Entry
    <2>2. job'[p].cmd = j.cmd
        BY <1>1, <1>8 DEF Mark, JobFor
    <2>3. AtWork(p)'
        BY <1>3, <1>4, <2>1, <2>2 DEF AtWork, Preparing
    <2> QED
        BY <1>4, <1>5, <1>6, <2>3 DEF Recorded
  <1> QED
      BY <1>7, <1>8

\* Old backups and final records go.
LEMMA SoloCleanup ==
  ASSUME Safely, Recorded, NEW p \in Cli, AtWork(p), Cleanup(p)
  PROVE  Recorded' /\ Steady /\ AtWork(p)'
  <1> USE DEF held, count
  <1>1. /\ TypeOK /\ RecoverySource /\ UNCHANGED <<disk, ver, nextTx, snap>> /\ Exit(p)
      BY DEF Safely, Sources, Cleanup
  <1>2. \A b \in BackupId : bk'[b].image = bk[b].image
      BY DEF Cleanup, Safely, TypeOK, Backup
  <1>3. \A t \in TxId :
          /\ txn'[t].bk = txn[t].bk /\ txn'[t].cmd = txn[t].cmd
          /\ \/ txn'[t].status = txn[t].status
             \/ /\ txn[t].status \in {"COMMITTED", "ROLLED_BACK"}
                /\ txn'[t].status = "REMOVED"
      BY DEF Cleanup, Safely, TypeOK, Record
  <1>4. snap["state"] < nextTx /\ \A b \in BackupId : bk'[b].image["state"] < nextTx
      BY <1>2 DEF Recorded, Numbered
  <1>5. \A t \in Incomplete : bk'[txn[t].bk].image = bk[txn[t].bk].image
      BY <1>1, <1>2 DEF Incomplete, RecoverySource
  <1>6. Recorded' /\ Steady
      BY <1>1, <1>3, <1>4, <1>5, QuietStep
  <1> QED
      BY <1>1, <1>6, Returned

-----------------------------------------------------------------------------
(* The theorems about one writer at a time.                                *)

LEMMA SoloActions ==
  ASSUME Safely, OneOperator, Recorded, NEW p \in Cli, AtWork(p),
         Start(p) \/ Proceed(p) \/ Fails(p) \/ Crash(p)
  PROVE  Recorded' /\ Moves /\ AtWork(p)'
  BY SoloStart, SoloIdleStep, SoloBackup, SoloBegin, SoloApply, SoloCommit, SoloUndo,
     SoloUndone, SoloRestore, SoloMark, SoloCleanup
  DEF Moves, Proceed, Fails

\* Steps of the timer beside it.
LEMMA ConfinedSolo ==
  ASSUME Safely, Solo, NEW c \in Confined, Start(c) \/ Proceed(c) \/ Fails(c) \/ Crash(c)
  PROVE  Recorded' /\ Steady /\ \A q \in Writer : AtWork(q)'
  <1>1. /\ UNCHANGED <<disk, ver, txn, bk, nextTx>> /\ snap' \in {snap, disk}
        /\ \A q \in Writer : Beside(q)
      BY ConfinedStep
  <1>2. Recorded /\ TypeOK /\ RecoverySource
      BY DEF Safely, Sources, Solo, Recorded
  <1>3. snap'["state"] < nextTx /\ \A b \in BackupId : bk'[b].image["state"] < nextTx
      BY <1>1, <1>2 DEF Recorded, Numbered
  <1>4. Recorded' /\ Steady /\ Incomplete' = Incomplete
      BY <1>1, <1>2, <1>3, QuietStep
  <1>5. ASSUME NEW q \in Writer PROVE AtWork(q)'
    <2>1. AtWork(q) /\ pc'[q] = pc[q] /\ job'[q] = job[q]
        BY <1>1 DEF Solo, Beside
    <2>2. pc[q] \in Locked => UNCHANGED <<snap, todo>>
        BY <1>1 DEF Beside
    <2> QED
        BY <1>1, <1>4, <2>1, <2>2 DEF AtWork, Locked
  <1> QED
      BY <1>4, <1>5

LEMMA SoloStep ==
  ASSUME OneOperator, Safely, TypeOK', Solo, Next
  PROVE  Solo' /\ Moves
  <1>1. PICK p \in Cli : Start(p) \/ Proceed(p) \/ Fails(p) \/ Crash(p)
      BY DEF Next
  <1>2. Recorded /\ Kept /\ CommittedRevisionsDistinct
      BY DEF Solo, Recorded
  <1>3. Recorded' /\ Moves /\ \A q \in Writer : AtWork(q)'
    <2>1. CASE p \in Writer
      <3>1. Recorded' /\ Moves /\ AtWork(p)'
          BY <1>1, <1>2, <2>1, SoloActions DEF Solo
      <3>2. \A q \in Writer : q = p
          BY <2>1 DEF OneOperator, OneAtATime
      <3> QED
          BY <3>1, <3>2
    <2>2. CASE p \in Confined
        BY <1>1, <2>2, ConfinedSolo DEF Moves
    <2> QED
        BY <2>1, <2>2 DEF Writer
  <1>4. Kept' /\ CommittedRevisionsDistinct'
      BY <1>2, <1>3, MovesKept DEF Safely, Sources, Recorded
  <1> QED
      BY <1>3, <1>4 DEF Solo, Recorded

LEMMA SoloStutter ==
  ASSUME Solo, UNCHANGED vars
  PROVE  Solo' /\ UNCHANGED <<ver[Settled].carries, ver[Settled].rev>>
  <1>1. Settled' = Settled /\ Committed' = Committed
      BY DEF vars, Settled, Committed, Latest, Incomplete
  <1>2. Numbered' /\ OneIncomplete' /\ CommittedRevisionsDistinct'
      BY DEF Solo, vars, Numbered, OneIncomplete, CommittedRevisionsDistinct
  <1>3. Sound' /\ Kept'
      BY <1>1 DEF Solo, vars, Sound, Kept, WholeImage, Damaged, Incomplete
  <1>4. \A p \in Writer : AtWork(p)'
      BY DEF Solo, vars, AtWork, Incomplete
  <1> QED
      BY <1>1, <1>2, <1>3, <1>4 DEF Solo, vars

LEMMA SoloInit ==
  ASSUME OneOperator, Init
  PROVE  Solo /\ Promise!Init
  <1>1. /\ \A t \in TxId : txn[t].status = "NONE"
        /\ disk = [f \in File |-> 0] /\ ver[0].image = disk /\ ver[0].rev = 1 /\ ver[0].carries = {}
      BY BoundAssumption DEF Init, NoRecord, Version
  <1>2. "state" \in File
      BY DEF File
  <1>3. Incomplete = {} /\ Committed = {} /\ Settled = 0
      BY <1>1, <1>2 DEF Incomplete, Committed, Settled
  <1>4. Numbered
    <2>1. \A v \in Version : v < 1 => v = 0
        BY BoundAssumption DEF Version
    <2> QED
        BY <1>1, <1>2, <2>1 DEF Numbered, Init
  <1>5. OneIncomplete /\ Sound /\ Kept /\ CommittedRevisionsDistinct
      BY <1>1, <1>2, <1>3
      DEF OneIncomplete, Sound, Kept, CommittedRevisionsDistinct, WholeImage
  <1>6. \A p \in Writer : AtWork(p)
      BY DEF Init, AtWork, Preparing, Writer
  <1>7. Promise!Init
      BY <1>1, <1>3 DEF Promise!Init
  <1> QED
      BY <1>4, <1>5, <1>6, <1>7 DEF Solo

LEMMA SoloAlways ==
  ASSUME OneOperator
  PROVE  Spec => []Solo
  <1>1. Init => Solo
      BY SoloInit
  <1>2. Safely /\ Safely' /\ Solo /\ [Next]_vars => Solo'
      BY SoloStep, SoloStutter DEF Safely
  <1> QED
      BY <1>1, <1>2, Safety, PTL DEF Spec

\* A mixture of two versions on disk is on record: while nobody is at work, an
\* installation that is torn has a transaction in progress or a failed rollback,
\* for any number of changes, kills and failures
\* (commitManagedStateChange's order of record, writes and final record).
THEOREM TornIsOnRecord ==
  ASSUME OneOperator
  PROVE  Spec => []TornIsEvident
  <1>1. Solo => TornIsEvident
    <2> SUFFICES ASSUME Solo, Torn, ~Damaged
                 PROVE  \E t \in TxId : txn[t].status = "IN_PROGRESS"
        BY DEF TornIsEvident, Damaged
    <2> QED
        BY DEF Solo, Sound, WholeImage, Torn, Incomplete
  <1> QED
      BY <1>1, SoloAlways, PTL

\* No change is rendered from, and no backup of a change is taken of, an
\* installation that a killed command left torn (shouldAutoRecover).
THEOREM ChangesStartFromWhole ==
  ASSUME OneOperator
  PROVE  Spec => []ChangesStartWhole
  <1>1. Safely /\ Solo => ChangesStartWhole
    <2> SUFFICES ASSUME Safely, Solo, ~Damaged, NEW p \in Cli, pc[p] = "record" PROVE ~Torn
        BY DEF ChangesStartWhole
    <2>1. p \in Writer
        BY DEF Safely, Confines, Writer
    <2>2. Incomplete = {}
        BY <2>1 DEF Solo, AtWork, Preparing
    <2> QED
        BY <2>2 DEF Solo, Sound, WholeImage, Torn
  <1> QED
      BY <1>1, Safety, SoloAlways, PTL

\* No recovery takes a committed change away: the installed version carries all
\* of them whenever nothing is in progress.
THEOREM CommittedIsKept ==
  ASSUME OneOperator
  PROVE  Spec => []NoCommittedChangeLost
  <1>1. Solo => NoCommittedChangeLost
    <2> SUFFICES ASSUME Solo, Incomplete = {}, NEW t \in Committed
                 PROVE  t \in ver[disk["state"]].carries
        BY DEF NoCommittedChangeLost, Committed
    <2>1. Settled = disk["state"]
        BY SettledIs DEF Solo, SettledShown
    <2> QED
        BY <2>1 DEF Solo, Kept
  <1> QED
      BY <1>1, SoloAlways, PTL

\* Committed changes have configuration revisions of their own, whatever was
\* rolled back or recovered between them.
THEOREM RevisionsAreDistinct ==
  ASSUME OneOperator
  PROVE  Spec => []CommittedRevisionsDistinct
  <1>1. Solo => CommittedRevisionsDistinct
      BY DEF Solo
  <1> QED
      BY <1>1, SoloAlways, PTL

\* What the one operator sees of the engine is the abstract installation: every
\* step is one whole change on top of all those before, or nothing.
THEOREM EngineKeepsPromise ==
  ASSUME OneOperator
  PROVE  Spec => ImplementsInstallation
  <1>1. Init => Promise!Init
      BY SoloInit
  <1>2. Safely /\ Safely' /\ Solo /\ [Next]_vars =>
          [Promise!Next]_<<ver[Settled].carries, ver[Settled].rev>>
    <2> SUFFICES ASSUME Safely, Safely', Solo, [Next]_vars
                 PROVE  [Promise!Next]_<<ver[Settled].carries, ver[Settled].rev>>
        OBVIOUS
    <2>1. CASE Next
      <3>1. Moves
          BY <2>1, SoloStep DEF Safely
      <3> QED
          BY <3>1, MovesImplement DEF Solo, Safely, Sources
    <2>2. CASE UNCHANGED vars
        BY <2>2, SoloStutter
    <2> QED
        BY <2>1, <2>2
  <1> QED
      BY <1>1, <1>2, Safety, SoloAlways, PTL DEF Spec, ImplementsInstallation, Promise!Spec
=============================================================================
