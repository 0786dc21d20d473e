----------------------------- MODULE Subscription -----------------------------
(***************************************************************************)
(* The node's side of a subscription: configure and remove write and take  *)
(* away the credentials under the process lock, undoing what fails;        *)
(* publish and rollback talk to the Worker and record the outcome in       *)
(* publication.json, under no lock at all.  The Worker is reduced to what  *)
(* WorkerPublish promises: it accepts a revision or it does not, and an    *)
(* answer may be lost.                                                     *)
(***************************************************************************)
EXTENDS Integers, Sequences, FiniteSets

CONSTANTS
  Shell,        \* invocations that may be alive together
  NoShell,      \* nobody (the lock is free)
  Credential,   \* credentials the operator may install
  NoFile,
  MaxRevision,  \* bound: revisions of the installation
  MaxSubCmd,    \* bound: commands
  MaxSubCrash,  \* bound: kills
  MaxSubFault   \* bound: failing operations, lost answers

Revision == 0..MaxRevision
PublicationStatus == {"CONFIGURED", "COMMITTED", "ROLLED_BACK", "DEGRADED"}
Publication == [status : PublicationStatus, revision : Revision]

ASSUME SubscriptionAssumption ==
  /\ IsFiniteSet(Shell) /\ NoShell \notin Shell
  /\ NoFile \notin Credential /\ NoFile \notin Publication
  /\ MaxRevision \in Nat \ {0} /\ {MaxSubCmd, MaxSubCrash, MaxSubFault} \subseteq Nat

VARIABLES
  installed,   \* config_revision of the installation
  file,        \* subscription.json, its secrets, publication.json, and whether
               \* ownership.json lists the three
  subLock, subSnap, subTodo,  \* the lock, what its holder found and has to do
  subPc, subJob,
  served,      \* the revision the Worker serves, 0 before the first
  accepted,    \* the revisions it has accepted
  broken,      \* a command was killed, or failed to undo
  subCmds, subCrashes, subFaults

subVars == <<installed, file, subLock, subSnap, subTodo, subPc, subJob, served, accepted,
             broken, subCmds, subCrashes, subFaults>>
subHeld   == <<subLock, subSnap, subTodo>>
worker    == <<served, accepted>>
subCount  == <<subCmds, subCrashes, subFaults>>

Name == {"config", "secret", "publication", "listed"}
NoPublication == [status |-> "DEGRADED", revision |-> 0]
Nothing == [config |-> NoFile, secret |-> NoFile, publication |-> NoFile, listed |-> FALSE]
Credentials == Credential \cup {NoFile}
Files == [config : Credentials, secret : Credentials,
          publication : Publication \cup {NoFile}, listed : BOOLEAN]

SubJob == [cmd : {"none", "configure", "remove", "publish", "rollback"}, revision : Revision,
           found : Publication]
NoSubJob == [cmd |-> "none", revision |-> 0, found |-> NoPublication]

SubInit ==
  /\ installed = 1 /\ file = Nothing
  /\ subLock = NoShell /\ subSnap = Nothing /\ subTodo = <<>>
  /\ subPc = [p \in Shell |-> "idle"] /\ subJob = [p \in Shell |-> NoSubJob]
  /\ served = 0 /\ accepted = {}
  /\ broken = FALSE /\ subCmds = 0 /\ subCrashes = 0 /\ subFaults = 0

SubFault == subFaults < MaxSubFault /\ subFaults' = subFaults + 1
SubCommand(p) == subPc[p] = "idle" /\ subCmds < MaxSubCmd /\ subCmds' = subCmds + 1
SubGoto(p, l) == subPc' = [subPc EXCEPT ![p] = l]
SubExit(p) == SubGoto(p, "idle") /\ subJob' = [subJob EXCEPT ![p] = NoSubJob]
SubRelease(p) == IF subLock = p
                 THEN subLock' = NoShell /\ subSnap' = Nothing /\ subTodo' = <<>>
                 ELSE UNCHANGED subHeld

-----------------------------------------------------------------------------
(* configure and remove                                                    *)

Set(n, v) == [name |-> n, to |-> v]

\* configureSubscriptionFiles: the secrets first, the list of owned files last.
Configuring(c) ==
  <<Set("secret", c), Set("config", c),
    Set("publication", [status |-> "CONFIGURED", revision |-> 0]), Set("listed", TRUE)>>

\* removeSubscriptionFiles: the list first.
Removing ==
  <<Set("listed", FALSE), Set("secret", NoFile), Set("publication", NoFile),
    Set("config", NoFile)>>

\* Faulty: only the list of owned files is put back.
UndoingListed(cmd) == <<Set("listed", subSnap["listed"])>>

\* The deferred undo: every file as it was found, the last snapshot first.
Undoing(cmd) ==
  LET order == IF cmd = "configure" THEN <<"listed", "publication", "secret", "config">>
               ELSE <<"listed", "config", "publication", "secret">>
  IN  [i \in 1..4 |-> Set(order[i], subSnap[order[i]])]

\* The lock is free, the files are read; a lock that is taken ends the command.
Lock(p, cmd, todo) ==
  /\ SubCommand(p) /\ subLock = NoShell
  /\ subLock' = p /\ subSnap' = file /\ subTodo' = todo
  /\ SubGoto(p, "files") /\ subJob' = [subJob EXCEPT ![p].cmd = cmd]
  /\ UNCHANGED <<installed, file, worker, broken, subCrashes, subFaults>>

Configure(p) == \E c \in Credential : Lock(p, "configure", Configuring(c))
Remove(p) == Lock(p, "remove", Removing)

Written1(step) == [file EXCEPT ![step.name] = step.to]

Take(p) ==
  /\ subPc[p] \in {"files", "back"} /\ subTodo # <<>>
  /\ file' = Written1(Head(subTodo)) /\ subTodo' = Tail(subTodo)
  /\ UNCHANGED <<installed, subLock, subSnap, subPc, subJob, worker, broken, subCount>>

\* With or without its effect; going back, errors are ignored.
TakeFails(p) ==
  /\ subPc[p] \in {"files", "back"} /\ subTodo # <<>> /\ SubFault
  /\ file' \in {file, Written1(Head(subTodo))}
  /\ IF subPc[p] = "files"
     THEN subTodo' = Undoing(subJob[p].cmd) /\ SubGoto(p, "back") /\ UNCHANGED broken
     ELSE subTodo' = Tail(subTodo) /\ broken' = TRUE /\ UNCHANGED subPc
  /\ UNCHANGED <<installed, subLock, subSnap, subJob, worker, subCmds, subCrashes>>

Done(p) ==
  /\ subPc[p] \in {"files", "back"} /\ subTodo = <<>>
  /\ SubExit(p) /\ SubRelease(p)
  /\ UNCHANGED <<installed, file, worker, broken, subCount>>

-----------------------------------------------------------------------------
(* publish (also after a change, attemptAutoPublishSubscription), rollback *)

Configured == file.config # NoFile /\ file.secret # NoFile

\* The credentials and the installation are read, then the Worker is asked.
Publish(p) ==
  /\ SubCommand(p) /\ Configured
  /\ SubGoto(p, "ask")
  /\ subJob' = [subJob EXCEPT ![p].cmd = "publish", ![p].revision = installed]
  /\ UNCHANGED <<installed, file, subHeld, worker, broken, subCrashes, subFaults>>

Rollback(p) ==
  /\ SubCommand(p) /\ Configured
  /\ SubGoto(p, "ask")
  /\ \E r \in accepted :
       subJob' = [subJob EXCEPT ![p].cmd = "rollback", ![p].revision = r]
  /\ UNCHANGED <<installed, file, subHeld, worker, broken, subCrashes, subFaults>>

\* The Worker takes a publication that is not older than what it serves, and
\* goes back to any it has accepted.
Accepts(p) == subJob[p].cmd = "publish" => subJob[p].revision >= served

Accepted(p) ==
  /\ served' = subJob[p].revision
  /\ accepted' = accepted \cup {subJob[p].revision}

Ask(p) ==
  /\ subPc[p] = "ask" /\ Accepts(p) /\ Accepted(p)
  /\ SubGoto(p, "record")
  /\ UNCHANGED <<installed, file, subHeld, subJob, broken, subCount>>

\* Refused, broken off, or the answer or the read-back is lost.
AskFails(p) ==
  /\ subPc[p] = "ask"
  /\ \/ ~Accepts(p) /\ UNCHANGED <<worker, subFaults>>
     \/ Accepts(p) /\ SubFault /\ (UNCHANGED worker \/ Accepted(p))
  /\ SubGoto(p, "failed")
  /\ UNCHANGED <<installed, file, subHeld, subJob, broken, subCmds, subCrashes>>

\* Faulty: a status no reader of the record knows.
OutcomeUnknown(p) == [status |-> "DONE", revision |-> subJob[p].revision]

Outcome(p) == [status |-> IF subJob[p].cmd = "publish" THEN "COMMITTED" ELSE "ROLLED_BACK",
               revision |-> subJob[p].revision]

\* The outcome is recorded; where that fails a publication records a failure.
RecordOutcome(p) ==
  /\ subPc[p] = "record"
  /\ file' = [file EXCEPT !.publication = Outcome(p)]
  /\ SubExit(p)
  /\ UNCHANGED <<installed, subHeld, worker, broken, subCount>>

RecordOutcomeFails(p) ==
  /\ subPc[p] = "record" /\ SubFault
  /\ file' \in {file, [file EXCEPT !.publication = Outcome(p)]}
  /\ IF subJob[p].cmd = "publish" THEN SubGoto(p, "failed") /\ UNCHANGED subJob
     ELSE SubExit(p)
  /\ UNCHANGED <<installed, subHeld, worker, broken, subCmds, subCrashes>>

\* Faulty: the failure is recorded for the revision that was to be published.
FoundOwn(p) == [status |-> "DEGRADED", revision |-> subJob[p].revision]

\* The record a failure is written into, and an empty one if there is none.
Found(p) == IF file.publication = NoFile THEN NoPublication ELSE file.publication

\* recordPublicationFailure reads the record ...
ReadRecord(p) ==
  /\ subPc[p] = "failed"
  /\ subJob' = [subJob EXCEPT ![p].found = Found(p)]
  /\ SubGoto(p, "degrade")
  /\ UNCHANGED <<installed, file, subHeld, worker, broken, subCount>>

\* ... and writes it back, whatever it says by now; errors are ignored.
RecordFailure(p) ==
  /\ subPc[p] = "degrade"
  /\ \/ /\ file' = [file EXCEPT !.publication = [subJob[p].found EXCEPT !.status = "DEGRADED"]]
        /\ UNCHANGED subFaults
     \/ SubFault /\ UNCHANGED file
  /\ SubExit(p)
  /\ UNCHANGED <<installed, subHeld, worker, broken, subCmds, subCrashes>>

-----------------------------------------------------------------------------
(* Changes elsewhere, kills.                                               *)

\* A change commits, or a restore puts an older state back.
Change ==
  /\ subLock = NoShell
  /\ installed' \in {installed + 1, installed - 1} \cap 1..MaxRevision
  /\ UNCHANGED <<file, subHeld, subPc, subJob, worker, broken, subCount>>

SubKill(p) ==
  /\ subPc[p] # "idle" /\ subCrashes < MaxSubCrash /\ subCrashes' = subCrashes + 1
  /\ broken' = (broken \/ subLock = p)
  /\ SubExit(p) /\ SubRelease(p)
  /\ UNCHANGED <<installed, file, worker, subCmds, subFaults>>

SubNext ==
  \/ \E p \in Shell :
       \/ Configure(p) \/ Remove(p) \/ Take(p) \/ TakeFails(p) \/ Done(p)
       \/ Publish(p) \/ Rollback(p) \/ Ask(p) \/ AskFails(p)
       \/ RecordOutcome(p) \/ RecordOutcomeFails(p) \/ ReadRecord(p) \/ RecordFailure(p)
       \/ SubKill(p)
  \/ Change

SubSpec == SubInit /\ [][SubNext]_subVars

-----------------------------------------------------------------------------
(* Properties.                                                             *)

\* Every variable has its type, and only the holder of the lock has files to
\* write.
SubTypeOK ==
  /\ installed \in Revision /\ file \in Files
  /\ subLock \in Shell \cup {NoShell} /\ subSnap \in Files
  /\ subLock = NoShell => subTodo = <<>>
  /\ subJob \in [Shell -> SubJob]
  /\ \A p \in Shell :
       /\ subPc[p] \in {"idle", "files", "back", "ask", "record", "failed", "degrade"}
       /\ subPc[p] \in {"files", "back"} <=> subLock = p
  /\ served \in Revision /\ accepted \subseteq Revision
  /\ broken \in BOOLEAN /\ subCmds \in Nat /\ subCrashes \in Nat /\ subFaults \in Nat

\* Whenever nobody configures or removes, the configuration and the secrets
\* are of one installation of credentials, and both are listed for removal, or
\* there are neither; unless a command was killed or failed to undo.
CredentialsPaired ==
  subLock = NoShell /\ ~broken =>
    file.config = file.secret /\ (file.listed <=> file.config # NoFile)

\* The revision publication.json names was accepted by the Worker: whatever is
\* lost, fails or is killed, and whoever else reads and writes the record, no
\* publication is recorded that was not made.
PublicationWasMade ==
  file.publication # NoFile /\ file.publication.revision # 0 =>
    file.publication.revision \in accepted
=============================================================================
