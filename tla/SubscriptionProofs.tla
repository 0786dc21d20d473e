-------------------------- MODULE SubscriptionProofs --------------------------
(***************************************************************************)
(* Proofs about Subscription, for any number of invocations, credentials   *)
(* and revisions, and any number of commands, kills and failures.          *)
(***************************************************************************)
EXTENDS Subscription, TLAPS, SequenceTheorems

\* What the file of each name may hold.
Kind(n) == IF n = "publication" THEN Publication \cup {NoFile}
           ELSE IF n = "listed" THEN BOOLEAN ELSE Credentials

FileStep == {step \in [name : Name, to : Credentials \cup Publication \cup BOOLEAN] :
              step.to \in Kind(step.name)}

\* Publications are recorded by others at any time, the rest by the holder of
\* the lock only.
Guarded == Name \ {"publication"}

\* Taking the steps todo from the files f leads to the files of target.
Leads(todo, f, target) ==
  /\ \A i \in DOMAIN todo :
       todo[i].name \in Guarded => todo[i].to = target[todo[i].name]
  /\ \A n \in Guarded : f[n] = target[n] \/ \E i \in DOMAIN todo : todo[i].name = n

Paired(f) == f.config = f.secret /\ (f.listed <=> f.config # NoFile)

Label == {"idle", "files", "back", "ask", "record", "failed", "degrade"}

\* The lock and its holder, the jobs, the files, and the rest.
Control ==
  /\ subPc \in [Shell -> Label] /\ subLock \in Shell \cup {NoShell}
  /\ \A p \in Shell : subPc[p] \in {"files", "back"} <=> subLock = p
  /\ subLock = NoShell => subTodo = <<>>
Jobs == subJob \in [Shell -> SubJob]
Filed == file \in Files /\ subSnap \in Files /\ subTodo \in Seq(FileStep)
Counted ==
  /\ installed \in Revision /\ served \in Revision /\ accepted \subseteq Revision
  /\ broken \in BOOLEAN /\ subCmds \in Nat /\ subCrashes \in Nat /\ subFaults \in Nat
Typed == Control /\ Jobs /\ Filed /\ Counted

\* A command that goes forward leads to paired credentials, one that goes back
\* to what it found, unless something was broken.
Pairing ==
  /\ \A p \in Shell :
       /\ subPc[p] = "files" =>
            \E target \in Files : Paired(target) /\ Leads(subTodo, file, target)
       /\ subPc[p] = "back" /\ ~broken => Leads(subTodo, file, subSnap)
  /\ ~broken => Paired(IF subLock = NoShell THEN file ELSE subSnap)

\* A record that names a publication names one that was accepted.
Made(x) == x # NoFile /\ x.revision # 0 => x.revision \in accepted

AllMade ==
  /\ Made(file.publication) /\ Made(subSnap.publication)
  /\ \A i \in DOMAIN subTodo : subTodo[i].name = "publication" => Made(subTodo[i].to)
  /\ \A p \in Shell : /\ Made(subJob[p].found)
                      /\ subPc[p] = "record" => subJob[p].revision \in accepted

-----------------------------------------------------------------------------
(* Types.                                                                  *)

\* A step sets the file it names and leaves the others.
LEMMA SetTyped ==
  ASSUME NEW f \in Files, NEW step \in FileStep
  PROVE  /\ [f EXCEPT ![step.name] = step.to] \in Files
         /\ \A n \in Name : [f EXCEPT ![step.name] = step.to][n] =
                              IF n = step.name THEN step.to ELSE f[n]
<1> DEFINE g == [f EXCEPT ![step.name] = step.to]
<1>1. /\ step.name \in Name /\ step.to \in Kind(step.name)
      /\ DOMAIN f = Name
      /\ f.config \in Credentials /\ f.secret \in Credentials
      /\ f.publication \in Publication \cup {NoFile} /\ f.listed \in BOOLEAN
  BY DEF FileStep, Files, Name
<1>2. g = [n \in Name |-> IF n = step.name THEN step.to ELSE f[n]]
  BY <1>1
<1>3. g.config \in Credentials /\ g.secret \in Credentials
      /\ g.publication \in Publication \cup {NoFile} /\ g.listed \in BOOLEAN
  BY <1>1, <1>2 DEF Kind, Name
<1>4. g = [config |-> g.config, secret |-> g.secret, publication |-> g.publication,
           listed |-> g.listed]
  BY <1>2 DEF Name
<1>5. g \in Files
  BY <1>3, <1>4 DEF Files
<1> QED
  BY <1>2, <1>5

\* Recording a publication leaves the credentials alone.
LEMMA PublicationSet ==
  ASSUME NEW f \in Files, NEW x \in Publication
  PROVE  /\ [f EXCEPT !.publication = x] \in Files
         /\ [f EXCEPT !.publication = x].publication = x
         /\ \A n \in Guarded : [f EXCEPT !.publication = x][n] = f[n]
<1> DEFINE step == Set("publication", x)
<1>1. step \in FileStep /\ step.name = "publication" /\ step.to = x
  BY DEF Set, FileStep, Kind, Name
<1> HIDE DEF step
<1>2. [f EXCEPT ![step.name] = step.to] = [f EXCEPT !.publication = x]
  BY <1>1
<1>3. \A n \in Name : [f EXCEPT ![step.name] = step.to][n] =
                       IF n = step.name THEN step.to ELSE f[n]
  BY <1>1, SetTyped
<1>4. /\ [f EXCEPT ![step.name] = step.to].publication = x
      /\ \A n \in Guarded : [f EXCEPT ![step.name] = step.to][n] = f[n]
  BY <1>1, <1>3 DEF Guarded, Name
<1> QED
  BY <1>1, <1>2, <1>4, SetTyped

\* The first step, and those that follow it.
LEMMA TailSteps ==
  ASSUME NEW todo \in Seq(FileStep), todo # <<>>
  PROVE  /\ Head(todo) \in FileStep /\ Tail(todo) \in Seq(FileStep)
         /\ \A i \in DOMAIN Tail(todo) : i + 1 \in DOMAIN todo
              /\ Tail(todo)[i] = todo[i + 1]
         /\ \A i \in DOMAIN todo : \/ todo[i] = Head(todo)
                                   \/ i - 1 \in DOMAIN Tail(todo)
                                     /\ Tail(todo)[i - 1] = todo[i]
         /\ 1 \in DOMAIN todo /\ Head(todo) = todo[1]
  BY HeadTailProperties, LenProperties, EmptySeq

\* The parts of a step.
LEMMA SetFields == \A n, v : Set(n, v).name = n /\ Set(n, v).to = v
  BY DEF Set

\* Four steps are a sequence of steps.
LEMMA FourSteps ==
  ASSUME NEW s1 \in FileStep, NEW s2 \in FileStep, NEW s3 \in FileStep,
  NEW s4 \in FileStep
  PROVE  <<s1, s2, s3, s4>> \in Seq(FileStep)
  OBVIOUS

\* What configure does, over whatever it finds, leads to paired credentials.
LEMMA ConfiguringLeads ==
  ASSUME NEW f \in Files, NEW c \in Credential
  PROVE  /\ Configuring(c) \in Seq(FileStep)
         /\ \E target \in Files : Paired(target) /\ Leads(Configuring(c), f, target)
         /\ \A i \in DOMAIN Configuring(c) : Configuring(c)[i].name = "publication" =>
                                              Configuring(c)[i].to.revision = 0
<1> DEFINE fresh == [status |-> "CONFIGURED", revision |-> 0]
           target == [config |-> c, secret |-> c, publication |-> fresh,
           listed |-> TRUE]
<1>1. fresh \in Publication
  BY SubscriptionAssumption DEF Publication, PublicationStatus, Revision
<1>2. target \in Files /\ Paired(target)
  BY <1>1, SubscriptionAssumption DEF Files, Credentials, Paired
<1>3. /\ Set("secret", c) \in FileStep /\ Set("config", c) \in FileStep
      /\ Set("publication", fresh) \in FileStep /\ Set("listed", TRUE) \in FileStep
  BY <1>1 DEF Set, FileStep, Kind, Name, Credentials
<1>4. DOMAIN Configuring(c) = 1..4
  BY DEF Configuring
<1>5. /\ Configuring(c)[1] = Set("secret", c) /\ Configuring(c)[2] = Set("config", c)
      /\ Configuring(c)[3] = Set("publication", fresh)
           /\ Configuring(c)[4] = Set("listed", TRUE)
  BY DEF Configuring
<1>6. Configuring(c) \in Seq(FileStep)
  BY <1>3, FourSteps DEF Configuring
<1>7. Leads(Configuring(c), f, target)
  <2>1. \A i \in 1..4 : Configuring(c)[i].name \in Guarded =>
                       Configuring(c)[i].to = target[Configuring(c)[i].name]
    <3>1. /\ target["secret"] = c /\ target["config"] = c /\ target["listed"] = TRUE
          /\ "publication" \notin Guarded
      BY DEF Guarded
    <3>2. \A i \in 1..4 : i = 1 \/ i = 2 \/ i = 3 \/ i = 4
      OBVIOUS
    <3> HIDE DEF target
    <3> QED
      <4>1. /\ Configuring(c)[1].name = "secret" /\ Configuring(c)[1].to = c
        BY <1>5, SetFields
      <4>2. /\ Configuring(c)[2].name = "config" /\ Configuring(c)[2].to = c
        BY <1>5, SetFields
      <4>3. /\ Configuring(c)[3].name = "publication"
        BY <1>5, SetFields
      <4>4. Configuring(c)[4].name = "listed"
        BY <1>5, SetFields
      <4>5. Configuring(c)[4].to = TRUE
        BY <1>5, SetFields
      <4>6. Configuring(c)[4].to = target["listed"]
        BY <4>5, <3>1
      <4> QED
        BY <4>1, <4>2, <4>3, <4>4, <4>6, <3>1, <3>2
  <2>2. \A n \in Guarded : \E i \in 1..4 : Configuring(c)[i].name = n
    BY <1>5 DEF Set, Guarded, Name
  <2> QED
    BY <1>4, <2>1, <2>2 DEF Leads
<1>8. \A i \in DOMAIN Configuring(c) : Configuring(c)[i].name = "publication" =>
                                      Configuring(c)[i].to.revision = 0
  BY <1>4, <1>5 DEF Set
<1> QED
  BY <1>2, <1>6, <1>7, <1>8

\* So does what remove does.
LEMMA RemovingLeads ==
  ASSUME NEW f \in Files
  PROVE  /\ Removing \in Seq(FileStep)
         /\ \E target \in Files : Paired(target) /\ Leads(Removing, f, target)
         /\ \A i \in DOMAIN Removing : Removing[i].name = "publication" =>
                                       Removing[i].to = NoFile
<1>1. Nothing \in Files /\ Paired(Nothing)
  BY DEF Nothing, Files, Credentials, Paired
<1>2. /\ Set("listed", FALSE) \in FileStep /\ Set("secret", NoFile) \in FileStep
      /\ Set("publication", NoFile) \in FileStep /\ Set("config", NoFile) \in FileStep
  BY DEF Set, FileStep, Kind, Name, Credentials
<1>3. Removing \in Seq(FileStep)
  BY <1>2, FourSteps DEF Removing
<1>4. /\ DOMAIN Removing = 1..4
      /\ Removing[1] = Set("listed", FALSE) /\ Removing[2] = Set("secret", NoFile)
      /\ Removing[3] = Set("publication", NoFile) /\ Removing[4] = Set("config", NoFile)
  BY DEF Removing
<1>5. Leads(Removing, f, Nothing)
  <2>1. \A i \in 1..4 : Removing[i].name \in Guarded =>
                       Removing[i].to = Nothing[Removing[i].name]
    <3>1. /\ Nothing["secret"] = NoFile /\ Nothing["config"] = NoFile
               /\ Nothing["listed"] = FALSE
          /\ "publication" \notin Guarded
      BY DEF Guarded, Nothing
    <3>2. \A i \in 1..4 : i = 1 \/ i = 2 \/ i = 3 \/ i = 4
      OBVIOUS
    <3> QED
      <4>1. Removing[1].name = "listed"
        BY <1>4, SetFields
      <4>2. Set("listed", FALSE).to = FALSE
        BY SetFields, Zenon
      <4>3. Removing[1].to = Nothing["listed"]
        BY <4>2, <1>4, <3>1, Zenon
      <4>4. /\ Removing[2].name = "secret" /\ Removing[2].to = NoFile
            /\ Removing[3].name = "publication"
            /\ Removing[4].name = "config" /\ Removing[4].to = NoFile
        BY <1>4, SetFields
      <4> QED
        BY <4>1, <4>3, <4>4, <3>1, <3>2
  <2>2. \A n \in Guarded : \E i \in 1..4 : Removing[i].name = n
    BY <1>4 DEF Set, Guarded, Name
  <2> QED
    BY <1>4, <2>1, <2>2 DEF Leads
<1>6. \A i \in DOMAIN Removing : Removing[i].name = "publication"
        => Removing[i].to = NoFile
  BY <1>4 DEF Set
<1> QED
  BY <1>1, <1>3, <1>5, <1>6

\* The undo leads to the files that were found.
LEMMA UndoingLeads ==
  ASSUME NEW cmd, NEW f \in Files, subSnap \in Files
  PROVE  /\ Undoing(cmd) \in Seq(FileStep)
         /\ Leads(Undoing(cmd), f, subSnap)
         /\ \A i \in DOMAIN Undoing(cmd) : Undoing(cmd)[i].name = "publication" =>
                                            Undoing(cmd)[i].to = subSnap.publication
<1> DEFINE order == IF cmd = "configure" THEN <<"listed", "publication", "secret",
  "config">>
                    ELSE <<"listed", "config", "publication", "secret">>
<1>1. Undoing(cmd) = [i \in 1..4 |-> Set(order[i], subSnap[order[i]])]
  BY DEF Undoing
<1>2. /\ order[1] = "listed" /\ order[2] \in {"publication", "config"}
      /\ order[3] \in {"secret", "publication"} /\ order[4] \in {"config", "secret"}
      /\ \E i \in 1..4 : order[i] = "secret"
      /\ \E i \in 1..4 : order[i] = "config"
      /\ \A i \in 1..4 : order[i] \in Name
  <2>1. CASE cmd = "configure"
    BY <2>1 DEF Name
  <2>2. CASE cmd # "configure"
    BY <2>2 DEF Name
  <2> QED
    BY <2>1, <2>2
<1> HIDE DEF order
<1>3. ASSUME NEW n \in Name
      PROVE  Set(n, subSnap[n]) \in FileStep
  <2>1. subSnap[n] \in Kind(n)
    BY DEF Name, Files, Kind
  <2>2. subSnap[n] \in Credentials \cup Publication \cup BOOLEAN
    BY <2>1, SubscriptionAssumption DEF Kind, Credentials, Files, Name
  <2> QED
    BY <2>1, <2>2 DEF Set, FileStep
<1>4. Undoing(cmd) \in [1..4 -> FileStep]
  BY <1>1, <1>2, <1>3
<1>5. Undoing(cmd) \in Seq(FileStep)
  BY <1>4, SeqDef
<1>6. \A i \in 1..4 : /\ Undoing(cmd)[i].name = order[i]
                      /\ Undoing(cmd)[i].to = subSnap[order[i]]
  BY <1>1 DEF Set
<1>7. DOMAIN Undoing(cmd) = 1..4
  BY <1>1
<1>8. Leads(Undoing(cmd), f, subSnap)
  BY <1>2, <1>6, <1>7 DEF Leads, Guarded, Name
<1> QED
  BY <1>5, <1>6, <1>7, <1>8

\* A step that is taken keeps the rest on its way.
LEMMA TakingLeads ==
  ASSUME NEW f \in Files, NEW target, NEW todo \in Seq(FileStep), todo # <<>>,
         Leads(todo, f, target)
  PROVE  Leads(Tail(todo), [f EXCEPT ![Head(todo).name] = Head(todo).to], target)
<1> DEFINE g == [f EXCEPT ![Head(todo).name] = Head(todo).to]
<1>1. \A n \in Name : g[n] = IF n = Head(todo).name THEN Head(todo).to ELSE f[n]
  BY TailSteps, SetTyped
<1> HIDE DEF g
<1>2. \A i \in DOMAIN Tail(todo) : Tail(todo)[i].name \in Guarded =>
                                 Tail(todo)[i].to = target[Tail(todo)[i].name]
  BY TailSteps DEF Leads
<1>3. ASSUME NEW n \in Guarded
      PROVE  g[n] = target[n] \/ \E i \in DOMAIN Tail(todo) : Tail(todo)[i].name = n
  <2>1. CASE n = Head(todo).name
    BY <1>1, <2>1, TailSteps DEF Leads, Guarded
  <2>2. CASE n # Head(todo).name
    <3>1. CASE f[n] = target[n]
      BY <1>1, <2>2, <3>1 DEF Guarded
    <3>2. CASE \E i \in DOMAIN todo : todo[i].name = n
      <4>1. PICK i \in DOMAIN todo : todo[i].name = n
        BY <3>2
      <4>2. i - 1 \in DOMAIN Tail(todo) /\ Tail(todo)[i - 1] = todo[i]
        BY <4>1, <2>2, TailSteps
      <4> QED
        BY <4>1, <4>2
    <3> QED
      BY <3>1, <3>2 DEF Leads
  <2> QED
    BY <2>1, <2>2
<1>4. QED
  BY <1>2, <1>3 DEF Leads, g
-----------------------------------------------------------------------------
(* Types: one part of the invariant at a time.                             *)

\* At most one invocation writes files, the holder of the lock.
LEMMA ControlKept == Typed /\ [SubNext]_subVars => Control'
<1> SUFFICES ASSUME Typed, [SubNext]_subVars PROVE Control'
  OBVIOUS
<1> USE SubscriptionAssumption DEF Typed, Control, Label, SubCommand, SubGoto, SubExit,
        SubRelease, subHeld, subCount, worker, Lock
<1>1. ASSUME NEW p \in Shell, Configure(p) \/ Remove(p) PROVE Control'
  BY <1>1 DEF Configure, Remove
<1>2. ASSUME NEW p \in Shell, Take(p) PROVE Control'
  BY <1>2 DEF Take
<1>3. ASSUME NEW p \in Shell, TakeFails(p) PROVE Control'
  BY <1>3 DEF TakeFails
<1>4. ASSUME NEW p \in Shell, Done(p) \/ SubKill(p) PROVE Control'
  BY <1>4 DEF Done, SubKill
<1>5. ASSUME NEW p \in Shell, Publish(p) \/ Rollback(p) \/ Ask(p) \/ AskFails(p)
      PROVE Control'
  BY <1>5 DEF Publish, Rollback, Ask, AskFails
<1>6. ASSUME NEW p \in Shell, RecordOutcome(p) \/ RecordOutcomeFails(p)
             \/ ReadRecord(p) \/ RecordFailure(p) PROVE Control'
  BY <1>6 DEF RecordOutcome, RecordOutcomeFails, ReadRecord, RecordFailure
<1>7. CASE Change
  BY <1>7 DEF Change
<1>8. CASE UNCHANGED subVars
  BY <1>8 DEF subVars
<1> QED
  BY <1>1, <1>2, <1>3, <1>4, <1>5, <1>6, <1>7, <1>8 DEF SubNext

\* What each invocation remembers has its type.
LEMMA JobsKept == Typed /\ [SubNext]_subVars => Jobs'
<1> SUFFICES ASSUME Typed, [SubNext]_subVars PROVE Jobs'
  OBVIOUS
<1> USE SubscriptionAssumption DEF Typed, Jobs, SubJob, SubGoto, SubExit, SubRelease,
        subHeld, subCount, worker, Lock
<1>a. NoPublication \in Publication /\ NoSubJob \in SubJob
  BY DEF Publication, PublicationStatus, NoPublication, NoSubJob, Revision
<1>1. ASSUME NEW p \in Shell, Configure(p) \/ Remove(p) PROVE Jobs'
  BY <1>1 DEF Configure, Remove
<1>2. ASSUME NEW p \in Shell, Take(p) \/ TakeFails(p) \/ Ask(p) \/ AskFails(p)
      PROVE Jobs'
  BY <1>2 DEF Take, TakeFails, Ask, AskFails
<1>3. ASSUME NEW p \in Shell, Publish(p) \/ Rollback(p) PROVE Jobs'
  BY <1>3 DEF Publish, Rollback, Counted
<1>4. ASSUME NEW p \in Shell, Done(p) \/ SubKill(p) \/ RecordOutcome(p)
             \/ RecordOutcomeFails(p) \/ RecordFailure(p) PROVE Jobs'
  BY <1>4, <1>a DEF Done, SubKill, RecordOutcome, RecordOutcomeFails, RecordFailure
<1>5. ASSUME NEW p \in Shell, ReadRecord(p) PROVE Jobs'
  BY <1>5, <1>a DEF ReadRecord, Found, Filed, Files
<1>6. CASE Change
  BY <1>6 DEF Change
<1>7. CASE UNCHANGED subVars
  BY <1>7 DEF subVars
<1> QED
  BY <1>1, <1>2, <1>3, <1>4, <1>5, <1>6, <1>7 DEF SubNext

\* The files and the steps left have their types.
LEMMA FiledKept == Typed /\ [SubNext]_subVars => Filed'
<1> SUFFICES ASSUME Typed, [SubNext]_subVars PROVE Filed'
  OBVIOUS
<1> USE SubscriptionAssumption DEF Typed, Filed, SubRelease, subHeld, subCount, worker,
        Lock
<1>a. Nothing \in Files
  BY DEF Nothing, Files, Credentials
<1>1. ASSUME NEW p \in Shell, Configure(p) \/ Remove(p) PROVE Filed'
  BY <1>1, ConfiguringLeads, RemovingLeads DEF Configure, Remove
<1>2. ASSUME NEW p \in Shell, Take(p) PROVE Filed'
  BY <1>2, TailSteps, SetTyped DEF Take, Written1
<1>3. ASSUME NEW p \in Shell, TakeFails(p) PROVE Filed'
  <2>1. Head(subTodo) \in FileStep /\ Tail(subTodo) \in Seq(FileStep)
    BY <1>3, TailSteps DEF TakeFails
  <2>2. file' \in Files
    <3>1. Written1(Head(subTodo)) \in Files
      BY <2>1, SetTyped DEF Written1
    <3> QED
      BY <1>3, <3>1 DEF TakeFails
  <2>3. subTodo' \in Seq(FileStep)
    BY <1>3, <2>1, UndoingLeads DEF TakeFails
  <2> QED
    BY <1>3, <2>2, <2>3 DEF TakeFails
<1>4. ASSUME NEW p \in Shell, Done(p) \/ SubKill(p) PROVE Filed'
  BY <1>4, EmptySeq, <1>a DEF Done, SubKill
<1>5. ASSUME NEW p \in Shell, Publish(p) \/ Rollback(p) \/ Ask(p) \/ AskFails(p)
             \/ ReadRecord(p) PROVE Filed'
  BY <1>5 DEF Publish, Rollback, Ask, AskFails, ReadRecord
<1>6. ASSUME NEW p \in Shell, RecordOutcome(p) \/ RecordOutcomeFails(p) PROVE Filed'
  <2>1. Outcome(p) \in Publication
    BY DEF Outcome, Publication, PublicationStatus, Jobs, SubJob
  <2> QED
    BY <1>6, <2>1, PublicationSet DEF RecordOutcome, RecordOutcomeFails
<1>7. ASSUME NEW p \in Shell, RecordFailure(p) PROVE Filed'
  <2>1. [subJob[p].found EXCEPT !.status = "DEGRADED"] \in Publication
    BY DEF Publication, PublicationStatus, Jobs, SubJob
  <2> QED
    BY <1>7, <2>1, PublicationSet DEF RecordFailure
<1>8. CASE Change
  BY <1>8 DEF Change
<1>9. CASE UNCHANGED subVars
  BY <1>9 DEF subVars
<1> QED
  BY <1>1, <1>2, <1>3, <1>4, <1>5, <1>6, <1>7, <1>8, <1>9 DEF SubNext

\* So has the rest.
LEMMA CountedKept == Typed /\ [SubNext]_subVars => Counted'
<1> SUFFICES ASSUME Typed, [SubNext]_subVars PROVE Counted'
  OBVIOUS
<1> USE SubscriptionAssumption DEF Typed, Counted, SubCommand, SubFault, subCount,
        worker, Lock, Accepted
<1>1. ASSUME NEW p \in Shell, Configure(p) \/ Remove(p) PROVE Counted'
  BY <1>1 DEF Configure, Remove
<1>2. ASSUME NEW p \in Shell, Take(p) \/ Done(p) PROVE Counted'
  BY <1>2 DEF Take, Done
<1>3. ASSUME NEW p \in Shell, TakeFails(p) PROVE Counted'
  <2>1. broken' \in BOOLEAN
    BY <1>3 DEF TakeFails
  <2>2. subFaults' \in Nat
    BY <1>3 DEF TakeFails
  <2> QED
    BY <1>3, <2>1, <2>2 DEF TakeFails
<1>4. ASSUME NEW p \in Shell, Publish(p) \/ Rollback(p) PROVE Counted'
  BY <1>4 DEF Publish, Rollback
<1>5. ASSUME NEW p \in Shell, Ask(p) \/ AskFails(p) PROVE Counted'
  BY <1>5 DEF Ask, AskFails, Jobs, SubJob
<1>6. ASSUME NEW p \in Shell, RecordOutcome(p) \/ RecordOutcomeFails(p)
             \/ ReadRecord(p) \/ RecordFailure(p) PROVE Counted'
  BY <1>6 DEF RecordOutcome, RecordOutcomeFails, ReadRecord, RecordFailure
<1>7. ASSUME NEW p \in Shell, SubKill(p) PROVE Counted'
  BY <1>7 DEF SubKill
<1>8. CASE Change
  BY <1>8 DEF Change, Revision
<1>9. CASE UNCHANGED subVars
  BY <1>9 DEF subVars
<1> QED
  BY <1>1, <1>2, <1>3, <1>4, <1>5, <1>6, <1>7, <1>8, <1>9 DEF SubNext

\* All of them together.
LEMMA TypedKept == Typed /\ [SubNext]_subVars => Typed'
  BY ControlKept, JobsKept, FiledKept, CountedKept DEF Typed

-----------------------------------------------------------------------------
(* Credentials.                                                            *)

\* Pairing and heading depend on the credentials only.
LEMMA SameCredentials ==
  ASSUME NEW f \in Files, NEW g \in Files, \A n \in Guarded : f[n] = g[n]
  PROVE  /\ Paired(f) <=> Paired(g)
         /\ \A todo, target : Leads(todo, f, target) <=> Leads(todo, g, target)
<1>1. f.config = g.config /\ f.secret = g.secret /\ f.listed = g.listed
  BY DEF Guarded, Name
<1>2. Paired(f) <=> Paired(g)
  BY <1>1 DEF Paired
<1>3. \A todo, target : Leads(todo, f, target) <=> Leads(todo, g, target)
  BY DEF Leads
<1> QED
  BY <1>2, <1>3

\* With no step left the files are those the steps lead to.
LEMMA NothingLeft ==
  ASSUME NEW f \in Files, NEW target \in Files, Leads(<<>>, f, target)
  PROVE  Paired(f) <=> Paired(target)
<1>1. DOMAIN <<>> = {}
  BY EmptySeq, LenProperties
<1>2. \A n \in Guarded : f[n] = target[n]
  BY <1>1 DEF Leads
<1> QED
  BY <1>2, SameCredentials

\* Every action keeps the credentials paired, or on their way to it.
LEMMA PairingKept == Typed /\ Pairing /\ [SubNext]_subVars => Pairing'
<1> SUFFICES ASSUME Typed, Pairing, [SubNext]_subVars PROVE Pairing'
  OBVIOUS
<1> USE SubscriptionAssumption DEF Typed, Control, Label, Pairing, SubGoto, SubExit,
        SubRelease, SubCommand, subHeld, subCount, worker
<1>1. ASSUME NEW p \in Shell, Configure(p) \/ Remove(p) PROVE Pairing'
  <2>1. /\ subLock = NoShell /\ subLock' = p /\ subSnap' = file
        /\ file' = file /\ broken' = broken /\ subPc' = [subPc EXCEPT ![p] = "files"]
    BY <1>1 DEF Configure, Remove, Lock
  <2>2. \E target \in Files : Paired(target) /\ Leads(subTodo', file, target)
    BY <1>1, ConfiguringLeads, RemovingLeads DEF Configure, Remove, Lock, Filed
  <2> QED
    BY <2>1, <2>2
<1>2. ASSUME NEW p \in Shell, Take(p) PROVE Pairing'
  <2>1. /\ subTodo # <<>> /\ subTodo' = Tail(subTodo)
        /\ file' = [file EXCEPT ![Head(subTodo).name] = Head(subTodo).to]
        /\ UNCHANGED <<subLock, subSnap, subPc, broken>> /\ subLock = p
    BY <1>2 DEF Take, Written1
  <2>2. \A target : Leads(subTodo, file, target) => Leads(subTodo', file', target)
    BY <2>1, TakingLeads DEF Filed
  <2> QED
    BY <2>1, <2>2
<1>3. ASSUME NEW p \in Shell, TakeFails(p) PROVE Pairing'
  <2>1. /\ subLock = p /\ UNCHANGED <<subLock, subSnap>>
    BY <1>3 DEF TakeFails
  <2>2. CASE subPc[p] = "files"
    <3>1. /\ subTodo' = Undoing(subJob[p].cmd) /\ UNCHANGED broken
          /\ subPc' = [subPc EXCEPT ![p] = "back"]
      BY <1>3, <2>2 DEF TakeFails
    <3>2. Leads(subTodo', file', subSnap)
      BY <3>1, FiledKept, UndoingLeads DEF Filed
    <3> QED
      BY <2>1, <3>1, <3>2
  <2>3. CASE subPc[p] = "back"
    <3>1. broken' = TRUE /\ UNCHANGED subPc
      BY <1>3, <2>3 DEF TakeFails
    <3> QED
      BY <2>1, <2>3, <3>1
  <2> QED
    BY <1>3, <2>2, <2>3 DEF TakeFails
<1>4. ASSUME NEW p \in Shell, Done(p) PROVE Pairing'
  <2>1. /\ subLock = p /\ subLock' = NoShell /\ subTodo = <<>>
        /\ UNCHANGED <<file, broken>> /\ subPc' = [subPc EXCEPT ![p] = "idle"]
    BY <1>4 DEF Done
  <2>2. ~broken => Paired(file)
    <3>1. CASE subPc[p] = "files"
      BY <2>1, <3>1, NothingLeft DEF Filed
    <3>2. CASE subPc[p] = "back"
      BY <2>1, <3>2, NothingLeft DEF Filed
    <3> QED
      BY <1>4, <3>1, <3>2 DEF Done
  <2> QED
    BY <2>1, <2>2
<1>5. ASSUME NEW p \in Shell, Publish(p) \/ Rollback(p) PROVE Pairing'
  BY <1>5 DEF Publish, Rollback
<1>6. ASSUME NEW p \in Shell, Ask(p) \/ AskFails(p) PROVE Pairing'
  BY <1>6 DEF Ask, AskFails
<1>7. ASSUME NEW p \in Shell, ReadRecord(p) PROVE Pairing'
  BY <1>7 DEF ReadRecord
<1>8. ASSUME NEW p \in Shell, RecordOutcome(p) PROVE Pairing'
  <2>1. file' \in Files /\ file \in Files
    BY FiledKept DEF Filed
  <2>2. \A n \in Guarded : file'[n] = file[n]
    <3>1. \A x : x \in Publication
            => \A n \in Guarded : [file EXCEPT !.publication = x][n] = file[n]
      BY <2>1, PublicationSet
    <3>2. /\ Outcome(p) \in Publication
          /\ [subJob[p].found EXCEPT !.status = "DEGRADED"] \in Publication
      BY DEF Outcome, Publication, PublicationStatus, Jobs, SubJob
    <3> QED
      BY <1>8, <3>1, <3>2 DEF RecordOutcome
  <2>3. \A q \in Shell : subPc'[q] \in {"files", "back"} => subPc'[q] = subPc[q]
    BY <1>8 DEF RecordOutcome
  <2> QED
    BY <1>8, <2>1, <2>2, <2>3, SameCredentials DEF RecordOutcome
<1>9. ASSUME NEW p \in Shell, RecordOutcomeFails(p) PROVE Pairing'
  <2>1. file' \in Files /\ file \in Files
    BY FiledKept DEF Filed
  <2>2. \A n \in Guarded : file'[n] = file[n]
    <3>1. \A x : x \in Publication
            => \A n \in Guarded : [file EXCEPT !.publication = x][n] = file[n]
      BY <2>1, PublicationSet
    <3>2. /\ Outcome(p) \in Publication
          /\ [subJob[p].found EXCEPT !.status = "DEGRADED"] \in Publication
      BY DEF Outcome, Publication, PublicationStatus, Jobs, SubJob
    <3> QED
      BY <1>9, <3>1, <3>2 DEF RecordOutcomeFails
  <2>3. \A q \in Shell : subPc'[q] \in {"files", "back"} => subPc'[q] = subPc[q]
    BY <1>9 DEF RecordOutcomeFails
  <2> QED
    BY <1>9, <2>1, <2>2, <2>3, SameCredentials DEF RecordOutcomeFails
<1>10. ASSUME NEW p \in Shell, RecordFailure(p) PROVE Pairing'
  <2>1. file' \in Files /\ file \in Files
    BY FiledKept DEF Filed
  <2>2. \A n \in Guarded : file'[n] = file[n]
    <3>1. \A x : x \in Publication
            => \A n \in Guarded : [file EXCEPT !.publication = x][n] = file[n]
      BY <2>1, PublicationSet
    <3>2. /\ Outcome(p) \in Publication
          /\ [subJob[p].found EXCEPT !.status = "DEGRADED"] \in Publication
      BY DEF Outcome, Publication, PublicationStatus, Jobs, SubJob
    <3> QED
      BY <1>10, <3>1, <3>2 DEF RecordFailure
  <2>3. \A q \in Shell : subPc'[q] \in {"files", "back"} => subPc'[q] = subPc[q]
    BY <1>10 DEF RecordFailure
  <2> QED
    BY <1>10, <2>1, <2>2, <2>3, SameCredentials DEF RecordFailure
<1>11. ASSUME NEW p \in Shell, SubKill(p) PROVE Pairing'
  <2>1. CASE subLock = p
    BY <1>11, <2>1 DEF SubKill
  <2>2. CASE subLock # p
    BY <1>11, <2>2 DEF SubKill
  <2> QED
    BY <2>1, <2>2
<1>12. CASE Change
  BY <1>12 DEF Change
<1>13. CASE UNCHANGED subVars
  BY <1>13 DEF subVars
<1> QED
  BY <1>1, <1>2, <1>3, <1>4, <1>5, <1>6, <1>7, <1>8, <1>9, <1>10, <1>11, <1>12,
     <1>13 DEF SubNext

-----------------------------------------------------------------------------
(* Publications.                                                           *)

\* A step that is taken records no publication that was not made.
LEMMA TakenIsMade ==
  ASSUME Typed, AllMade, subTodo # <<>>
  PROVE  Made(Written1(Head(subTodo)).publication)
<1> DEFINE step == Head(subTodo)
<1>1. step \in FileStep /\ 1 \in DOMAIN subTodo /\ step = subTodo[1]
  BY TailSteps DEF Typed, Filed
<1> HIDE DEF step
<1>2. \A n \in Name : Written1(step)[n] = IF n = step.name THEN step.to ELSE file[n]
  BY <1>1, SetTyped DEF Written1, Typed, Filed
<1>3. Written1(step).publication = IF step.name = "publication" THEN step.to
                                   ELSE file.publication
  BY <1>2 DEF Name
<1>4. Made(Written1(step).publication)
  BY <1>1, <1>3 DEF AllMade
<1> QED
  BY <1>4 DEF step

\* No action records, or is about to record, one that was not made.
LEMMA MadeKept == Typed /\ AllMade /\ [SubNext]_subVars => AllMade'
<1> SUFFICES ASSUME Typed, AllMade, [SubNext]_subVars PROVE AllMade'
  OBVIOUS
<1> USE SubscriptionAssumption DEF AllMade, Made, SubGoto, SubExit, SubRelease,
        SubCommand, subHeld, subCount, worker
<1>a. NoSubJob.found.revision = 0 /\ Nothing.publication = NoFile
  BY DEF NoSubJob, NoPublication, Nothing
<1>b. DOMAIN <<>> = {}
  BY EmptySeq, LenProperties
<1>1. ASSUME NEW p \in Shell, Configure(p) PROVE AllMade'
  <2>1. PICK c \in Credential : Lock(p, "configure", Configuring(c))
    BY <1>1 DEF Configure
  <2>2. \A i \in DOMAIN subTodo' : subTodo'[i].name = "publication"
          => subTodo'[i].to.revision = 0
    <3>1. subTodo' = Configuring(c)
      BY <2>1 DEF Lock
    <3> QED
      BY <3>1, ConfiguringLeads DEF Typed, Filed
  <2>3. /\ subSnap' = file /\ UNCHANGED <<file, accepted>>
        /\ \A q \in Shell : /\ subPc'[q] = "record" => subPc[q] = "record"
                            /\ subJob'[q].found = subJob[q].found
                            /\ subJob'[q].revision = subJob[q].revision
    BY <2>1 DEF Lock, Typed, Control, Jobs, SubJob
  <2> QED
    BY <2>2, <2>3
<1>2. ASSUME NEW p \in Shell, Remove(p) PROVE AllMade'
  <2>1. \A i \in DOMAIN subTodo' : subTodo'[i].name = "publication"
          => subTodo'[i].to = NoFile
    BY <1>2, RemovingLeads DEF Remove, Lock, Typed, Filed
  <2>2. /\ subSnap' = file /\ UNCHANGED <<file, accepted>>
        /\ \A q \in Shell : /\ subPc'[q] = "record" => subPc[q] = "record"
                            /\ subJob'[q].found = subJob[q].found
                            /\ subJob'[q].revision = subJob[q].revision
    BY <1>2 DEF Remove, Lock, Typed, Control, Jobs, SubJob
  <2> QED
    BY <2>1, <2>2
<1>3. ASSUME NEW p \in Shell, Take(p) PROVE AllMade'
  <2>1. /\ subTodo # <<>> /\ subTodo' = Tail(subTodo) /\ file' = Written1(Head(subTodo))
        /\ UNCHANGED <<subSnap, subPc, subJob, accepted>>
    BY <1>3 DEF Take
  <2>2. Made(file'.publication)
    BY <2>1, TakenIsMade DEF Typed
  <2>3. \A i \in DOMAIN subTodo' : subTodo'[i].name = "publication"
          => Made(subTodo'[i].to)
    BY <2>1, TailSteps DEF Typed, Filed
  <2> QED
    BY <2>1, <2>2, <2>3
<1>4. ASSUME NEW p \in Shell, TakeFails(p) PROVE AllMade'
  <2>1. /\ subTodo # <<>> /\ file' \in {file, Written1(Head(subTodo))}
        /\ UNCHANGED <<subSnap, subJob, accepted>>
        /\ \A q \in Shell : subPc'[q] = "record" => subPc[q] = "record"
    BY <1>4 DEF TakeFails, Typed, Control
  <2>2. Made(file'.publication)
    BY <2>1, TakenIsMade DEF Typed
  <2>3. \A i \in DOMAIN subTodo' : subTodo'[i].name = "publication"
          => Made(subTodo'[i].to)
    <3>1. CASE subTodo' = Undoing(subJob[p].cmd)
      BY <3>1, UndoingLeads DEF Typed, Filed
    <3>2. CASE subTodo' = Tail(subTodo)
      BY <2>1, <3>2, TailSteps DEF Typed, Filed
    <3> QED
      BY <1>4, <3>1, <3>2 DEF TakeFails
  <2> QED
    BY <2>1, <2>2, <2>3
<1>5. ASSUME NEW p \in Shell, Done(p) PROVE AllMade'
  <2>1. \A q \in Shell : /\ subPc'[q] = "record" => subPc[q] = "record"
                         /\ \/ subJob'[q] = subJob[q]
                            \/ subJob'[q] = NoSubJob /\ subPc'[q] = "idle"
    BY <1>5 DEF Done, Typed, Control, Jobs
  <2>2. subSnap' \in {subSnap, Nothing} /\ subTodo' = <<>> /\ UNCHANGED <<file,
          accepted>>
    BY <1>5 DEF Done
  <2> QED
    BY <2>1, <2>2, <1>a, <1>b
<1>6. ASSUME NEW p \in Shell, Publish(p) \/ Rollback(p) PROVE AllMade'
  <2>1. \A q \in Shell : /\ subPc'[q] = "record" => subPc[q] = "record"
                           /\ subJob'[q] = subJob[q]
                         /\ subJob'[q].found = subJob[q].found
    BY <1>6 DEF Publish, Rollback, Typed, Control, Jobs, SubJob
  <2> QED
    BY <1>6, <2>1 DEF Publish, Rollback
<1>7. ASSUME NEW p \in Shell, Ask(p) \/ AskFails(p) PROVE AllMade'
  <2>1. accepted \subseteq accepted' /\ UNCHANGED <<file, subSnap, subTodo, subJob>>
    BY <1>7 DEF Ask, AskFails, Accepted
  <2>2. \A q \in Shell : subPc'[q] = "record" => subJob[q].revision \in accepted'
    BY <1>7, <2>1 DEF Ask, AskFails, Accepted, Typed, Control
  <2> QED
    BY <2>1, <2>2
<1>8. ASSUME NEW p \in Shell, RecordOutcome(p) \/ RecordOutcomeFails(p) PROVE AllMade'
  <2>1. subJob[p].revision \in accepted /\ Outcome(p).revision = subJob[p].revision
    BY <1>8 DEF RecordOutcome, RecordOutcomeFails, Outcome
  <2>2. Outcome(p) \in Publication
    BY DEF Outcome, Publication, PublicationStatus, Typed, Jobs, SubJob
  <2>3. file'.publication \in {file.publication, Outcome(p)}
    <3>1. [file EXCEPT !.publication = Outcome(p)].publication = Outcome(p)
      BY <2>2, PublicationSet DEF Typed, Filed
    <3> QED
      BY <1>8, <3>1 DEF RecordOutcome, RecordOutcomeFails
  <2>4. \A q \in Shell : /\ subPc'[q] = "record" => subPc[q] = "record"
                           /\ subJob'[q] = subJob[q]
                         /\ subJob'[q] \in {subJob[q], NoSubJob}
    BY <1>8 DEF RecordOutcome, RecordOutcomeFails, Typed, Control, Jobs
  <2> QED
    BY <1>8, <1>a, <2>1, <2>3, <2>4 DEF RecordOutcome, RecordOutcomeFails
<1>9. ASSUME NEW p \in Shell, ReadRecord(p) PROVE AllMade'
  <2>1. Made(Found(p))
    BY <1>a DEF Found, NoPublication
  <2>2. \A q \in Shell : /\ subPc'[q] = "record" => subPc[q] = "record"
                           /\ subJob'[q] = subJob[q]
                         /\ subJob'[q].found \in {subJob[q].found, Found(p)}
    BY <1>9 DEF ReadRecord, Typed, Control, Jobs, SubJob
  <2> QED
    BY <1>9, <2>1, <2>2 DEF ReadRecord
<1>10. ASSUME NEW p \in Shell, RecordFailure(p) PROVE AllMade'
  <2> DEFINE new == [subJob[p].found EXCEPT !.status = "DEGRADED"]
  <2>1. new \in Publication /\ new.revision = subJob[p].found.revision
    BY DEF Publication, PublicationStatus, Typed, Jobs, SubJob
  <2>2. subJob[p].found # NoFile
    BY DEF Typed, Jobs, SubJob
  <2>3. Made(file'.publication)
    <3>1. file' \in {file, [file EXCEPT !.publication = new]}
      BY <1>10 DEF RecordFailure
    <3>2. [file EXCEPT !.publication = new].publication = new
      BY <2>1, PublicationSet DEF Typed, Filed
    <3>3. file'.publication \in {file.publication, new}
      BY <3>1, <3>2
    <3> QED
      BY <2>1, <2>2, <3>3
  <2>4. \A q \in Shell : /\ subPc'[q] = "record" => subPc[q] = "record"
                           /\ subJob'[q] = subJob[q]
                         /\ subJob'[q] \in {subJob[q], NoSubJob}
    BY <1>10 DEF RecordFailure, Typed, Control, Jobs
  <2> QED
    BY <1>10, <1>a, <2>3, <2>4 DEF RecordFailure
<1>11. ASSUME NEW p \in Shell, SubKill(p) PROVE AllMade'
  <2>1. \A q \in Shell : /\ subPc'[q] = "record" => subPc[q] = "record"
                           /\ subJob'[q] = subJob[q]
                         /\ subJob'[q] \in {subJob[q], NoSubJob}
    BY <1>11 DEF SubKill, Typed, Control, Jobs
  <2>2. /\ \/ UNCHANGED <<subSnap, subTodo>>
           \/ subSnap' = Nothing /\ subTodo' = <<>>
        /\ UNCHANGED <<file, accepted>>
    BY <1>11 DEF SubKill
  <2> QED
    BY <2>1, <2>2, <1>a, <1>b
<1>12. CASE Change
  BY <1>12 DEF Change
<1>13. CASE UNCHANGED subVars
  BY <1>13 DEF subVars
<1> QED
  BY <1>1, <1>2, <1>3, <1>4, <1>5, <1>6, <1>7, <1>8, <1>9, <1>10, <1>11, <1>12,
     <1>13 DEF SubNext

-----------------------------------------------------------------------------
(* The theorems.                                                           *)

SubInv == Typed /\ Pairing /\ AllMade

\* The invariant holds at first ...
LEMMA Initially == SubInit => SubInv
<1> SUFFICES ASSUME SubInit PROVE SubInv
  OBVIOUS
<1>1. Nothing \in Files /\ Paired(Nothing) /\ Nothing.publication = NoFile
  BY DEF Nothing, Files, Credentials, Paired
<1>2. NoPublication \in Publication /\ NoSubJob \in SubJob
        /\ NoSubJob.found.revision = 0
  BY SubscriptionAssumption DEF Publication, PublicationStatus, NoPublication, NoSubJob,
     SubJob, Revision
<1>3. DOMAIN <<>> = {} /\ <<>> \in Seq(FileStep)
  BY EmptySeq, LenProperties
<1>4. Control /\ Jobs /\ Filed
  BY <1>1, <1>2, <1>3, SubscriptionAssumption DEF SubInit, Control, Label, Jobs, Filed
<1>5. Counted
  <2>1. broken \in BOOLEAN
    BY DEF SubInit
  <2>2. installed \in Revision /\ served \in Revision
    BY SubscriptionAssumption DEF SubInit, Revision
  <2> QED
    BY <2>1, <2>2 DEF SubInit, Counted
<1>6. Pairing
  BY <1>1 DEF SubInit, Pairing
<1>7. AllMade
  BY <1>1, <1>2, <1>3 DEF SubInit, AllMade, Made
<1> QED
  BY <1>4, <1>5, <1>6, <1>7 DEF SubInv, Typed

\* ... and always.
LEMMA Invariant == SubSpec => []SubInv
<1>1. SubInit => SubInv
  BY Initially
<1>2. SubInv /\ [SubNext]_subVars => SubInv'
  BY TypedKept, PairingKept, MadeKept DEF SubInv
<1>3. QED
  BY <1>1, <1>2, PTL DEF SubSpec

\* Every variable keeps its type, and only the holder of the lock has steps to
\* take (subscription.go, workers.go).
THEOREM SubTypeCorrect == SubSpec => []SubTypeOK
<1>1. SubInv => SubTypeOK
  BY DEF SubInv, Typed, Control, Label, Jobs, Filed, Counted, SubTypeOK
<1>2. QED
  BY <1>1, Invariant, PTL

\* configureSubscriptionFiles and removeSubscriptionFiles install credentials
\* as a whole or not at all, with any number of invocations that publish beside
\* them, and whichever of their steps fails.
THEOREM CredentialsStayPaired == SubSpec => []CredentialsPaired
<1>1. SubInv => CredentialsPaired
  BY DEF SubInv, Pairing, Paired, CredentialsPaired
<1>2. QED
  BY <1>1, Invariant, PTL

\* publication.json never names a revision the Worker has not accepted, however
\* many invocations write it without a lock (recordPublicationFailure).
THEOREM RecordedWasMade == SubSpec => []PublicationWasMade
<1>1. SubInv => PublicationWasMade
  BY DEF SubInv, AllMade, Made, PublicationWasMade
<1>2. QED
  BY <1>1, Invariant, PTL
=============================================================================
