---------------------------- MODULE Fail2banProofs ----------------------------
(***************************************************************************)
(* Proofs about Fail2ban, for any number of invocations that overlap in    *)
(* any way, any ports and addresses, and any number of commands, kills and *)
(* failures.                                                               *)
(***************************************************************************)
EXTENDS Fail2ban, FiniteSetTheorems, TLAPS

JailLabel == {"idle", "package", "list", "check", "restart", "record", "reload",
              "disown", "undo", "again"}

\* The types, in four parts.
FilesTyped ==
  /\ sshPort \in Port
  /\ jail \in Jail \cup {NoJail, Foreign} /\ ownership \in Jail \cup {NoJail}
  /\ enforced \in Jail \cup {NoJail, Foreign} /\ left \in Jail \cup {NoJail}
JobsTyped == jailJob \in [Admin -> JailJob] /\ jailPc \in [Admin -> JailLabel]
MarksTyped == alone \in [Admin -> BOOLEAN] /\ spoiled \in BOOLEAN
CountsTyped == jailCmds \in Nat /\ jailCrashes \in Nat /\ jailFaults \in Nat

\* What an apply or a whitelist change still has to write is a jail.
NewJails ==
  \A p \in Admin : jailPc[p] \in {"package", "list", "check", "restart", "record"} =>
                     jailJob[p].new \in Jail

JailTyped == FilesTyped /\ JobsTyped /\ MarksTyped /\ CountsTyped /\ NewJails

\* The record, the file and the service agree.
Agree == /\ enforced = jail
         /\ IF ownership = NoJail THEN jail \in {NoJail, Foreign, left} ELSE jail = ownership

\* A command with nobody beside it: what it has done so far, and what going
\* back would restore.
Forward(p) == jailPc[p] \in {"check", "restart", "record"}
Stage(p) ==
  /\ jailPc[p] = "package" => jailJob[p].cmd = "apply" /\ (~spoiled => Agree)
  /\ jailPc[p] = "list" => jailJob[p].cmd = "whitelist" /\ Owned /\ (~spoiled => Agree)
  /\ Forward(p) => /\ jail = jailJob[p].new
                   /\ jailJob[p].cmd \in {"apply", "whitelist"}
                   /\ jailJob[p].cmd = "whitelist" => ownership # NoJail
                        /\ jailJob[p].old = ownership
  /\ jailPc[p] = "record" => enforced = jail
  /\ jailPc[p] \in {"reload", "disown"} =>
       /\ jailJob[p].cmd = "remove" /\ jail = NoJail /\ jailJob[p].new = NoJail
       /\ jailPc[p] = "disown" => enforced = NoJail
  /\ jailPc[p] = "undo" /\ ~spoiled => ownership # NoJail /\ jailJob[p].old = ownership
  /\ jailPc[p] = "again" /\ ~spoiled => ownership # NoJail /\ jail = ownership

\* A command is alone, or something may be spoiled.
Staged ==
  /\ \A p \in Admin : jailPc[p] # "idle" =>
       IF alone[p] THEN Stage(p) /\ \A q \in Admin \ {p} : jailPc[q] = "idle"
       ELSE spoiled
  /\ Idle /\ ~spoiled => Agree

JailInv == JailTyped /\ Staged

-----------------------------------------------------------------------------
(* Types.                                                                  *)

\* An empty whitelist fits, and no jail stands for none.
LEMMA EmptyFits == Cardinality({}) <= MaxWhitelist /\ NoJail \notin Jail
  /\ Foreign \notin Jail
  BY FS_EmptySet, Fail2banAssumption

\* A whitelist change starts with the jail it will write.
LEMMA WhitelistStarts ==
  ASSUME FilesTyped, NEW p \in Admin, Whitelist(p)
  PROVE  /\ Owned /\ UNCHANGED <<sshPort, left, jailFiles, jailCrashes, jailFaults>>
         /\ \E new \in Jail :
              JailStart(p, "list", [NoJailJob EXCEPT !.cmd = "whitelist", !.new = new])
<1>1. PICK c \in Cidr :
        LET w == IF c \in ownership.whitelist THEN ownership.whitelist \ {c}
                 ELSE ownership.whitelist \cup {c}
        IN  /\ Fits(w)
            /\ JailStart(p, "list", [NoJailJob EXCEPT !.cmd = "whitelist",
                                      !.new = [ownership EXCEPT !.whitelist = w]])
  BY DEF Whitelist
<1> DEFINE w == IF c \in ownership.whitelist THEN ownership.whitelist \ {c}
                ELSE ownership.whitelist \cup {c}
           new == [ownership EXCEPT !.whitelist = w]
<1>2. ownership \in Jail
  BY DEF Whitelist, Owned, FilesTyped
<1>3. w \in SUBSET Cidr /\ Cardinality(w) <= MaxWhitelist
  BY <1>1, <1>2 DEF Fits, Jail
<1> HIDE DEF w
<1>4. new \in Jail
  BY <1>2, <1>3 DEF Jail
<1>5. JailStart(p, "list", [NoJailJob EXCEPT !.cmd = "whitelist", !.new = new])
  BY <1>1 DEF w
<1> QED
  BY <1>4, <1>5 DEF Whitelist

\* So does an apply, once the package is there.
LEMMA ApplyWrites ==
  ASSUME FilesTyped, NewJails, NEW p \in Admin, ApplyWrite(p)
  PROVE  /\ jail' \in Jail /\ jailJob' = [jailJob EXCEPT ![p].new = jail']
         /\ jailPc' = [jailPc EXCEPT ![p] = "check"]
<1> DEFINE w == IF ownership = NoJail THEN {} ELSE ownership.whitelist
           new == [jailJob[p].new EXCEPT !.whitelist = w]
<1>1. jailJob[p].new \in Jail
  BY DEF NewJails, ApplyWrite
<1>2. w \in SUBSET Cidr /\ Cardinality(w) <= MaxWhitelist
  BY EmptyFits DEF FilesTyped, Jail
<1> HIDE DEF w
<1>3. new \in Jail
  BY <1>1, <1>2 DEF Jail
<1>4. jail' = new /\ jailJob' = [jailJob EXCEPT ![p].new = new]
  BY DEF ApplyWrite, w
<1> QED
  BY <1>3, <1>4 DEF ApplyWrite, JailGoto

\* The files hold jails, or none, or another's.
LEMMA FilesKept == JailTyped /\ [JailNext]_jailVars => FilesTyped'
<1> SUFFICES ASSUME JailTyped, [JailNext]_jailVars PROVE FilesTyped'
  OBVIOUS
<1> USE Fail2banAssumption DEF JailTyped, FilesTyped, JailGoto, JailExit, JailStart,
        jailFiles, jailCount
<1>1. ASSUME NEW p \in Admin, JailApply(p) \/ Whitelist(p) \/ JailRemove(p)
      PROVE FilesTyped'
  BY <1>1 DEF JailApply, Whitelist, JailRemove
<1>2. ASSUME NEW p \in Admin, ApplyWrite(p) PROVE FilesTyped'
  BY <1>2, ApplyWrites DEF ApplyWrite
<1>3. ASSUME NEW p \in Admin, PackageFails(p) \/ Check(p) \/ RestartJail(p)
      PROVE FilesTyped'
  BY <1>3 DEF PackageFails, Check, RestartJail
<1>4. ASSUME NEW p \in Admin, ListWrite(p) PROVE FilesTyped'
  BY <1>4 DEF ListWrite, NewJails
<1>5. ASSUME NEW p \in Admin, ListWriteFails(p) PROVE FilesTyped'
  BY <1>5 DEF ListWriteFails, NewJails
<1>6. ASSUME NEW p \in Admin, RecordJail(p) PROVE FilesTyped'
  BY <1>6 DEF RecordJail, NewRecord, JobsTyped, JailJob
<1>7. ASSUME NEW p \in Admin, JailFails(p) PROVE FilesTyped'
  BY <1>7 DEF JailFails, NewRecord, JobsTyped, JailJob
<1>8. ASSUME NEW p \in Admin, JailUndo(p) PROVE FilesTyped'
  BY <1>8 DEF JailUndo, JobsTyped, JailJob
<1>9. ASSUME NEW p \in Admin, JailAgain(p) PROVE FilesTyped'
  BY <1>9 DEF JailAgain
<1>10. ASSUME NEW p \in Admin, JailKill(p) PROVE FilesTyped'
  BY <1>10 DEF JailKill
<1>11. CASE JailUninstall
  BY <1>11 DEF JailUninstall, Owned
<1>12. CASE MovePort
  BY <1>12 DEF MovePort
<1>13. CASE UNCHANGED jailVars
  BY <1>13 DEF jailVars
<1> QED
  BY <1>1, <1>2, <1>3, <1>4, <1>5, <1>6, <1>7, <1>8, <1>9, <1>10, <1>11,
     <1>12, <1>13 DEF JailNext

\* What the invocations remember has its type.
LEMMA JobsKept == JailTyped /\ [JailNext]_jailVars => JobsTyped'
<1> SUFFICES ASSUME JailTyped, [JailNext]_jailVars PROVE JobsTyped'
  OBVIOUS
<1> USE Fail2banAssumption DEF JailTyped, JobsTyped, JailLabel, JailJob, NoJailJob,
        JailGoto, JailExit, JailStart, jailFiles, jailCount
<1>1. ASSUME NEW p \in Admin, JailApply(p) PROVE JobsTyped'
  BY <1>1, EmptyFits DEF JailApply, Jail, FilesTyped
<1>2. ASSUME NEW p \in Admin, Whitelist(p) PROVE JobsTyped'
  <2>1. PICK new \in Jail :
              JailStart(p, "list", [NoJailJob EXCEPT !.cmd = "whitelist", !.new = new])
    BY <1>2, WhitelistStarts
  <2>2. UNCHANGED <<sshPort, left, jailFiles, jailCrashes, jailFaults>>
    BY <1>2, WhitelistStarts
  <2> QED
    BY <2>1, <2>2
<1>3. ASSUME NEW p \in Admin, JailRemove(p) PROVE JobsTyped'
  BY <1>3 DEF JailRemove
<1>4. ASSUME NEW p \in Admin, ApplyWrite(p) PROVE JobsTyped'
  BY <1>4, ApplyWrites
<1>5. ASSUME NEW p \in Admin, PackageFails(p) \/ ListWriteFails(p) \/ RecordJail(p)
        \/ JailAgain(p) \/ JailKill(p) PROVE JobsTyped'
  <2>1. CASE PackageFails(p)
    BY <2>1 DEF PackageFails
  <2>2. CASE ListWriteFails(p)
    BY <2>2 DEF ListWriteFails
  <2>3. CASE RecordJail(p)
    BY <2>3 DEF RecordJail
  <2>4. CASE JailAgain(p)
    BY <2>4 DEF JailAgain
  <2>5. CASE JailKill(p)
    BY <2>5 DEF JailKill
  <2> QED
    BY <1>5, <2>1, <2>2, <2>3, <2>4, <2>5
<1>6. ASSUME NEW p \in Admin, ListWrite(p) PROVE JobsTyped'
  BY <1>6 DEF ListWrite, FilesTyped
<1>7. ASSUME NEW p \in Admin, Check(p) \/ RestartJail(p) \/ JailUndo(p) PROVE JobsTyped'
  BY <1>7 DEF Check, RestartJail, JailUndo
<1>8. ASSUME NEW p \in Admin, JailFails(p) PROVE JobsTyped'
  BY <1>8 DEF JailFails, Undoes
<1>9. CASE JailUninstall
  BY <1>9 DEF JailUninstall
<1>10. CASE MovePort
  BY <1>10 DEF MovePort
<1>11. CASE UNCHANGED jailVars
  BY <1>11 DEF jailVars
<1> QED
  BY <1>1, <1>2, <1>3, <1>4, <1>5, <1>6, <1>7, <1>8, <1>9, <1>10, <1>11 DEF JailNext

\* apply and whitelist write jails only.
LEMMA NewJailsKept == JailTyped /\ [JailNext]_jailVars => NewJails'
<1> SUFFICES ASSUME JailTyped, [JailNext]_jailVars PROVE NewJails'
  OBVIOUS
<1> USE Fail2banAssumption DEF JailTyped, JobsTyped, NewJails, JailGoto, JailExit,
        JailStart, jailFiles, jailCount
<1>1. ASSUME NEW p \in Admin, JailApply(p) PROVE NewJails'
  BY <1>1, EmptyFits DEF JailApply, Jail, FilesTyped, NoJailJob
<1>2. ASSUME NEW p \in Admin, Whitelist(p) PROVE NewJails'
  <2>1. PICK new \in Jail :
              JailStart(p, "list", [NoJailJob EXCEPT !.cmd = "whitelist", !.new = new])
    BY <1>2, WhitelistStarts
  <2>2. UNCHANGED <<sshPort, left, jailFiles, jailCrashes, jailFaults>>
    BY <1>2, WhitelistStarts
  <2> QED
    BY <2>1, <2>2 DEF NoJailJob
<1>3. ASSUME NEW p \in Admin, JailRemove(p) PROVE NewJails'
  BY <1>3 DEF JailRemove
<1>4. ASSUME NEW p \in Admin, ApplyWrite(p) PROVE NewJails'
  BY <1>4, ApplyWrites DEF JailJob
<1>5. ASSUME NEW p \in Admin, PackageFails(p) \/ ListWriteFails(p) \/ RecordJail(p)
        \/ JailAgain(p) \/ JailKill(p) PROVE NewJails'
  <2>1. CASE PackageFails(p)
    BY <2>1 DEF PackageFails
  <2>2. CASE ListWriteFails(p)
    BY <2>2 DEF ListWriteFails
  <2>3. CASE RecordJail(p)
    BY <2>3 DEF RecordJail
  <2>4. CASE JailAgain(p)
    BY <2>4 DEF JailAgain
  <2>5. CASE JailKill(p)
    BY <2>5 DEF JailKill
  <2> QED
    BY <1>5, <2>1, <2>2, <2>3, <2>4, <2>5
<1>6. ASSUME NEW p \in Admin, ListWrite(p) PROVE NewJails'
  BY <1>6 DEF ListWrite, JailJob
<1>7. ASSUME NEW p \in Admin, Check(p) \/ RestartJail(p) \/ JailUndo(p) PROVE NewJails'
  BY <1>7 DEF Check, RestartJail, JailUndo
<1>8. ASSUME NEW p \in Admin, JailFails(p) PROVE NewJails'
  BY <1>8 DEF JailFails, Undoes
<1>9. CASE JailUninstall
  BY <1>9 DEF JailUninstall
<1>10. CASE MovePort
  BY <1>10 DEF MovePort
<1>11. CASE UNCHANGED jailVars
  BY <1>11 DEF jailVars
<1> QED
  BY <1>1, <1>2, <1>3, <1>4, <1>5, <1>6, <1>7, <1>8, <1>9, <1>10, <1>11 DEF JailNext

\* The history variables have their types.
LEMMA MarksKept == JailTyped /\ [JailNext]_jailVars => MarksTyped'
<1> SUFFICES ASSUME JailTyped, [JailNext]_jailVars PROVE MarksTyped'
  OBVIOUS
<1> USE DEF JailTyped, MarksTyped, JailGoto, JailExit, JailStart, jailFiles, jailCount
<1>1. ASSUME NEW p \in Admin, JailApply(p) \/ Whitelist(p) \/ JailRemove(p)
      PROVE MarksTyped'
  BY <1>1 DEF JailApply, Whitelist, JailRemove
<1>2. ASSUME NEW p \in Admin, ApplyWrite(p) \/ PackageFails(p) \/ ListWrite(p)
        \/ Check(p) \/ RestartJail(p) PROVE MarksTyped'
  BY <1>2 DEF ApplyWrite, PackageFails, ListWrite, Check, RestartJail
<1>3. ASSUME NEW p \in Admin, ListWriteFails(p) PROVE MarksTyped'
  BY <1>3 DEF ListWriteFails
<1>4. ASSUME NEW p \in Admin, RecordJail(p) PROVE MarksTyped'
  BY <1>4 DEF RecordJail
<1>5. ASSUME NEW p \in Admin, JailFails(p) PROVE MarksTyped'
  BY <1>5 DEF JailFails
<1>6. ASSUME NEW p \in Admin, JailUndo(p) \/ JailAgain(p) PROVE MarksTyped'
  BY <1>6 DEF JailUndo, JailAgain
<1>7. CASE JailUninstall
  BY <1>7 DEF JailUninstall
<1>8. ASSUME NEW p \in Admin, JailKill(p) PROVE MarksTyped'
  BY <1>8 DEF JailKill
<1>9. CASE MovePort
  BY <1>9 DEF MovePort
<1>10. CASE UNCHANGED jailVars
  BY <1>10 DEF jailVars
<1> QED
  BY <1>1, <1>2, <1>3, <1>4, <1>5, <1>6, <1>7, <1>8, <1>9, <1>10 DEF JailNext

\* The counters are numbers.
LEMMA CountsKept == JailTyped /\ [JailNext]_jailVars => CountsTyped'
<1> SUFFICES ASSUME JailTyped, [JailNext]_jailVars PROVE CountsTyped'
  OBVIOUS
<1> USE Fail2banAssumption DEF JailTyped, CountsTyped, JailFault, JailGoto, JailExit,
        JailStart, jailFiles, jailCount
<1>1. ASSUME NEW p \in Admin, JailApply(p) PROVE CountsTyped'
  BY <1>1 DEF JailApply
<1>2. ASSUME NEW p \in Admin, Whitelist(p) PROVE CountsTyped'
  <2>1. PICK new \in Jail :
              JailStart(p, "list", [NoJailJob EXCEPT !.cmd = "whitelist", !.new = new])
    BY <1>2, WhitelistStarts
  <2>2. UNCHANGED <<sshPort, left, jailFiles, jailCrashes, jailFaults>>
    BY <1>2, WhitelistStarts
  <2> QED
    BY <2>1, <2>2
<1>3. ASSUME NEW p \in Admin, JailRemove(p) PROVE CountsTyped'
  BY <1>3 DEF JailRemove
<1>4. ASSUME NEW p \in Admin, ApplyWrite(p) \/ PackageFails(p) \/ ListWrite(p)
      PROVE CountsTyped'
  BY <1>4 DEF ApplyWrite, PackageFails, ListWrite
<1>5. ASSUME NEW p \in Admin, ListWriteFails(p) PROVE CountsTyped'
  BY <1>5 DEF ListWriteFails
<1>6. ASSUME NEW p \in Admin, Check(p) \/ RestartJail(p) \/ RecordJail(p)
      PROVE CountsTyped'
  BY <1>6 DEF Check, RestartJail, RecordJail
<1>7. ASSUME NEW p \in Admin, JailFails(p) \/ JailUndo(p) \/ JailAgain(p)
      PROVE CountsTyped'
  BY <1>7 DEF JailFails, JailUndo, JailAgain
<1>8. CASE JailUninstall
  BY <1>8 DEF JailUninstall
<1>9. ASSUME NEW p \in Admin, JailKill(p) PROVE CountsTyped'
  BY <1>9 DEF JailKill
<1>10. CASE MovePort
  BY <1>10 DEF MovePort
<1>11. CASE UNCHANGED jailVars
  BY <1>11 DEF jailVars
<1> QED
  BY <1>1, <1>2, <1>3, <1>4, <1>5, <1>6, <1>7, <1>8, <1>9, <1>10, <1>11 DEF JailNext

\* All of them together.
LEMMA TypedKept == JailTyped /\ [JailNext]_jailVars => JailTyped'
  BY FilesKept, JobsKept, MarksKept, CountsKept, NewJailsKept DEF JailTyped

-----------------------------------------------------------------------------
(* Stages.                                                                 *)

\* A command that starts with nobody beside it only has its own stage to show;
\* beside another, nobody is alone any more.
LEMMA Starts ==
  ASSUME JobsTyped, MarksTyped, Staged, NEW p \in Admin, NEW l, NEW job, l # "idle",
         JailStart(p, l, job), Idle => Stage(p)'
  PROVE  Staged'
<1>1. jailPc'[p] = l /\ \A q \in Admin \ {p} : jailPc'[q] = jailPc[q]
  BY DEF JailStart, JailGoto, JobsTyped
<1>2. ~Idle'
  BY <1>1 DEF Idle
<1>3. CASE Idle
  <2>1. \A q \in Admin \ {p} : jailPc'[q] = "idle"
    BY <1>1, <1>3 DEF Idle
  <2>2. Stage(p)'
    BY <1>3
  <2>3. alone' = [alone EXCEPT ![p] = TRUE]
    BY <1>3, Zenon DEF JailStart
  <2>4. alone'[p]
    BY <2>3, Zenon DEF MarksTyped
  <2> QED
    BY <1>2, <2>1, <2>2, <2>4 DEF Staged
<1>4. CASE ~Idle
  <2>1. alone' = [q \in Admin |-> q # p /\ alone[q] /\ jailPc[q] = "idle"] /\ spoiled'
    BY <1>4, Zenon DEF JailStart
  <2>2. \A q \in Admin : jailPc'[q] # "idle" => ~alone'[q]
    BY <1>1, <2>1
  <2> QED
    BY <1>2, <2>1, <2>2 DEF Staged
<1> QED
  BY <1>3, <1>4

\* So has one that goes on, as long as what is spoiled beside others stays so.
LEMMA GoesOn ==
  ASSUME JobsTyped, Staged, NEW p \in Admin, NEW l,
         jailPc[p] # "idle", JailGoto(p, l), UNCHANGED alone,
         ~alone[p] /\ spoiled => spoiled',
         alone[p] => IF l = "idle" THEN spoiled' \/ Agree' ELSE Stage(p)'
  PROVE  Staged'
<1>1. jailPc'[p] = l /\ \A q \in Admin \ {p} : jailPc'[q] = jailPc[q]
  BY DEF JailGoto, JobsTyped
<1>2. CASE alone[p]
  <2>1. \A q \in Admin \ {p} : jailPc'[q] = "idle"
    BY <1>1, <1>2 DEF Staged
  <2>2. Idle' => l = "idle"
    BY <1>1 DEF Idle
  <2>3. alone'[p]
    BY <1>2
  <2> QED
    BY <1>1, <1>2, <2>1, <2>2, <2>3 DEF Staged
<1>3. CASE ~alone[p]
  <2>1. spoiled'
    BY <1>3 DEF Staged
  <2>2. \A q \in Admin : jailPc[q] # "idle" => ~alone[q]
    BY <1>3 DEF Staged
  <2>3. \A q \in Admin : jailPc'[q] # "idle" => ~alone'[q]
    BY <1>1, <1>3, <2>2
  <2> QED
    BY <2>1, <2>3 DEF Staged
<1> QED
  BY <1>2, <1>3

\* A command that is alone is at the stage it shows.
LEMMA AtStage == ASSUME Staged, NEW p \in Admin, jailPc[p] # "idle",
  alone[p] PROVE Stage(p)
  BY DEF Staged

\* Every action keeps every command at its stage.
LEMMA StagedKept == JailTyped /\ Staged /\ [JailNext]_jailVars => Staged'
<1> SUFFICES ASSUME JailTyped, Staged, [JailNext]_jailVars PROVE Staged'
  OBVIOUS
<1>0. JobsTyped /\ MarksTyped /\ FilesTyped /\ NewJails
  BY DEF JailTyped
<1> USE DEF jailFiles, jailCount
<1>1. ASSUME NEW p \in Admin, JailApply(p) PROVE Staged'
  <2> DEFINE job == [NoJailJob EXCEPT !.cmd = "apply",
                                     !.new = [port |-> sshPort, whitelist |-> {}]]
  <2>1. JailStart(p, "package", job) /\ UNCHANGED <<jail, ownership, enforced, left>>
    BY <1>1 DEF JailApply
  <2>2. job.cmd = "apply"
    BY DEF NoJailJob
  <2> HIDE DEF job
  <2>3. jailPc'[p] = "package" /\ jailJob'[p] = job
    BY <1>0, <2>1 DEF JailStart, JailGoto, JobsTyped
  <2>4. ASSUME Idle PROVE Stage(p)'
    <3>1. ~spoiled' => Agree
      BY <2>1, <2>4, Zenon DEF JailStart, Staged
    <3> QED
      BY <2>1, <2>2, <2>3, <3>1 DEF Stage, Forward, Agree
  <2> QED
    BY <1>0, <2>1, <2>4, Starts
<1>2. ASSUME NEW p \in Admin, Whitelist(p) PROVE Staged'
  <2>1. PICK new \in Jail :
          JailStart(p, "list", [NoJailJob EXCEPT !.cmd = "whitelist", !.new = new])
    BY <1>0, <1>2, WhitelistStarts
  <2> DEFINE job == [NoJailJob EXCEPT !.cmd = "whitelist", !.new = new]
  <2>2. Owned /\ UNCHANGED <<jail, ownership, enforced, left>>
    BY <1>0, <1>2, WhitelistStarts
  <2>3. job.cmd = "whitelist" /\ JailStart(p, "list", job)
    BY <2>1 DEF NoJailJob
  <2> HIDE DEF job
  <2>4. jailPc'[p] = "list" /\ jailJob'[p] = job
    BY <1>0, <2>3 DEF JailStart, JailGoto, JobsTyped
  <2>5. ASSUME Idle PROVE Stage(p)'
    <3>1. ~spoiled' => Agree
      BY <2>3, <2>5, Zenon DEF JailStart, Staged
    <3> QED
      BY <2>2, <2>3, <2>4, <3>1 DEF Stage, Forward, Agree, Owned
  <2> QED
    BY <1>0, <2>3, <2>5, Starts
<1>3. ASSUME NEW p \in Admin, JailRemove(p) PROVE Staged'
  <2> DEFINE job == [NoJailJob EXCEPT !.cmd = "remove"]
  <2>1. JailStart(p, "reload", job) /\ jail' = NoJail
    BY <1>3 DEF JailRemove
  <2>2. job.cmd = "remove" /\ job.new = NoJail
    BY DEF NoJailJob
  <2> HIDE DEF job
  <2>3. jailPc'[p] = "reload" /\ jailJob'[p] = job
    BY <1>0, <2>1 DEF JailStart, JailGoto, JobsTyped
  <2>4. Stage(p)'
    BY <2>1, <2>2, <2>3 DEF Stage, Forward
  <2> QED
    BY <1>0, <2>1, <2>4, Starts
<1>4. ASSUME NEW p \in Admin, ApplyWrite(p) PROVE Staged'
  <2>1. /\ jail' \in Jail /\ jailJob' = [jailJob EXCEPT ![p].new = jail']
        /\ JailGoto(p, "check") /\ UNCHANGED <<alone, spoiled>> /\ jailPc[p] = "package"
    BY <1>0, <1>4, ApplyWrites DEF ApplyWrite
  <2>2. jailPc'[p] = "check" /\ jailJob'[p].new = jail'
          /\ jailJob'[p].cmd = jailJob[p].cmd
    BY <1>0, <2>1 DEF JailGoto, JobsTyped, JailJob
  <2>3. ASSUME alone[p] PROVE Stage(p)'
    <3>1. jailJob[p].cmd = "apply"
      BY <2>1, <2>3, AtStage DEF Stage
    <3> QED
      BY <2>2, <3>1 DEF Stage, Forward
  <2> QED
    BY <1>0, <2>1, <2>3, GoesOn
<1>5. ASSUME NEW p \in Admin, PackageFails(p) PROVE Staged'
  <2>1. /\ JailGoto(p, "idle") /\ jailPc[p] = "package"
        /\ UNCHANGED <<alone, spoiled, jail, ownership, enforced, left>>
    BY <1>5 DEF PackageFails, JailExit
  <2>2. ASSUME alone[p] PROVE spoiled' \/ Agree'
    <3>1. spoiled \/ Agree
      BY <2>1, <2>2, AtStage DEF Stage
    <3> QED
      BY <2>1, <3>1 DEF Agree
  <2> QED
    BY <1>0, <2>1, <2>2, GoesOn
<1>6. ASSUME NEW p \in Admin, ListWrite(p) PROVE Staged'
  <2>1. /\ jail' = jailJob[p].new /\ jailJob' = [jailJob EXCEPT ![p].old = jail]
        /\ JailGoto(p, "check") /\ UNCHANGED <<alone, spoiled, ownership>>
             /\ jailPc[p] = "list"
    BY <1>6 DEF ListWrite
  <2>2. /\ jailPc'[p] = "check" /\ jailJob'[p].new = jail' /\ jailJob'[p].old = jail
        /\ jailJob'[p].cmd = jailJob[p].cmd
    BY <1>0, <2>1 DEF JailGoto, JobsTyped, JailJob
  <2>3. ASSUME alone[p] PROVE Stage(p)'
    <3>1. jailJob[p].cmd = "whitelist" /\ Owned
      BY <2>1, <2>3, AtStage DEF Stage
    <3> QED
      BY <2>1, <2>2, <3>1 DEF Stage, Forward, Owned
  <2> QED
    BY <1>0, <2>1, <2>3, GoesOn
<1>7. ASSUME NEW p \in Admin, ListWriteFails(p) PROVE Staged'
  <2>1. /\ JailGoto(p, "idle") /\ jailPc[p] = "list"
        /\ UNCHANGED <<alone, ownership, enforced, left>>
    BY <1>7 DEF ListWriteFails, JailExit
  <2>2. UNCHANGED <<jail, spoiled>> \/ spoiled' = TRUE
    BY <1>7 DEF ListWriteFails
  <2>3. ASSUME alone[p] PROVE spoiled' \/ Agree'
    <3>1. spoiled \/ Agree
      BY <2>1, <2>3, AtStage DEF Stage
    <3> QED
      BY <2>1, <2>2, <3>1 DEF Agree
  <2> QED
    BY <1>0, <2>1, <2>2, <2>3, GoesOn
<1>8. ASSUME NEW p \in Admin, Check(p) PROVE Staged'
  <2>1. /\ JailGoto(p, "restart") /\ jailPc[p] = "check"
        /\ UNCHANGED <<alone, spoiled, jail, ownership, enforced, jailJob>>
    BY <1>8 DEF Check
  <2>2. jailPc'[p] = "restart"
    BY <1>0, <2>1 DEF JailGoto, JobsTyped
  <2>3. ASSUME alone[p] PROVE Stage(p)'
    <3>1. Stage(p)
      BY <2>1, <2>3, AtStage
    <3> QED
      BY <2>1, <2>2, <3>1 DEF Stage, Forward
  <2> QED
    BY <1>0, <2>1, <2>3, GoesOn
<1>9. ASSUME NEW p \in Admin, RestartJail(p) PROVE Staged'
  <2> DEFINE l == IF jailPc[p] = "restart" THEN "record" ELSE "disown"
  <2>1. /\ JailGoto(p, l) /\ jailPc[p] \in {"restart", "reload"} /\ enforced' = jail
        /\ UNCHANGED <<alone, spoiled, jail, ownership, jailJob>>
    BY <1>9 DEF RestartJail
  <2>2. jailPc'[p] = l
    BY <1>0, <2>1 DEF JailGoto, JobsTyped
  <2>3. ASSUME alone[p] PROVE Stage(p)'
    <3>1. Stage(p)
      BY <2>1, <2>3, AtStage
    <3> QED
      BY <2>1, <2>2, <3>1 DEF Stage, Forward
  <2>4. l # "idle"
    OBVIOUS
  <2> HIDE DEF l
  <2> QED
    BY <1>0, <2>1, <2>3, <2>4, GoesOn
<1>10. ASSUME NEW p \in Admin, RecordJail(p) PROVE Staged'
  <2>1. /\ JailGoto(p, "idle") /\ jailPc[p] \in {"record", "disown"}
        /\ ownership' = jailJob[p].new /\ UNCHANGED <<alone, jail, enforced>>
    BY <1>10 DEF RecordJail, JailExit, NewRecord
  <2>2. ~alone[p] /\ spoiled => spoiled'
    BY <1>10, Zenon DEF RecordJail
  <2>3. ASSUME alone[p] PROVE Agree'
    <3>1. Stage(p)
      BY <2>1, <2>3, AtStage
    <3>2. CASE jailPc[p] = "record"
      BY <1>0, <2>1, <3>1, <3>2, EmptyFits DEF Stage, Forward, Agree, NewJails
    <3>3. CASE jailPc[p] = "disown"
      BY <2>1, <3>1, <3>3 DEF Stage, Agree
    <3> QED
      BY <2>1, <3>2, <3>3
  <2> QED
    BY <1>0, <2>1, <2>2, <2>3, GoesOn
<1>11. ASSUME NEW p \in Admin, JailFails(p) PROVE Staged'
  <2> DEFINE l == IF Undoes(p) THEN "undo" ELSE "idle"
  <2>1. /\ jailPc[p] \in {"check", "restart", "record", "reload", "disown"}
        /\ UNCHANGED <<alone, jail>>
    BY <1>11 DEF JailFails
  <2>2. JailGoto(p, l) /\ (Undoes(p) => UNCHANGED jailJob)
    BY <1>11 DEF JailFails, JailExit
  <2>3. \/ UNCHANGED ownership /\ spoiled' = (spoiled \/ ~Undoes(p))
        \/ spoiled' = TRUE
    BY <1>11, Zenon DEF JailFails, Undoes
  <2>4. jailPc'[p] = l
    BY <1>0, <2>2 DEF JailGoto, JobsTyped
  <2>5. (spoiled => spoiled') /\ (~Undoes(p) => spoiled') /\ (~spoiled'
          => UNCHANGED ownership)
    BY <2>3, Zenon
  <2>6. ASSUME alone[p], Undoes(p) PROVE Stage(p)'
    <3>1. Stage(p) /\ jailJob[p].cmd = "whitelist"
      BY <2>1, <2>6, AtStage DEF Undoes
    <3> QED
      BY <2>1, <2>2, <2>4, <2>5, <2>6, <3>1 DEF Stage, Forward
  <2>7. CASE Undoes(p)
    <3>1. JailGoto(p, "undo")
      BY <2>2, <2>7
    <3> QED
      BY <1>0, <2>1, <2>5, <2>6, <2>7, <3>1, GoesOn
  <2>8. CASE ~Undoes(p)
    <3>1. JailGoto(p, "idle")
      BY <2>2, <2>8
    <3> QED
      BY <1>0, <2>1, <2>5, <2>8, <3>1, GoesOn
  <2> QED
    BY <2>7, <2>8
<1>12. ASSUME NEW p \in Admin, JailUndo(p) PROVE Staged'
  <2>1. /\ JailGoto(p, "again") /\ jailPc[p] = "undo" /\ UNCHANGED <<alone, ownership,
             jailJob>>
        /\ (jail' = jailJob[p].old /\ UNCHANGED spoiled) \/ spoiled' = TRUE
    BY <1>12 DEF JailUndo
  <2>2. jailPc'[p] = "again"
    BY <1>0, <2>1 DEF JailGoto, JobsTyped
  <2>3. ASSUME alone[p] PROVE Stage(p)'
    <3>1. Stage(p)
      BY <2>1, <2>3, AtStage
    <3> QED
      BY <2>1, <2>2, <3>1 DEF Stage, Forward
  <2> QED
    BY <1>0, <2>1, <2>3, GoesOn
<1>13. ASSUME NEW p \in Admin, JailAgain(p) PROVE Staged'
  <2>1. /\ JailGoto(p, "idle") /\ jailPc[p] = "again" /\ UNCHANGED <<alone, jail,
             ownership>>
        /\ (enforced' = jail /\ UNCHANGED spoiled) \/ spoiled' = TRUE
    BY <1>13 DEF JailAgain, JailExit
  <2>2. ASSUME alone[p] PROVE spoiled' \/ Agree'
    <3>1. Stage(p)
      BY <2>1, <2>2, AtStage
    <3> QED
      BY <2>1, <3>1 DEF Stage, Agree
  <2> QED
    BY <1>0, <2>1, <2>2, GoesOn
<1>14. ASSUME NEW p \in Admin, JailKill(p) PROVE Staged'
  <2>1. JailGoto(p, "idle") /\ jailPc[p] # "idle" /\ UNCHANGED alone /\ spoiled' = TRUE
    BY <1>14 DEF JailKill, JailExit
  <2> QED
    BY <1>0, <2>1, GoesOn
<1>15. CASE JailUninstall
  <2>1. /\ UNCHANGED <<jail, enforced, jailPc, jailJob>> /\ ownership' = NoJail
        /\ alone' = [q \in Admin |-> alone[q] /\ jailPc[q] = "idle"]
        /\ left' = IF Owned THEN jail ELSE left
    BY <1>15 DEF JailUninstall
  <2>2. (spoiled => spoiled') /\ (~Idle => spoiled') /\ (~spoiled' => Idle /\ ~spoiled)
    BY <1>15, Zenon DEF JailUninstall
  <2>3. ASSUME NEW q \in Admin, jailPc'[q] # "idle" PROVE ~alone'[q] /\ spoiled'
    BY <2>1, <2>2, <2>3 DEF Idle
  <2>4. ASSUME ~spoiled' PROVE Agree'
    <3>1. Agree
      BY <2>2, <2>4 DEF Staged
    <3> QED
      BY <2>1, <3>1 DEF Agree, Owned
  <2> QED
    BY <2>3, <2>4 DEF Staged
<1>16. CASE MovePort
  BY <1>16 DEF MovePort, Staged, Stage, Forward, Owned, Agree, Idle
<1>17. CASE UNCHANGED jailVars
  BY <1>17 DEF jailVars, Staged, Stage, Forward, Owned, Agree, Idle
<1> QED
  BY <1>1, <1>2, <1>3, <1>4, <1>5, <1>6, <1>7, <1>8, <1>9, <1>10, <1>11, <1>12, <1>13,
     <1>14, <1>15, <1>16, <1>17 DEF JailNext

-----------------------------------------------------------------------------
(* Theorems.                                                               *)

\* The invariant holds at first ...
LEMMA Initially == JailInit => JailInv
<1> SUFFICES ASSUME JailInit PROVE JailInv
  OBVIOUS
<1> USE DEF JailInit
<1>1. FilesTyped /\ JobsTyped
  BY DEF FilesTyped, JobsTyped, JailLabel, JailJob, NoJailJob
<1>2. MarksTyped /\ CountsTyped
  BY DEF MarksTyped, CountsTyped
<1>3. NewJails
  BY DEF NewJails
<1>4. Staged
  BY DEF Staged, Agree
<1> QED
  BY <1>1, <1>2, <1>3, <1>4 DEF JailInv, JailTyped

\* ... and always.
LEMMA Invariant == JailSpec => []JailInv
<1>1. JailInv /\ [JailNext]_jailVars => JailInv'
  BY TypedKept, StagedKept DEF JailInv
<1> QED
  BY Initially, <1>1, PTL DEF JailSpec

\* Every variable keeps its type: no command, however it overlaps with others,
\* writes a whitelist past its limit or puts a foreign jail on record.
THEOREM JailTypeCorrect == JailSpec => []JailTypeOK
<1>1. JailInv => JailTypeOK
  BY DEF JailInv, JailTyped, FilesTyped, JobsTyped, MarksTyped, CountsTyped, JailLabel,
     JailTypeOK
<1> QED
  BY Invariant, <1>1, PTL

\* Between commands the record, the file and the service agree, or something
\* was spoiled since the last success: for any addresses, and any commands
\* that are killed, fail or overlap.
THEOREM JailStaysInForce == JailSpec => []JailInForce
<1>1. JailInv => JailInForce
  BY DEF JailInv, Staged, JailInForce, Agree
<1> QED
  BY Invariant, <1>1, PTL
=============================================================================
