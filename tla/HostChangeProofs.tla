-------------------------- MODULE HostChangeProofs --------------------------
(***************************************************************************)
(* Proofs about HostChange, for any number of transactions, kills and      *)
(* failures: the types for any invocations; and for one operator beside    *)
(* any number of renewal timers what a rollback restores, what a removal   *)
(* leaves, what a recovery brings back, that files of two installations    *)
(* are never mixed unseen, and that the services run what is installed.    *)
(***************************************************************************)
EXTENDS HostChange, SequenceTheorems, TLAPS

OneStep == [file : File, to : Version]
Label == {"idle", "wait", "write", "commit", "stop", "undo", "local", "settle",
          "localDone", "mark", "user"}

FilesTyped ==
  /\ disk \in Image /\ running \in [Serving -> Version]
  /\ journal \in [TxId -> Record] /\ bak \in [TxId -> Image] /\ names \in [TxId -> Image]
  /\ untold \subseteq Command
HeldTyped ==
  /\ lock \in Cli \cup {NoCli} /\ snap \in Image
  /\ todo \in Seq(OneStep) /\ (lock = NoCli => todo = <<>>)
JobsTyped == job \in [Cli -> Job] /\ pc \in [Cli -> Label]

Changes == Installs \cup {"self", "core", "cert"}

\* Where the lock is held, and the commands each place is for.
Locked == {"write", "commit", "stop", "undo", "local", "settle", "localDone"}
Holding ==
  \A p \in Cli : /\ pc[p] \in Locked => lock = p
                 /\ lock = p => pc[p] \in Locked \cup {"user"}
WorkingAt(p) ==
  /\ pc[p] # "idle" => job[p].cmd # "none"
  /\ pc[p] \in {"commit", "stop", "undo", "settle"} => job[p].cmd # "uninstall"
  /\ pc[p] = "user" => job[p].cmd = "uninstall"
  /\ job[p].cmd = "recover" => job[p].target \in TxId
  /\ job[p].cmd \in Changes /\ pc[p] \in Locked => job[p].tx \in TxId
Working == \A p \in Cli : WorkingAt(p)

Typed == FilesTyped /\ HeldTyped /\ JobsTyped /\ Holding /\ Working

-----------------------------------------------------------------------------
(* Sequences of steps.                                                     *)

\* The files a sequence of steps touches.
Touched(s) == {s[i].file : i \in DOMAIN s}

Elements(fs) == {fs[i] : i \in DOMAIN fs}

LEMMA NewSteps ==
  ASSUME NEW fs \in Seq(File), NEW t \in Version
  PROVE  /\ New(fs, t) \in Seq(OneStep) /\ Touched(New(fs, t)) = Elements(fs)
         /\ \A i \in DOMAIN New(fs, t) : New(fs, t)[i].to = t
<1>1. Len(fs) \in Nat /\ DOMAIN fs = 1..Len(fs) /\ \A i \in 1..Len(fs) : fs[i] \in File
  OBVIOUS
<1>2. New(fs, t) = [i \in 1..Len(fs) |-> Step(fs[i], t)]
  BY <1>1 DEF New
<1>3. \A i \in 1..Len(fs) : Step(fs[i], t) \in OneStep /\ Step(fs[i], t).file = fs[i]
                            /\ Step(fs[i], t).to = t
  BY <1>1 DEF Step, OneStep
<1>4. New(fs, t) \in Seq(OneStep)
  BY <1>1, <1>2, <1>3, IsASeq
<1>5. QED
  BY <1>1, <1>2, <1>3, <1>4 DEF Touched, Elements

LEMMA BackSteps ==
  ASSUME NEW fs \in Seq(File), snap \in Image
  PROVE  /\ Back(fs) \in Seq(OneStep) /\ Touched(Back(fs)) = Elements(fs)
         /\ \A i \in DOMAIN Back(fs) : Back(fs)[i].to = snap[Back(fs)[i].file]
<1>1. Len(fs) \in Nat /\ DOMAIN fs = 1..Len(fs) /\ \A i \in 1..Len(fs) : fs[i] \in File
  OBVIOUS
<1>2. Back(fs) = [i \in 1..Len(fs) |-> Step(fs[i], snap[fs[i]])]
  BY <1>1 DEF Back
<1>3. \A i \in 1..Len(fs) : /\ Step(fs[i], snap[fs[i]]) \in OneStep
                            /\ Step(fs[i], snap[fs[i]]).file = fs[i]
                            /\ Step(fs[i], snap[fs[i]]).to = snap[fs[i]]
  BY <1>1 DEF Step, OneStep, Image
<1>4. Back(fs) \in Seq(OneStep)
  BY <1>1, <1>2, <1>3, IsASeq
<1>5. QED
  BY <1>1, <1>2, <1>3, <1>4 DEF Touched, Elements

LEMMA OrderedSteps ==
  ASSUME NEW fs \in Seq(File), NEW image \in Image
  PROVE  LET s == [i \in DOMAIN fs |-> Step(fs[i], image[fs[i]])]
         IN  /\ s \in Seq(OneStep) /\ Touched(s) = Elements(fs)
             /\ \A i \in DOMAIN s : s[i].to = image[s[i].file]
<1> DEFINE s == [i \in DOMAIN fs |-> Step(fs[i], image[fs[i]])]
<1>1. Len(fs) \in Nat /\ DOMAIN fs = 1..Len(fs) /\ \A i \in 1..Len(fs) : fs[i] \in File
  OBVIOUS
<1>2. s = [i \in 1..Len(fs) |-> Step(fs[i], image[fs[i]])]
  BY <1>1
<1>3. \A i \in 1..Len(fs) : /\ Step(fs[i], image[fs[i]]) \in OneStep
                            /\ Step(fs[i], image[fs[i]]).file = fs[i]
                            /\ Step(fs[i], image[fs[i]]).to = image[fs[i]]
  BY <1>1 DEF Step, OneStep, Image
<1>4. s \in Seq(OneStep)
  BY <1>1, <1>2, <1>3, IsASeq
<1> HIDE DEF s
<1>5. /\ s \in Seq(OneStep) /\ Touched(s) = Elements(fs)
      /\ \A i \in DOMAIN s : s[i].to = image[s[i].file]
  BY <1>1, <1>2, <1>3, <1>4 DEF Touched, Elements
<1>6. QED
  BY <1>5 DEF s

LEMMA Joined ==
  ASSUME NEW s \in Seq(OneStep), NEW u \in Seq(OneStep)
  PROVE  /\ s \o u \in Seq(OneStep) /\ Touched(s \o u) = Touched(s) \cup Touched(u)
         /\ \A i \in DOMAIN (s \o u) : \/ (\E j \in DOMAIN s : (s \o u)[i] = s[j])
                                       \/ (\E j \in DOMAIN u : (s \o u)[i] = u[j])
<1>1. /\ s \o u \in Seq(OneStep) /\ Len(s \o u) = Len(s) + Len(u)
      /\ \A i \in 1..Len(s) + Len(u) :
           (s \o u)[i] = IF i <= Len(s) THEN s[i] ELSE u[i - Len(s)]
  BY ConcatProperties
<1>2. Len(s) \in Nat /\ Len(u) \in Nat /\ DOMAIN s = 1..Len(s) /\ DOMAIN u = 1..Len(u)
      /\ DOMAIN (s \o u) = 1..Len(s) + Len(u)
  BY <1>1
<1>3. \A i \in 1..Len(s) : i \in 1..Len(s) + Len(u) /\ (s \o u)[i] = s[i]
  BY <1>1, <1>2
<1>4. \A i \in 1..Len(u) : /\ Len(s) + i \in 1..Len(s) + Len(u)
                           /\ (s \o u)[Len(s) + i] = u[i]
  BY <1>1, <1>2
<1>5. \A i \in 1..Len(s) + Len(u) : \/ i \in 1..Len(s) /\ (s \o u)[i] = s[i]
                                    \/ i - Len(s) \in 1..Len(u) /\ (s \o u)[i] = u[i - Len(s)]
  BY <1>1, <1>2
<1>6. Touched(s \o u) \subseteq Touched(s) \cup Touched(u)
  BY <1>2, <1>5 DEF Touched
<1>7. Touched(s) \subseteq Touched(s \o u)
  BY <1>2, <1>3 DEF Touched
<1>8. Touched(u) \subseteq Touched(s \o u)
  BY <1>2, <1>4 DEF Touched
<1>9. \A i \in DOMAIN (s \o u) : \/ (\E j \in DOMAIN s : (s \o u)[i] = s[j])
                                  \/ (\E j \in DOMAIN u : (s \o u)[i] = u[j])
  <2> TAKE i \in DOMAIN (s \o u)
  <2>1. i \in 1..Len(s) + Len(u)
    BY <1>2
  <2>2. CASE i \in 1..Len(s) /\ (s \o u)[i] = s[i]
    BY <1>2, <2>2
  <2>3. CASE i - Len(s) \in 1..Len(u) /\ (s \o u)[i] = u[i - Len(s)]
    <3> DEFINE k == i - Len(s)
    <3>1. k \in DOMAIN u /\ (s \o u)[i] = u[k]
      BY <1>2, <2>3
    <3> HIDE DEF k
    <3>2. \E j \in DOMAIN u : (s \o u)[i] = u[j]
      BY <3>1
    <3> QED
      BY <3>2
  <2> QED
    BY <1>5, <2>1, <2>2, <2>3
<1>10. Touched(s \o u) = Touched(s) \cup Touched(u)
  BY <1>6, <1>7, <1>8
<1>11. QED
  BY <1>1, <1>9, <1>10

LEMMA JoinedFiles ==
  ASSUME NEW fs \in Seq(File), NEW gs \in Seq(File)
  PROVE  fs \o gs \in Seq(File) /\ Elements(fs \o gs) = Elements(fs) \cup Elements(gs)
<1>1. /\ fs \o gs \in Seq(File) /\ Len(fs \o gs) = Len(fs) + Len(gs)
      /\ \A i \in 1..Len(fs) + Len(gs) :
           (fs \o gs)[i] = IF i <= Len(fs) THEN fs[i] ELSE gs[i - Len(fs)]
  BY ConcatProperties
<1>2. Len(fs) \in Nat /\ Len(gs) \in Nat /\ DOMAIN fs = 1..Len(fs) /\ DOMAIN gs = 1..Len(gs)
      /\ DOMAIN (fs \o gs) = 1..Len(fs) + Len(gs)
  BY <1>1
<1>3. \A i \in 1..Len(fs) : i \in 1..Len(fs) + Len(gs) /\ (fs \o gs)[i] = fs[i]
  BY <1>1, <1>2
<1>4. \A i \in 1..Len(gs) : /\ Len(fs) + i \in 1..Len(fs) + Len(gs)
                            /\ (fs \o gs)[Len(fs) + i] = gs[i]
  BY <1>1, <1>2
<1>5. \A i \in 1..Len(fs) + Len(gs) : \/ i \in 1..Len(fs) /\ (fs \o gs)[i] = fs[i]
                                      \/ /\ i - Len(fs) \in 1..Len(gs)
                                         /\ (fs \o gs)[i] = gs[i - Len(fs)]
  BY <1>1, <1>2
<1>6. Elements(fs \o gs) \subseteq Elements(fs) \cup Elements(gs)
  BY <1>2, <1>5 DEF Elements
<1>7. Elements(fs) \subseteq Elements(fs \o gs)
  BY <1>2, <1>3 DEF Elements
<1>8. Elements(gs) \subseteq Elements(fs \o gs)
  BY <1>2, <1>4 DEF Elements
<1>9. Elements(fs \o gs) = Elements(fs) \cup Elements(gs)
  BY <1>6, <1>7, <1>8
<1> QED
  BY <1>1, <1>9

\* What the commands write, and what undoing them writes.
LEMMA GoneSteps ==
  ASSUME NEW fs \in Seq(File)
  PROVE  /\ Gone(fs) \in Seq(OneStep) /\ Touched(Gone(fs)) = Elements(fs)
         /\ \A i \in DOMAIN Gone(fs) : Gone(fs)[i].to = Absent
  BY NewSteps DEF Gone, Version

LEMMA SingleStep ==
  ASSUME NEW f \in File, NEW v \in Version
  PROVE  /\ <<Step(f, v)>> \in Seq(OneStep) /\ Touched(<<Step(f, v)>>) = {f}
         /\ \A i \in DOMAIN <<Step(f, v)>> : <<Step(f, v)>>[i] = Step(f, v)
  BY DEF Step, OneStep, Touched

\* The steps s lead every file to what it is in image, and touch all of fs.
Leads(s, fs, image) ==
  /\ s \in Seq(OneStep) /\ Touched(s) = fs
  /\ \A i \in DOMAIN s : s[i].to = image[s[i].file]

SelfFiles == {"vpskit", "singbox", "cores", "versions", "units", "config", "secrets",
              "exports", "state", "ownership"}
CoreFiles(replaces) ==
  (IF replaces THEN {"singbox"} ELSE {}) \cup {"state", "ownership", "versions"}
CertFiles == {"cert", "key", "acme"}

LEMMA SelfWrites ==
  ASSUME NEW t \in TxId
  PROVE  Self(t) \in Seq(OneStep) /\ Touched(Self(t)) = SelfFiles
<1> LET fs == <<"vpskit", "singbox", "cores", "versions", "units", "config", "exports",
                "secrets", "state", "ownership">>
    IN  fs \in Seq(File) /\ Elements(fs) = SelfFiles
  BY DEF File, StateRoot, Elements, SelfFiles
<1> QED
  BY NewSteps DEF Self, Version

LEMMA SelfReturns ==
  ASSUME snap \in Image
  PROVE  Leads(UndoSelf, SelfFiles, snap)
<1> LET fs == <<"vpskit", "singbox", "cores", "versions", "units", "config", "secrets",
                "exports", "state", "ownership">>
    IN  fs \in Seq(File) /\ Elements(fs) = SelfFiles
  BY DEF File, StateRoot, Elements, SelfFiles
<1> QED
  BY BackSteps DEF UndoSelf, Leads

\* The core's binary, where it is replaced.
Replaced(replaces) == IF replaces THEN <<"singbox">> ELSE <<>>

LEMMA ReplacedFiles ==
  ASSUME NEW replaces \in BOOLEAN
  PROVE  /\ Replaced(replaces) \in Seq(File)
         /\ Elements(Replaced(replaces)) = IF replaces THEN {"singbox"} ELSE {}
<1>1. <<"singbox">> \in Seq(File) /\ Elements(<<"singbox">>) = {"singbox"}
  BY DEF File, Elements
<1>2. <<>> \in Seq(File) /\ Elements(<<>>) = {}
  BY DEF Elements
<1> QED
  BY <1>1, <1>2 DEF Replaced

LEMMA CoreWrites ==
  ASSUME NEW t \in TxId, NEW replaces \in BOOLEAN
  PROVE  Core(t, replaces) \in Seq(OneStep) /\ Touched(Core(t, replaces)) = CoreFiles(replaces)
<1> DEFINE rest == <<"versions", "state", "ownership">>
<1>1. rest \in Seq(File) /\ Elements(rest) = {"versions", "state", "ownership"}
  BY DEF File, StateRoot, Elements
<1>2. Core(t, replaces) = New(Replaced(replaces) \o rest, t)
  BY DEF Core, Replaced
<1> HIDE DEF rest
<1>3. /\ Replaced(replaces) \o rest \in Seq(File)
      /\ Elements(Replaced(replaces) \o rest) = CoreFiles(replaces)
  BY <1>1, ReplacedFiles, JoinedFiles DEF CoreFiles
<1> QED
  BY <1>2, <1>3, NewSteps DEF Version

LEMMA CoreReturns ==
  ASSUME NEW image \in Image, NEW replaces \in BOOLEAN
  PROVE  Leads(UndoCore(image, replaces), CoreFiles(replaces), image)
<1> DEFINE rest == <<"state", "ownership", "versions">>
           fs == Replaced(replaces) \o rest
<1>1. rest \in Seq(File) /\ Elements(rest) = {"versions", "state", "ownership"}
  BY DEF File, StateRoot, Elements
<1>2. UndoCore(image, replaces) = [i \in DOMAIN fs |-> Step(fs[i], image[fs[i]])]
  BY DEF UndoCore, Replaced
<1> HIDE DEF rest
<1>3. fs \in Seq(File) /\ Elements(fs) = CoreFiles(replaces)
  BY <1>1, ReplacedFiles, JoinedFiles DEF CoreFiles
<1> HIDE DEF fs
<1> QED
  BY <1>2, <1>3, OrderedSteps DEF Leads

LEMMA CertificateFiles ==
  /\ <<"cert", "key">> \in Seq(File) /\ Elements(<<"cert", "key">>) = {"cert", "key"}
  /\ <<"acme">> \in Seq(File) /\ Elements(<<"acme">>) = {"acme"}
  BY DEF File, StateRoot, Elements

LEMMA CertWrites ==
  ASSUME NEW t \in TxId
  PROVE  Cert(t) \in Seq(OneStep) /\ Touched(Cert(t)) = CertFiles
<1>1. LET s == New(<<"cert", "key">>, t)
      IN  s \in Seq(OneStep) /\ Touched(s) = {"cert", "key"}
  BY CertificateFiles, NewSteps DEF Version
<1>2. LET s == New(<<"acme">>, t)
      IN  s \in Seq(OneStep) /\ Touched(s) = {"acme"}
  BY CertificateFiles, NewSteps DEF Version
<1>3. Gone(<<"acme">>) \in Seq(OneStep) /\ Touched(Gone(<<"acme">>)) = {"acme"}
  BY CertificateFiles, GoneSteps
<1>4. /\ New(<<"cert", "key">>, t) \o Gone(<<"acme">>) \in Seq(OneStep)
      /\ Touched(New(<<"cert", "key">>, t) \o Gone(<<"acme">>)) = CertFiles
  BY <1>1, <1>3, Joined DEF CertFiles
<1> QED
  BY <1>2, <1>4, Joined DEF Cert, CertFiles

\* The lego tree is put back only where it was moved away.
LEMMA CertReturns ==
  ASSUME snap \in Image, NEW d \in Image
  PROVE  Leads(UndoCert(d),
               {"cert", "key"} \cup (IF d["acme"] # snap["acme"] THEN {"acme"} ELSE {}), snap)
<1>1. CASE d["acme"] # snap["acme"]
  <2>1. UndoCert(d) = Back(<<"cert", "key">> \o <<"acme">>)
    BY <1>1 DEF UndoCert
  <2>2. /\ <<"cert", "key">> \o <<"acme">> \in Seq(File)
        /\ Elements(<<"cert", "key">> \o <<"acme">>) = {"cert", "key"} \cup {"acme"}
    BY CertificateFiles, JoinedFiles
  <2> QED
    BY <1>1, <2>1, <2>2, BackSteps DEF Leads
<1>2. CASE d["acme"] = snap["acme"]
  <2>1. UndoCert(d) = Back(<<"cert", "key">> \o <<>>)
    BY <1>2 DEF UndoCert
  <2>2. <<"cert", "key">> \o <<>> = <<"cert", "key">>
    BY CertificateFiles, ConcatEmptySeq
  <2>3. Leads(Back(<<"cert", "key">>), {"cert", "key"}, snap)
    BY CertificateFiles, BackSteps DEF Leads
  <2> QED
    BY <1>2, <2>1, <2>2, <2>3
<1> QED
  BY <1>1, <1>2

InstallFiles == File \ {"user"}

LEMMA InstallSteps ==
  ASSUME NEW t \in TxId, disk \in Image
  PROVE  /\ Install(t) \in Seq(OneStep) /\ InstallReality(t) \in Seq(OneStep)
         /\ \A i \in DOMAIN Install(t) :
              Install(t)[i].file = "user" /\ disk["user"] # Absent
                => Install(t)[i].to = disk["user"]
         /\ \A i \in DOMAIN InstallReality(t) :
              InstallReality(t)[i].file = "user" /\ disk["user"] # Absent
                => InstallReality(t)[i].to = disk["user"]
<1> DEFINE v == IF disk["user"] # Absent THEN disk["user"] ELSE t
           Fine(s) == /\ s \in Seq(OneStep)
                      /\ \A i \in DOMAIN s : s[i].file = "user" /\ disk["user"] # Absent
                                            => s[i].to = disk["user"]
<1>1. ASSUME NEW s, NEW u, Fine(s), Fine(u)
      PROVE  Fine(s \o u)
  BY <1>1, Joined
<1>2. ASSUME NEW fs \in Seq(File), "user" \notin Elements(fs), NEW w \in Version
      PROVE  Fine(New(fs, w))
  <2>1. New(fs, w) \in Seq(OneStep) /\ "user" \notin Touched(New(fs, w))
    BY <1>2, NewSteps
  <2> QED
    BY <2>1 DEF Touched
<1>3. Fine(<<Step("user", v)>>)
  <2>1. v \in Version /\ (disk["user"] # Absent => v = disk["user"])
    BY DEF Version, Image, File
  <2>2. "user" \in File
    BY DEF File
  <2> HIDE DEF v
  <2>3. <<Step("user", v)>> \in Seq(OneStep)
    BY <2>1, <2>2, SingleStep
  <2>4. \A i \in DOMAIN <<Step("user", v)>> : <<Step("user", v)>>[i] = Step("user", v)
    BY <2>1, <2>2, SingleStep
  <2> QED
    BY <2>1, <2>3, <2>4 DEF Step
<1>4. t \in Version /\ Absent \in Version
  BY DEF Version
<1> HIDE DEF v, Fine
<1> DEFINE first == <<"vpskit", "singbox", "cores", "versions", "cert", "key">>
           rest  == <<"acme", "config", "exports", "secrets", "env", "state", "ownership", "units">>
           plain == <<"vpskit", "singbox", "cores", "versions", "config", "exports", "secrets",
                      "state", "ownership", "units">>
<1>5. /\ first \in Seq(File) /\ "user" \notin Elements(first)
      /\ rest \in Seq(File) /\ "user" \notin Elements(rest)
      /\ plain \in Seq(File) /\ "user" \notin Elements(plain)
      /\ <<"acme">> \in Seq(File) /\ "user" \notin Elements(<<"acme">>)
  BY DEF File, StateRoot, Elements
<1>6. Install(t) = <<Step("user", v)>> \o New(first, t) \o New(<<"acme">>, Absent) \o New(rest, t)
  BY DEF Install, Gone, v
<1>7. InstallReality(t) = <<Step("user", v)>> \o New(plain, t)
  BY DEF InstallReality, v
<1> HIDE DEF first, rest, plain
<1>8. /\ Fine(New(first, t)) /\ Fine(New(<<"acme">>, Absent)) /\ Fine(New(rest, t))
      /\ Fine(New(plain, t))
  BY <1>2, <1>4, <1>5
<1>9. Fine(Install(t))
  BY <1>1, <1>3, <1>6, <1>8
<1>10. Fine(InstallReality(t))
  BY <1>1, <1>3, <1>7, <1>8
<1> QED
  BY <1>9, <1>10 DEF Fine

\* What a failed first installation is taken back to, and in which files.
InstallScope == InstallFiles \cup (IF snap["user"] = Absent THEN {"user"} ELSE {})
Bare == [Empty EXCEPT !["user"] = snap["user"]]

LEMMA UndoInstallSteps ==
  ASSUME NEW p, snap \in Image
  PROVE  Leads(UndoInstall(p), InstallScope, Bare)
<1> DEFINE owned == <<"units", "vpskit", "config", "exports", "versions", "singbox", "cores",
                      "secrets", "env", "cert", "key", "acme", "state", "ownership">>
           last == IF snap["user"] = Absent THEN <<"user">> ELSE <<>>
<1>1. owned \in Seq(File) /\ Elements(owned) = InstallFiles
  BY DEF File, StateRoot, Elements, InstallFiles
<1>2. last \in Seq(File) /\ Elements(last) = IF snap["user"] = Absent THEN {"user"} ELSE {}
  <2>1. <<"user">> \in Seq(File) /\ Elements(<<"user">>) = {"user"}
    BY DEF File, Elements
  <2>2. <<>> \in Seq(File) /\ Elements(<<>>) = {}
    BY DEF Elements
  <2> QED
    BY <2>1, <2>2
<1>3. UndoInstall(p) = Gone(owned \o last)
  BY DEF UndoInstall
<1> HIDE DEF owned, last
<1>4. owned \o last \in Seq(File)
      /\ Elements(owned \o last) = InstallScope
  BY <1>1, <1>2, JoinedFiles DEF InstallScope
<1>5. \A f \in InstallScope : Bare[f] = Absent
  BY DEF InstallScope, Bare, Empty, InstallFiles, File
<1>6. Gone(owned \o last) \in Seq(OneStep) /\ Touched(Gone(owned \o last)) = Elements(owned \o last)
      /\ \A i \in DOMAIN Gone(owned \o last) : Gone(owned \o last)[i].to = Absent
  BY <1>4, GoneSteps
<1>7. \A i \in DOMAIN Gone(owned \o last) :
        Gone(owned \o last)[i].file \in Touched(Gone(owned \o last))
  BY DEF Touched
<1> QED
  BY <1>3, <1>4, <1>5, <1>6, <1>7 DEF Leads

LEMMA RestoreSteps ==
  ASSUME NEW image \in Image
  PROVE  Restore(image) \in Seq(OneStep)
<1> DEFINE order == <<"singbox", "vpskit", "cores", "cert", "key", "exports", "config", "secrets",
                      "units", "versions", "acme", "state", "ownership">>
<1>1. order \in Seq(File)
  BY DEF File, StateRoot
<1>2. Restore(image) = [i \in DOMAIN order |-> Step(order[i], image[order[i]])]
  BY DEF Restore
<1> HIDE DEF order
<1> QED
  BY <1>1, <1>2, OrderedSteps

\* What a removal takes away in sequence.
Owned(keepCert) == InstallFiles \ (IF keepCert THEN {"cert", "key"} ELSE {})

LEMMA UninstallSteps ==
  ASSUME NEW keepCert \in BOOLEAN
  PROVE  /\ Uninstall(keepCert) \in Seq(OneStep) /\ Touched(Uninstall(keepCert)) = Owned(keepCert)
         /\ \A i \in DOMAIN Uninstall(keepCert) : Uninstall(keepCert)[i].to = Absent
<1> DEFINE first == <<"vpskit", "singbox", "cores", "versions", "units", "config">>
           mine  == IF keepCert THEN <<>> ELSE <<"cert", "key">>
           rest  == <<"state", "ownership", "secrets", "env", "acme", "exports">>
<1>1. first \in Seq(File)
      /\ Elements(first) = {"vpskit", "singbox", "cores", "versions", "units", "config"}
  BY DEF File, StateRoot, Elements
<1>2. rest \in Seq(File)
      /\ Elements(rest) = {"state", "ownership", "secrets", "env", "acme", "exports"}
  BY DEF File, StateRoot, Elements
<1>3. mine \in Seq(File) /\ Elements(mine) = IF keepCert THEN {} ELSE {"cert", "key"}
  <2>1. <<>> \in Seq(File) /\ Elements(<<>>) = {}
    BY DEF Elements
  <2> QED
    BY <2>1, CertificateFiles
<1>4. Uninstall(keepCert) = Gone(first \o mine \o rest)
  BY DEF Uninstall
<1> HIDE DEF first, mine, rest
<1>5. first \o mine \in Seq(File) /\ Elements(first \o mine) = Elements(first) \cup Elements(mine)
  BY <1>1, <1>3, JoinedFiles
<1>6. /\ first \o mine \o rest \in Seq(File)
      /\ Elements(first \o mine \o rest) = Elements(first) \cup Elements(mine) \cup Elements(rest)
  BY <1>2, <1>5, JoinedFiles
<1>7. Elements(first) \cup Elements(mine) \cup Elements(rest) = Owned(keepCert)
  BY <1>1, <1>2, <1>3 DEF Owned, InstallFiles, File, StateRoot
<1> QED
  BY <1>4, <1>6, <1>7, GoneSteps

LEMMA ForwardSteps ==
  ASSUME disk \in Image, NEW p \in Cli, job[p] \in Job, job[p].cmd \in Changes, NEW t \in TxId
  PROVE  Forward(p, t) \in Seq(OneStep)
<1>1. CASE job[p].cmd \in Installs
  BY <1>1, InstallSteps DEF Forward, Installs
<1>2. CASE job[p].cmd = "self"
  <2>1. Self(t) \in Seq(OneStep)
    BY SelfWrites
  <2> QED
    BY <1>2, <2>1 DEF Forward
<1>3. CASE job[p].cmd = "core"
  <2>1. Core(t, job[p].replaces) \in Seq(OneStep)
    BY CoreWrites DEF Job
  <2> QED
    BY <1>3, <2>1 DEF Forward
<1>4. CASE job[p].cmd = "cert"
  BY <1>4, CertWrites DEF Forward
<1> QED
  BY <1>1, <1>2, <1>3, <1>4 DEF Changes

LEMMA UndoTyped ==
  ASSUME snap \in Image, NEW d \in Image, NEW p \in Cli, job[p] \in Job,
         job[p].cmd \in Changes \cup {"recover"}
  PROVE  Undo(p, d) \in Seq(OneStep)
<1>1. CASE job[p].cmd \in Installs
  <2>1. Undo(p, d) = UndoInstall(p)
    BY <1>1 DEF Undo, Installs
  <2> QED
    BY <2>1, UndoInstallSteps DEF Leads
<1>2. CASE job[p].cmd = "self"
  BY <1>2, SelfReturns DEF Undo, Leads, Installs
<1>3. CASE job[p].cmd = "core"
  <2>1. Leads(UndoCore(snap, job[p].replaces), CoreFiles(job[p].replaces), snap)
    BY CoreReturns DEF Job
  <2> QED
    BY <1>3, <2>1 DEF Undo, Leads, Installs
<1>4. CASE job[p].cmd = "cert"
  BY <1>4, CertReturns DEF Undo, Leads, Installs
<1>5. CASE job[p].cmd = "recover"
  BY <1>5, RestoreSteps DEF Undo, Installs
<1> QED
  BY <1>1, <1>2, <1>3, <1>4, <1>5 DEF Changes

-----------------------------------------------------------------------------
(* Types.                                                                  *)

LEMMA Goes ==
  ASSUME JobsTyped, NEW p \in Cli, NEW l \in Label, Goto(p, l)
  PROVE  pc' \in [Cli -> Label] /\ pc'[p] = l /\ \A q \in Cli \ {p} : pc'[q] = pc[q]
  BY DEF JobsTyped, Goto

LEMMA Exits ==
  ASSUME JobsTyped, NEW p \in Cli, Exit(p)
  PROVE  /\ JobsTyped' /\ pc'[p] = "idle" /\ job'[p] = NoJob
         /\ \A q \in Cli \ {p} : pc'[q] = pc[q] /\ job'[q] = job[q]
<1>1. NoJob \in Job
  BY DEF NoJob, Job, Command, Installs, Version
<1> HIDE DEF NoJob, Job
<1> QED
  BY <1>1 DEF JobsTyped, Exit, Goto, Label

LEMMA Releases ==
  ASSUME HeldTyped, NEW p \in Cli, Release(p)
  PROVE  /\ HeldTyped' /\ lock' # p /\ \A q \in Cli \ {p} : (lock' = q) = (lock = q)
         /\ lock = p => lock' = NoCli
         /\ lock # p => UNCHANGED <<lock, todo, snap>>
<1>1. Empty \in Image
  BY DEF Empty, Image, Version
<1>2. <<>> \in Seq(OneStep)
  OBVIOUS
<1>3. NoCli \notin Cli
  BY HostAssumption
<1> QED
  BY <1>1, <1>2, <1>3 DEF Release, HeldTyped

\* A record in the table of invocations is replaced by another one.
LEMMA Replaces ==
  ASSUME JobsTyped, NEW p \in Cli, NEW j \in Job, job' = [job EXCEPT ![p] = j]
  PROVE  job' \in [Cli -> Job] /\ job'[p] = j /\ \A q \in Cli \ {p} : job'[q] = job[q]
<1> HIDE DEF Job
<1> QED
  BY DEF JobsTyped

\* Noting an undo step that failed, or a restart, leaves the rest of the record.
LEMMA Notes ==
  ASSUME JobsTyped, NEW p \in Cli, NEW b \in BOOLEAN,
         job' = [job EXCEPT ![p].bad = b] \/ job' = [job EXCEPT ![p].restarted = b]
  PROVE  /\ job' \in [Cli -> Job] /\ \A q \in Cli \ {p} : job'[q] = job[q]
         /\ job'[p].cmd = job[p].cmd /\ job'[p].tx = job[p].tx /\ job'[p].target = job[p].target
<1>1. job[p] \in Job
  BY DEF JobsTyped
<1>2. CASE job' = [job EXCEPT ![p].bad = b]
  <2> DEFINE j == [job[p] EXCEPT !.bad = b]
  <2>1. job' = [job EXCEPT ![p] = j]
    BY <1>2
  <2>2. j \in Job /\ j.cmd = job[p].cmd /\ j.tx = job[p].tx /\ j.target = job[p].target
    BY <1>1 DEF Job
  <2> HIDE DEF j
  <2> QED
    BY <2>1, <2>2, Replaces
<1>3. CASE job' = [job EXCEPT ![p].restarted = b]
  <2> DEFINE j == [job[p] EXCEPT !.restarted = b]
  <2>1. job' = [job EXCEPT ![p] = j]
    BY <1>3
  <2>2. j \in Job /\ j.cmd = job[p].cmd /\ j.tx = job[p].tx /\ j.target = job[p].target
    BY <1>1 DEF Job
  <2> HIDE DEF j
  <2> QED
    BY <2>1, <2>2, Replaces
<1> QED
  BY <1>2, <1>3

\* One invocation moves; the lock is not taken from another.
LEMMA OneMoves ==
  ASSUME Holding, Working, NEW p \in Cli,
         \A q \in Cli \ {p} : pc'[q] = pc[q] /\ job'[q] = job[q],
         \A q \in Cli \ {p} : (lock' = q) = (lock = q),
         pc'[p] \in Locked => lock' = p,
         lock' = p => pc'[p] \in Locked \cup {"user"},
         WorkingAt(p)'
  PROVE  Holding' /\ Working'
<1>1. \A q \in Cli \ {p} : WorkingAt(q)'
  BY DEF Working, WorkingAt
<1> QED
  BY <1>1 DEF Holding, Working

LEMMA TypedInit == Init => Typed
<1> SUFFICES ASSUME Init PROVE Typed
  OBVIOUS
<1>1. 1 \in TxId
  BY HostAssumption DEF TxId
<1>2. disk \in Image /\ Empty \in Image
  BY <1>1 DEF Init, Empty, Image, Version, Absent
<1>3. NoRecord \in Record /\ [NoRecord EXCEPT !.status = "COMMITTED", !.cmd = "install"] \in Record
  BY DEF NoRecord, Record, Status, Command, Installs
<1>4. NoJob \in Job
  BY DEF NoJob, Job, Command, Installs, Version
<1>5. running \in [Serving -> Version]
  BY <1>2 DEF Init, Serve, Serving, Image, File, StateRoot
<1> HIDE DEF Empty, Image, NoRecord, Record, Job
<1>6. FilesTyped
  BY <1>2, <1>3, <1>5 DEF Init, FilesTyped
<1>7. HeldTyped
  BY <1>2 DEF Init, HeldTyped
<1>8. JobsTyped
  BY <1>4 DEF Init, JobsTyped, Label
<1>9. Holding /\ Working
  BY HostAssumption DEF Init, Holding, Working, WorkingAt, Locked, NoJob, Changes, Installs
<1> QED
  BY <1>6, <1>7, <1>8, <1>9 DEF Typed

\* Beginning.
LEMMA TypedBeginnings ==
  ASSUME Typed, NEW p \in Cli,
         \/ StartRecovery(p) \/ \E c \in Command : StartCommand(p, c)
         \/ Busy(p) \/ Refuse(p) \/ RecoveryRefused(p)
  PROVE  Typed'
<1> USE DEF Typed
<1>1. CASE StartRecovery(p)
  <2>1. PICK t \in TxId : job' = [job EXCEPT ![p].cmd = "recover", ![p].target = t]
    BY <1>1 DEF StartRecovery
  <2>2. job' \in [Cli -> Job] /\ job'[p].cmd = "recover" /\ job'[p].target = t
        /\ \A q \in Cli \ {p} : job'[q] = job[q]
    <3> DEFINE j == [job[p] EXCEPT !.cmd = "recover", !.target = t]
    <3>1. job' = [job EXCEPT ![p] = j]
      BY <2>1
    <3>2. j \in Job /\ j.cmd = "recover" /\ j.target = t
      BY DEF JobsTyped, Job, Command, Version
    <3> HIDE DEF j
    <3> QED
      BY <3>1, <3>2 DEF JobsTyped
  <2>3. pc' \in [Cli -> Label] /\ pc'[p] = "wait" /\ \A q \in Cli \ {p} : pc'[q] = pc[q]
    BY <1>1, Goes DEF StartRecovery, Label
  <2>4. FilesTyped' /\ HeldTyped' /\ lock' = lock
    BY <1>1 DEF StartRecovery, FilesTyped, HeldTyped, files, held
  <2>5. WorkingAt(p)'
    BY <2>2, <2>3 DEF WorkingAt, Locked, Changes, Installs
  <2> QED
    BY <1>1, <2>2, <2>3, <2>4, <2>5, OneMoves DEF JobsTyped, Holding, Locked, StartRecovery
<1>2. ASSUME NEW c \in Command, StartCommand(p, c)
      PROVE  Typed'
  <2> DEFINE base == disk["state"]
  <2>1. PICK r \in BOOLEAN :
          job' = [job EXCEPT ![p].cmd = c, ![p].base = base, ![p].replaces = r]
    BY <1>2 DEF StartCommand
  <2>2. base \in Version
    BY DEF FilesTyped, Image, File, StateRoot
  <2> HIDE DEF base
  <2>3. job' \in [Cli -> Job] /\ job'[p].cmd = c /\ \A q \in Cli \ {p} : job'[q] = job[q]
    <3> DEFINE j == [job[p] EXCEPT !.cmd = c, !.base = base, !.replaces = r]
    <3>1. job' = [job EXCEPT ![p] = j]
      BY <2>1
    <3>2. j \in Job /\ j.cmd = c
      BY <2>2 DEF JobsTyped, Job
    <3> HIDE DEF j
    <3> QED
      BY <3>1, <3>2 DEF JobsTyped
  <2>4. pc' \in [Cli -> Label] /\ pc'[p] = "wait" /\ \A q \in Cli \ {p} : pc'[q] = pc[q]
    BY <1>2, Goes DEF StartCommand, Label
  <2>5. FilesTyped' /\ HeldTyped' /\ lock' = lock
    BY <1>2 DEF StartCommand, FilesTyped, HeldTyped, files, held
  <2>6. c # "recover" /\ c # "none"
    BY <1>2 DEF StartCommand, Command, Installs
  <2>7. WorkingAt(p)'
    BY <2>3, <2>4, <2>6 DEF WorkingAt, Locked
  <2> QED
    BY <1>2, <2>3, <2>4, <2>5, <2>7, OneMoves DEF JobsTyped, Holding, Locked, StartCommand
<1>3. CASE Busy(p) \/ Refuse(p) \/ RecoveryRefused(p)
  <2>1. Exit(p) /\ UNCHANGED <<files, held>> /\ pc[p] = "wait"
    BY <1>3 DEF Busy, Refuse, RecoveryRefused
  <2>2. FilesTyped' /\ HeldTyped' /\ lock' = lock
    BY <2>1 DEF FilesTyped, HeldTyped, files, held
  <2>3. WorkingAt(p)'
    BY <2>1, Exits DEF WorkingAt, NoJob, Locked, Changes, Installs
  <2> QED
    BY <2>1, <2>2, <2>3, Exits, OneMoves DEF Holding, Locked
<1> QED
  BY <1>1, <1>2, <1>3

LEMMA TypedBegin ==
  ASSUME Typed, NEW p \in Cli, Begin(p)
  PROVE  Typed'
<1> USE DEF Typed
<1> DEFINE t == nextTx
           base == IF job[p].cmd = "core" THEN disk["state"] ELSE job[p].base
<1>1. /\ pc[p] = "wait" /\ lock = NoCli /\ t \in TxId
      /\ lock' = p /\ snap' = disk /\ todo' = Forward(p, t)
      /\ names' = IF job[p].cmd = "cert" THEN names
                  ELSE [names EXCEPT ![t] = Rendered(p, base, t)]
      /\ journal' = [journal EXCEPT ![t] = Progress(job[p].cmd)]
      /\ bak' = [bak EXCEPT ![t] = IF job[p].cmd = "core" THEN disk ELSE Empty]
      /\ job' = [job EXCEPT ![p].tx = t, ![p].base = base]
      /\ Goto(p, "write") /\ UNCHANGED <<disk, running, untold>>
  BY DEF Begin
<1>2. job[p] \in Job /\ job[p].cmd \in Changes
  BY DEF Begin, JobsTyped, Job, Working, WorkingAt, Changes, Command
<1>3. base \in Version
  BY <1>2 DEF FilesTyped, Image, File, StateRoot, Job
<1> HIDE DEF t, base
<1>4. t \in Version
  BY <1>1 DEF Version
<1>5. Rendered(p, base, t) \in Image
  BY <1>3, <1>4 DEF Rendered, Image, FilesTyped, Version
<1>6. Progress(job[p].cmd) \in Record
  BY <1>2 DEF Progress, Record, NoRecord, Status, Command
<1>7. Empty \in Image
  BY DEF Empty, Image, Version
<1>8. FilesTyped'
  BY <1>1, <1>5, <1>6, <1>7 DEF FilesTyped
<1>9. HeldTyped'
  BY <1>1, <1>2, ForwardSteps, HostAssumption DEF HeldTyped, FilesTyped
<1>10. /\ job' \in [Cli -> Job] /\ job'[p].cmd = job[p].cmd /\ job'[p].tx = t
       /\ job'[p].target = job[p].target
       /\ \A q \in Cli \ {p} : job'[q] = job[q]
  <2> DEFINE j == [job[p] EXCEPT !.tx = t, !.base = base]
  <2>1. job' = [job EXCEPT ![p] = j]
    BY <1>1
  <2>2. j \in Job /\ j.cmd = job[p].cmd /\ j.tx = t /\ j.target = job[p].target
    BY <1>2, <1>3, <1>4 DEF Job
  <2> HIDE DEF j
  <2> QED
    BY <2>1, <2>2 DEF JobsTyped
<1>11. pc' \in [Cli -> Label] /\ pc'[p] = "write" /\ \A q \in Cli \ {p} : pc'[q] = pc[q]
  BY <1>1, Goes DEF Label
<1>12. WorkingAt(p)'
  BY <1>1, <1>2, <1>10, <1>11 DEF WorkingAt, Changes, Installs
<1> QED
  BY <1>1, <1>8, <1>9, <1>10, <1>11, <1>12, OneMoves, HostAssumption DEF JobsTyped, Locked

LEMMA TypedBeginRecovery ==
  ASSUME Typed, NEW p \in Cli, BeginRecovery(p)
  PROVE  Typed'
<1> USE DEF Typed
<1> DEFINE t == job[p].target
<1>1. /\ pc[p] = "wait" /\ job[p].cmd = "recover" /\ lock' = p /\ snap' = disk
      /\ UNCHANGED files
  BY DEF BeginRecovery
<1>2. t \in TxId /\ bak[t] \in Image
  BY <1>1 DEF Working, WorkingAt, FilesTyped
<1>3. FilesTyped'
  BY <1>1 DEF FilesTyped, files
<1>4. todo' \in Seq(OneStep)
  <2>1. (names[t]["singbox"] = t) \in BOOLEAN
    OBVIOUS
  <2>2. UndoCore(bak[t], names[t]["singbox"] = t) \in Seq(OneStep)
    BY <1>2, <2>1, CoreReturns DEF Leads
  <2>3. Restore(bak[t]) \in Seq(OneStep)
    BY <1>2, RestoreSteps
  <2> QED
    BY <2>2, <2>3 DEF BeginRecovery
<1>5. HeldTyped'
  BY <1>1, <1>4, HostAssumption DEF HeldTyped, FilesTyped
<1>6. /\ job' \in [Cli -> Job] /\ job'[p].cmd = "recover" /\ job'[p].target = t
      /\ \A q \in Cli \ {p} : job'[q] = job[q]
  <2> DEFINE j == [job[p] EXCEPT !.local = TRUE, !.restarted = TRUE]
  <2>1. job' = job \/ job' = [job EXCEPT ![p] = j]
    BY DEF BeginRecovery
  <2>2. j \in Job /\ j.cmd = job[p].cmd /\ j.target = job[p].target
    BY DEF JobsTyped, Job
  <2> HIDE DEF j
  <2>3. CASE job' = job
    BY <1>1, <2>3 DEF JobsTyped
  <2>4. CASE job' = [job EXCEPT ![p] = j]
    BY <1>1, <2>2, <2>4, Replaces
  <2> QED
    BY <2>1, <2>3, <2>4
<1>7. /\ pc' \in [Cli -> Label] /\ pc'[p] \in {"write", "local"}
      /\ \A q \in Cli \ {p} : pc'[q] = pc[q]
  <2>1. Goto(p, "write") \/ Goto(p, "local")
    BY DEF BeginRecovery
  <2> QED
    BY <2>1, Goes DEF Label
<1>8. WorkingAt(p)'
  BY <1>2, <1>6, <1>7 DEF WorkingAt, Changes, Installs
<1> QED
  BY <1>1, <1>3, <1>5, <1>6, <1>7, <1>8, OneMoves, HostAssumption
     DEF JobsTyped, BeginRecovery, Locked

LEMMA TypedBeginUninstall ==
  ASSUME Typed, NEW p \in Cli, BeginUninstall(p)
  PROVE  Typed'
<1> USE DEF Typed
<1>1. /\ pc[p] = "wait" /\ lock = NoCli /\ job[p].cmd = "uninstall" /\ lock' = p /\ snap' = disk
      /\ running' = Stopped /\ Goto(p, "write")
      /\ UNCHANGED <<disk, journal, bak, names, untold>>
  BY DEF BeginUninstall
<1>2. PICK keepCert \in BOOLEAN : /\ todo' = Uninstall(keepCert)
                                  /\ job' = [job EXCEPT ![p].keepCert = keepCert]
  BY DEF BeginUninstall
<1>3. Stopped \in [Serving -> Version]
  BY DEF Stopped, Serve, Empty, Serving, File, StateRoot, Version
<1>4. FilesTyped'
  BY <1>1, <1>3 DEF FilesTyped
<1>5. HeldTyped'
  BY <1>1, <1>2, UninstallSteps, HostAssumption DEF HeldTyped, FilesTyped
<1>6. /\ job' \in [Cli -> Job] /\ job'[p].cmd = "uninstall"
      /\ \A q \in Cli \ {p} : job'[q] = job[q]
  BY <1>1, <1>2 DEF JobsTyped, Job
<1>7. pc' \in [Cli -> Label] /\ pc'[p] = "write" /\ \A q \in Cli \ {p} : pc'[q] = pc[q]
  BY <1>1, Goes DEF Label
<1>8. WorkingAt(p)'
  BY <1>6, <1>7 DEF WorkingAt, Changes, Installs
<1> QED
  BY <1>1, <1>4, <1>5, <1>6, <1>7, <1>8, OneMoves, HostAssumption DEF JobsTyped, Locked

\* Writing.
LEMMA WrittenTyped ==
  ASSUME disk \in Image, NEW step \in OneStep
  PROVE  After(disk, step) \in Image
  BY DEF After, OneStep, Image

LEMMA HeadTail ==
  ASSUME todo \in Seq(OneStep), todo # <<>>
  PROVE  Head(todo) \in OneStep /\ Tail(todo) \in Seq(OneStep)
  OBVIOUS

\* What the services may be left with by a restart.
LEMMA ServedTyped ==
  ASSUME FilesTyped
  PROVE  {running, Stopped, Serve(disk)} \subseteq [Serving -> Version]
<1>1. Stopped \in [Serving -> Version]
  BY DEF Stopped, Serve, Empty, Serving, File, StateRoot, Version
<1>2. Serve(disk) \in [Serving -> Version]
  BY DEF Serve, Serving, File, StateRoot, FilesTyped, Image
<1> QED
  BY <1>1, <1>2 DEF FilesTyped

LEMMA TypedWrites ==
  ASSUME Typed, NEW p \in Cli, Write(p) \/ UndoStep(p)
  PROVE  Typed'
<1> USE DEF Typed
<1>1. /\ todo # <<>> /\ disk' = After(disk, Head(todo)) /\ todo' = Tail(todo)
      /\ UNCHANGED <<running, journal, bak, names, untold, lock, snap, pc, job>>
  BY DEF Write, UndoStep
<1>2. FilesTyped'
  BY <1>1, HeadTail, WrittenTyped DEF FilesTyped, HeldTyped
<1>3. HeldTyped'
  BY <1>1, HeadTail DEF HeldTyped
<1>4. JobsTyped' /\ Holding' /\ Working'
  BY <1>1 DEF JobsTyped, Holding, Working, WorkingAt
<1> QED
  BY <1>2, <1>3, <1>4

\* A rollback starts, whatever made it start.
LEMMA TypedAbandon ==
  ASSUME Typed, NEW p \in Cli, pc[p] \in {"write", "commit"}, job[p].cmd # "uninstall",
         FilesTyped', Abandon(p, disk'), UNCHANGED <<lock, snap>>,
         job' \in [Cli -> Job], \A q \in Cli \ {p} : job'[q] = job[q],
         \A k \in {"cmd", "tx", "target"} : job'[p][k] = job[p][k]
  PROVE  Typed'
<1> USE DEF Typed
<1>1. job[p] \in Job /\ job[p].cmd \in Changes \cup {"recover"}
  BY DEF JobsTyped, Job, Working, WorkingAt, Changes, Command
<1>2. lock = p
  BY DEF Holding, Locked
<1>3. todo' \in Seq(OneStep)
  BY <1>1, UndoTyped DEF Abandon, HeldTyped, FilesTyped
<1>4. HeldTyped'
  BY <1>2, <1>3, HostAssumption DEF HeldTyped
<1>5. /\ pc' \in [Cli -> Label] /\ pc'[p] \in {"stop", "undo"}
      /\ \A q \in Cli \ {p} : pc'[q] = pc[q]
  BY Goes DEF Abandon, Label
<1>6. WorkingAt(p)'
  BY <1>1, <1>5 DEF Working, WorkingAt, Locked
<1> QED
  BY <1>2, <1>4, <1>5, <1>6, OneMoves DEF JobsTyped, Locked

LEMMA TypedFailures ==
  ASSUME Typed, NEW p \in Cli, WriteFails(p) \/ RestartFails(p) \/ CommitFails(p)
  PROVE  Typed'
<1> USE DEF Typed
<1>1. CASE WriteFails(p)
  <2>1. disk' \in Image
    <3>1. disk' = disk \/ \E i \in DOMAIN todo : disk' = After(disk, todo[i])
      BY <1>1 DEF WriteFails
    <3>2. \A i \in DOMAIN todo : todo[i] \in OneStep
      BY DEF HeldTyped
    <3> QED
      BY <3>1, <3>2, WrittenTyped DEF FilesTyped
  <2>2. FilesTyped'
    BY <1>1, <2>1 DEF WriteFails, FilesTyped
  <2> QED
    BY <1>1, <2>2, TypedAbandon DEF WriteFails, JobsTyped
<1>2. CASE RestartFails(p)
  <2>1. FilesTyped'
    BY <1>2, ServedTyped DEF RestartFails, FilesTyped
  <2>2. /\ job' \in [Cli -> Job] /\ \A q \in Cli \ {p} : job'[q] = job[q]
        /\ \A k \in {"cmd", "tx", "target"} : job'[p][k] = job[p][k]
    <3>1. job' = [job EXCEPT ![p].restarted = TRUE]
      BY <1>2 DEF RestartFails, Attempted
    <3> QED
      BY <3>1, Notes
  <2>3. Abandon(p, disk') /\ UNCHANGED <<lock, snap>> /\ pc[p] = "write" /\ job[p].cmd # "uninstall"
    BY <1>2 DEF RestartFails
  <2> QED
    BY <2>1, <2>2, <2>3, TypedAbandon
<1>3. CASE CommitFails(p)
  <2>1. FilesTyped' /\ Abandon(p, disk') /\ UNCHANGED <<lock, snap, job>> /\ pc[p] = "commit"
    BY <1>3 DEF CommitFails, FilesTyped, files
  <2>2. job[p].cmd # "uninstall"
    BY <2>1 DEF Working, WorkingAt
  <2> QED
    BY <2>1, <2>2, TypedAbandon DEF JobsTyped
<1> QED
  BY <1>1, <1>2, <1>3

LEMMA TypedRestart ==
  ASSUME Typed, NEW p \in Cli, Restart(p)
  PROVE  Typed'
<1> USE DEF Typed
<1>1. FilesTyped'
  BY ServedTyped DEF Restart, FilesTyped
<1>2. HeldTyped' /\ lock' = lock
  BY DEF Restart, HeldTyped, held
<1>3. Restarts(p) \in BOOLEAN
  BY DEF Restarts, JobsTyped, Job
<1>4. /\ job' \in [Cli -> Job] /\ \A q \in Cli \ {p} : job'[q] = job[q]
      /\ job'[p].cmd = job[p].cmd /\ job'[p].tx = job[p].tx /\ job'[p].target = job[p].target
  BY <1>3, Notes DEF Restart
<1>5. pc' \in [Cli -> Label] /\ pc'[p] = "commit" /\ \A q \in Cli \ {p} : pc'[q] = pc[q]
  BY Goes DEF Restart, Label
<1>6. lock = p /\ pc[p] = "write" /\ job[p].cmd # "uninstall"
  BY DEF Restart, Holding, Locked
<1>7. WorkingAt(p)'
  BY <1>4, <1>5, <1>6 DEF Working, WorkingAt, Locked
<1> QED
  BY <1>1, <1>2, <1>4, <1>5, <1>6, <1>7, OneMoves DEF JobsTyped, Locked

LEMMA TypedStopServices ==
  ASSUME Typed, NEW p \in Cli, StopServices(p)
  PROVE  Typed'
<1> USE DEF Typed
<1>1. FilesTyped'
  <2>1. Stopped \in [Serving -> Version]
    BY ServedTyped
  <2>2. job[p].cmd \in Command
    BY DEF StopServices, JobsTyped, Job, Working, WorkingAt
  <2> QED
    BY <2>1, <2>2 DEF StopServices, FilesTyped
<1>2. HeldTyped' /\ UNCHANGED <<lock, job>> /\ pc[p] = "stop"
  BY DEF StopServices, HeldTyped, held
<1>3. pc' \in [Cli -> Label] /\ pc'[p] = "undo" /\ \A q \in Cli \ {p} : pc'[q] = pc[q]
  BY Goes DEF StopServices, Label
<1>4. WorkingAt(p)' /\ lock = p
  BY <1>2, <1>3 DEF Working, WorkingAt, Holding, Locked
<1> QED
  BY <1>1, <1>2, <1>3, <1>4, OneMoves DEF JobsTyped, Locked

LEMMA TypedUndoFails ==
  ASSUME Typed, NEW p \in Cli, UndoFails(p)
  PROVE  Typed'
<1> USE DEF Typed
<1>1. disk' \in Image
  <2>1. disk' = disk \/ disk' = After(disk, Head(todo)) \/ disk' = [disk EXCEPT !["acme"] = Absent]
    BY DEF UndoFails
  <2>2. todo # <<>>
    BY DEF UndoFails
  <2>3. disk \in Image /\ [disk EXCEPT !["acme"] = Absent] \in Image
    BY DEF FilesTyped, Image, Version
  <2> QED
    BY <2>1, <2>2, <2>3, HeadTail, WrittenTyped DEF HeldTyped
<1>2. job[p].cmd \in Command
  BY DEF UndoFails, JobsTyped, Job, Working, WorkingAt
<1>3. untold' \subseteq Command
  BY <1>2 DEF UndoFails, FilesTyped
<1>4. FilesTyped'
  BY <1>1, <1>3 DEF UndoFails, FilesTyped
<1>5. todo' \in Seq(OneStep)
  BY HeadTail DEF UndoFails, HeldTyped
<1>6. HeldTyped'
  BY <1>5 DEF UndoFails, HeldTyped
<1>7. /\ job' \in [Cli -> Job] /\ \A q \in Cli \ {p} : job'[q] = job[q]
      /\ job'[p].cmd = job[p].cmd /\ job'[p].tx = job[p].tx /\ job'[p].target = job[p].target
  <2>1. job' = job \/ job' = [job EXCEPT ![p].bad = TRUE]
    BY DEF UndoFails
  <2>2. CASE job' = job
    BY <2>2 DEF JobsTyped
  <2>3. CASE job' = [job EXCEPT ![p].bad = TRUE]
    BY <2>3, Notes
  <2> QED
    BY <2>1, <2>2, <2>3
<1>8. UNCHANGED <<lock, pc>>
  BY DEF UndoFails
<1>9. WorkingAt(p)'
  BY <1>7, <1>8 DEF Working, WorkingAt
<1>10. pc[p] \in Locked /\ lock = p
  BY DEF Holding, Locked, UndoFails
<1> QED
  BY <1>4, <1>6, <1>7, <1>8, <1>9, <1>10, OneMoves DEF JobsTyped

LEMMA TypedUndoRestart ==
  ASSUME Typed, NEW p \in Cli, UndoRestart(p)
  PROVE  Typed'
<1> USE DEF Typed
<1>1. FilesTyped'
  BY ServedTyped DEF UndoRestart, FilesTyped
<1>2. HeldTyped' /\ lock' = lock
  BY DEF UndoRestart, HeldTyped, held
<1>3. /\ job' \in [Cli -> Job] /\ \A q \in Cli \ {p} : job'[q] = job[q]
      /\ job'[p].cmd = job[p].cmd /\ job'[p].tx = job[p].tx /\ job'[p].target = job[p].target
  <2>1. job' = job \/ job' = [job EXCEPT ![p].bad = TRUE]
    BY DEF UndoRestart
  <2>2. CASE job' = job
    BY <2>2 DEF JobsTyped
  <2>3. CASE job' = [job EXCEPT ![p].bad = TRUE]
    BY <2>3, Notes
  <2> QED
    BY <2>1, <2>2, <2>3
<1>4. /\ pc' \in [Cli -> Label] /\ \A q \in Cli \ {p} : pc'[q] = pc[q]
      /\ \/ pc[p] = "undo" /\ pc'[p] = "settle"
         \/ pc[p] = "local" /\ pc'[p] = "localDone"
  BY Goes DEF UndoRestart, Label
<1>5. lock = p
  BY <1>4 DEF Holding, Locked
<1>6. WorkingAt(p)'
  <2>1. job[p].cmd # "none" /\ (job[p].cmd = "recover" => job[p].target \in TxId)
        /\ (job[p].cmd \in Changes => job[p].tx \in TxId)
        /\ (pc[p] = "undo" => job[p].cmd # "uninstall")
    BY <1>4 DEF Working, WorkingAt, Locked
  <2> QED
    BY <1>3, <1>4, <2>1 DEF WorkingAt
<1> QED
  BY <1>1, <1>2, <1>3, <1>4, <1>5, <1>6, OneMoves DEF JobsTyped, Locked

\* Ending: the invocation exits and drops the lock if it holds it.
LEMMA TypedEnd ==
  ASSUME Typed, NEW p \in Cli, FilesTyped', Exit(p),
         Release(p) \/ (UNCHANGED held /\ lock # p)
  PROVE  Typed'
<1> USE DEF Typed
<1>1. HeldTyped' /\ lock' # p /\ \A q \in Cli \ {p} : (lock' = q) = (lock = q)
  <2>1. CASE Release(p)
    BY <2>1, Releases
  <2>2. CASE UNCHANGED held /\ lock # p
    BY <2>2 DEF held, HeldTyped
  <2> QED
    BY <2>1, <2>2
<1>2. WorkingAt(p)'
  BY Exits DEF WorkingAt, NoJob, Locked, Changes, Installs
<1> QED
  BY <1>1, <1>2, Exits, OneMoves DEF Locked

LEMMA LeavesCommand ==
  ASSUME Typed, NEW p \in Cli, pc[p] # "idle"
  PROVE  Leaves(p) \subseteq Command
  BY DEF Leaves, Typed, JobsTyped, Job, Working, WorkingAt

LEMMA TypedEnds ==
  ASSUME Typed, NEW p \in Cli,
         \/ Abort(p) \/ Commit(p) \/ Settle(p) \/ SettleUnrecorded(p) \/ RecoveryFails(p)
         \/ Mark(p) \/ RemoveUser(p) \/ UninstallFails(p) \/ Kill(p)
  PROVE  Typed'
<1> USE DEF Typed
<1>1. Empty \in Image
  BY DEF Empty, Image, Version
<1>2. CASE Abort(p)
  <2>1. job[p].cmd \in Command
    BY <1>2 DEF Abort, Command
  <2>2. journal' \in [TxId -> Record]
    BY <1>2, <2>1 DEF Abort, FilesTyped, Record, Status
  <2> QED
    BY <1>1, <1>2, <2>2, TypedEnd DEF Abort, FilesTyped
<1>3. CASE Commit(p)
  <2>1. job[p].cmd \in Command
    BY <1>3 DEF Commit, JobsTyped, Job, Working, WorkingAt
  <2>2. journal' \in [TxId -> Record]
    BY <1>3, <2>1 DEF Commit, FilesTyped, Record, Status
  <2> QED
    BY <1>1, <1>3, <2>2, TypedEnd DEF Commit, FilesTyped
<1>4. CASE Settle(p)
  <2>1. job[p].cmd \in Command
    BY <1>4 DEF Settle, Undone, JobsTyped, Job, Working, WorkingAt
  <2>2. RolledBack(p) \in Status
    BY DEF RolledBack, Status
  <2>3. journal' \in [TxId -> Record]
    BY <1>4, <2>1, <2>2 DEF Settle, FilesTyped, Record
  <2> QED
    BY <1>1, <1>4, <2>3, TypedEnd DEF Settle, FilesTyped
<1>5. CASE SettleUnrecorded(p)
  <2>1. job[p].cmd \in Command
    BY <1>5 DEF SettleUnrecorded, Undone, JobsTyped, Job, Working, WorkingAt
  <2>2. journal' \in [TxId -> Record]
    <3>1. CASE job[p].cmd = "core"
      <4>1. job[p].tx \in TxId
        BY <1>5, <3>1 DEF SettleUnrecorded, Undone, Working, WorkingAt, Changes, Locked
      <4>2. journal' = [journal EXCEPT ![job[p].tx].backup =
                          IF job[p].bad THEN @ ELSE @ \ {"local"}]
        BY <1>5, <3>1 DEF SettleUnrecorded
      <4> QED
        BY <4>1, <4>2 DEF FilesTyped, Record
    <3>2. CASE job[p].cmd # "core"
      BY <1>5, <3>2 DEF SettleUnrecorded, FilesTyped
    <3> QED
      BY <3>1, <3>2
  <2> QED
    BY <1>5, <2>1, <2>2, TypedEnd DEF SettleUnrecorded, FilesTyped
<1>6. CASE RecoveryFails(p)
  <2>1. Leaves(p) \subseteq Command
    BY <1>6, LeavesCommand DEF RecoveryFails, Undone
  <2> QED
    BY <1>6, <2>1, TypedEnd DEF RecoveryFails, FilesTyped
<1>7. CASE Mark(p)
  <2>1. journal' \in [TxId -> Record]
    <3> DEFINE t == job[p].target
    <3>1. CASE \E b \in {{}, {"local"}} :
                 journal' = [journal EXCEPT ![t] = [@ EXCEPT !.status = "RECOVERED", !.backup = b]]
      <4>1. PICK b \in {{}, {"local"}} :
              journal' = [journal EXCEPT ![t] = [@ EXCEPT !.status = "RECOVERED", !.backup = b]]
        BY <3>1
      <4>2. b \in SUBSET {"persistent", "local"}
        OBVIOUS
      <4> HIDE DEF t
      <4> QED
        BY <4>1, <4>2 DEF FilesTyped, Record, Status
    <3>2. CASE journal' = journal
      BY <3>2 DEF FilesTyped
    <3> QED
      BY <1>7, <3>1, <3>2 DEF Mark
  <2>2. bak' \in [TxId -> Image]
    BY <1>1, <1>7 DEF Mark, FilesTyped
  <2> QED
    BY <1>7, <2>1, <2>2, TypedEnd DEF Mark, FilesTyped, Holding, Locked
<1>8. CASE RemoveUser(p)
  <2>1. disk' \in Image
    BY <1>8 DEF RemoveUser, FilesTyped, Image, Version
  <2> QED
    BY <1>8, <2>1, TypedEnd DEF RemoveUser, FilesTyped
<1>9. CASE UninstallFails(p)
  <2>1. untold' \subseteq Command
    BY <1>9 DEF UninstallFails, FilesTyped, Command
  <2> QED
    BY <1>9, <2>1, TypedEnd DEF UninstallFails, FilesTyped
<1>10. CASE Kill(p)
  <2>1. Leaves(p) \subseteq Command
    BY <1>10, LeavesCommand DEF Kill
  <2> QED
    BY <1>10, <2>1, TypedEnd DEF Kill, FilesTyped
<1> QED
  BY <1>2, <1>3, <1>4, <1>5, <1>6, <1>7, <1>8, <1>9, <1>10

LEMMA TypedReleases ==
  ASSUME Typed, NEW p \in Cli, Restored(p) \/ RemoveRoot(p)
  PROVE  Typed'
<1> USE DEF Typed
<1>1. Empty \in Image /\ NoRecord \in Record
  BY DEF Empty, Image, Version, NoRecord, Record, Status
<1>2. CASE Restored(p)
  <2>1. FilesTyped' /\ Release(p) /\ job' = job /\ Goto(p, "mark")
    BY <1>2 DEF Restored, FilesTyped, files
  <2>2. pc' \in [Cli -> Label] /\ pc'[p] = "mark" /\ \A q \in Cli \ {p} : pc'[q] = pc[q]
    BY <2>1, Goes DEF Label
  <2>3. pc[p] # "idle"
    BY <1>2 DEF Restored
  <2>4. WorkingAt(p)'
    BY <2>1, <2>2, <2>3 DEF Working, WorkingAt, Locked
  <2> QED
    BY <2>1, <2>2, <2>4, Releases, OneMoves DEF JobsTyped, Locked
<1>3. CASE RemoveRoot(p)
  <2>1. /\ pc[p] = "write" /\ job[p].cmd = "uninstall" /\ Goto(p, "user") /\ job' = job
        /\ UNCHANGED <<running, names, untold>>
        /\ \/ UNCHANGED <<disk, journal, bak, held>>
           \/ /\ disk' = [f \in File |-> IF f \in StateRoot THEN Absent ELSE disk[f]]
              /\ journal' = [t \in TxId |-> NoRecord] /\ bak' = [t \in TxId |-> Empty]
              /\ Release(p)
    BY <1>3 DEF RemoveRoot
  <2>2. FilesTyped'
    BY <1>1, <2>1 DEF FilesTyped, Image, Version
  <2>3. HeldTyped' /\ \A q \in Cli \ {p} : (lock' = q) = (lock = q)
    <3>1. CASE UNCHANGED held
      BY <3>1 DEF held, HeldTyped
    <3>2. CASE Release(p)
      BY <3>2, Releases
    <3> QED
      BY <2>1, <3>1, <3>2
  <2>4. pc' \in [Cli -> Label] /\ pc'[p] = "user" /\ \A q \in Cli \ {p} : pc'[q] = pc[q]
    BY <2>1, Goes DEF Label
  <2>5. WorkingAt(p)'
    BY <2>1, <2>4 DEF WorkingAt, Locked, Changes, Installs
  <2> QED
    BY <2>1, <2>2, <2>3, <2>4, <2>5, OneMoves DEF JobsTyped, Locked
<1> QED
  BY <1>2, <1>3

LEMMA TypedReboot == Typed /\ Reboot => Typed'
<1> SUFFICES ASSUME Typed, Reboot PROVE Typed'
  OBVIOUS
<1> USE DEF Typed
<1>1. Empty \in Image
  BY DEF Empty, Image, Version
<1>2. \A p \in Cli : Leaves(p) \subseteq Command
  <2> TAKE p \in Cli
  <2>1. CASE pc[p] = "idle"
    BY <2>1, LeavesCommand DEF Leaves, Holding, Locked
  <2> QED
    BY <2>1, LeavesCommand
<1>3. untold' \subseteq Command
  BY <1>2 DEF Reboot, FilesTyped
<1>4. FilesTyped'
  BY <1>3, ServedTyped DEF Reboot, FilesTyped
<1>5. HeldTyped'
  BY <1>1 DEF Reboot, HeldTyped
<1>6. NoJob \in Job
  BY DEF NoJob, Job, Command, Installs, Version
<1>7. JobsTyped'
  BY <1>6 DEF Reboot, JobsTyped, Label
<1>8. \A p \in Cli : pc'[p] = "idle" /\ job'[p] = NoJob /\ lock' # p
  BY HostAssumption DEF Reboot
<1>9. Holding' /\ Working'
  BY <1>8 DEF Holding, Working, WorkingAt, Locked, NoJob, Changes, Installs
<1> QED
  BY <1>4, <1>5, <1>7, <1>9

LEMMA TypedLoseBackup ==
  ASSUME Typed, NEW t \in TxId, LoseBackup(t)
  PROVE  Typed'
<1>1. journal' \in [TxId -> Record]
  BY DEF LoseBackup, Typed, FilesTyped, Record
<1> QED
  BY <1>1 DEF LoseBackup, Typed, FilesTyped, HeldTyped, held, JobsTyped, Holding, Working, WorkingAt

LEMMA TypedNext == Typed /\ [Next]_vars => Typed'
<1> SUFFICES ASSUME Typed, [Next]_vars PROVE Typed'
  OBVIOUS
<1>1. CASE UNCHANGED vars
  BY <1>1 DEF vars, Typed, FilesTyped, HeldTyped, JobsTyped, Holding, Working, WorkingAt
<1>2. ASSUME NEW p \in Cli, DoctorFix(p)
      PROVE  Typed'
  BY <1>2, ServedTyped DEF DoctorFix, held, Typed, FilesTyped, HeldTyped, JobsTyped, Holding,
                           Working, WorkingAt
<1>3. ASSUME NEW p \in Cli, NothingToRecover(p)
      PROVE  Typed'
  BY <1>1, <1>3 DEF NothingToRecover
<1>4. ASSUME NEW p \in Cli, StartRecovery(p) \/ \E c \in Command : StartCommand(p, c)
      PROVE  Typed'
  BY <1>4, TypedBeginnings
<1>5. ASSUME NEW p \in Cli, Proceed(p)
      PROVE  Typed'
  BY <1>5, TypedBeginnings, TypedBegin, TypedBeginRecovery, TypedBeginUninstall, TypedWrites,
     TypedFailures, TypedRestart, TypedStopServices, TypedUndoFails, TypedUndoRestart,
     TypedEnds, TypedReleases
     DEF Proceed
<1>6. ASSUME NEW p \in Cli, Kill(p)
      PROVE  Typed'
  BY <1>6, TypedEnds
<1>7. ASSUME NEW t \in TxId, LoseBackup(t)
      PROVE  Typed'
  BY <1>7, TypedLoseBackup
<1>8. CASE Reboot
  BY <1>8, TypedReboot
<1> QED
  BY <1>1, <1>2, <1>3, <1>4, <1>5, <1>6, <1>7, <1>8 DEF Next

\* Whatever invocations are alive, are killed or fail, every variable keeps its
\* type, and only the holder of the lock has steps to take.
THEOREM HostTypeCorrect == Spec => []TypeOK
<1>1. Typed => TypeOK
  BY DEF Typed, FilesTyped, HeldTyped, JobsTyped, TypeOK, Label, OneStep
<1> QED
  BY <1>1, TypedInit, TypedNext, PTL DEF Spec

-----------------------------------------------------------------------------
(* What a rollback restores.                                               *)

\* Who removes an installation is the only operator beside renewal timers.
RemoverAlone ==
  \A p \in Cli : "uninstall" \in Runs[p] => \A q \in Cli \ {p} : Runs[q] \subseteq {"cert"}

\* A record that needs no attention names no backup.
Closed ==
  \A t \in TxId : journal[t].status \in {"ROLLED_BACK", "ABORTED"} => journal[t].backup = {}

Used == \A p \in Cli : job[p].cmd \in Runs[p] \cup {"recover", "none"}

\* Where a removal has dropped the lock before its end, nothing is left that
\* another command could begin with.
RootGone ==
  /\ lock = NoCli /\ \A f \in StateRoot : disk[f] = Absent
  /\ \A t \in TxId : journal[t] = NoRecord
Removing == \A p \in Cli : pc[p] = "user" => lock = p \/ RootGone

\* What p's command is taken back to, and the files it may have changed.
Goal(p) == IF job[p].cmd \in Installs THEN Bare ELSE snap
Scope(p) ==
  CASE job[p].cmd \in Installs -> InstallScope
    [] job[p].cmd = "self"     -> SelfFiles
    [] job[p].cmd = "core"     -> CoreFiles(job[p].replaces)
    [] job[p].cmd = "cert"     -> CertFiles

\* Forward: what is outside the scope is as it is to be, and stays so.
Contained(p) ==
  \A f \in File \ Scope(p) :
    /\ disk[f] = Goal(p)[f]
    /\ \A i \in DOMAIN todo : todo[i].file = f => todo[i].to = Goal(p)[f]

\* Back: what is not yet as it is to be is still to be written, and rightly.
Returning(p) ==
  /\ \A f \in File : disk[f] = Goal(p)[f] \/ f \in Touched(todo)
  /\ \A i \in DOMAIN todo : todo[i].to = Goal(p)[todo[i].file]
  /\ pc[p] = "settle" => todo = <<>>

Excused(p) == job[p].bad \/ (job[p].cmd \in Installs /\ job[p].cmd \in untold)

TrackedAt(p) ==
  job[p].cmd \in Changes =>
    /\ pc[p] \in {"write", "commit"} => Contained(p)
    /\ pc[p] \in {"stop", "undo", "settle"} /\ ~Excused(p) => Returning(p)
Tracked == \A p \in Cli : TrackedAt(p)

Safe == Typed /\ Closed /\ Used /\ Removing /\ Tracked

\* What the undo of a command starts with.
LEMMA UndoReturns ==
  ASSUME snap \in Image, NEW d \in Image, NEW p \in Cli, job[p] \in Job, job[p].cmd \in Changes,
         \A f \in File \ Scope(p) : d[f] = Goal(p)[f]
  PROVE  /\ \A f \in File : d[f] = Goal(p)[f] \/ f \in Touched(Undo(p, d))
         /\ \A i \in DOMAIN Undo(p, d) : Undo(p, d)[i].to = Goal(p)[Undo(p, d)[i].file]
<1> DEFINE u == Undo(p, d)
<1>1. \E fs \in SUBSET File : /\ Leads(u, fs, Goal(p))
                              /\ \A f \in File \ fs : d[f] = Goal(p)[f]
  <2>1. CASE job[p].cmd \in Installs
    <3>1. u = UndoInstall(p) /\ Scope(p) = InstallScope /\ Goal(p) = Bare
      BY <2>1 DEF Undo, Scope, Goal, Installs
    <3>2. InstallScope \subseteq File
      BY DEF InstallScope, InstallFiles, File
    <3>3. Leads(u, InstallScope, Goal(p))
      BY <3>1, UndoInstallSteps
    <3> QED
      BY <3>1, <3>2, <3>3
  <2>2. CASE job[p].cmd = "self"
    <3>1. u = UndoSelf /\ Scope(p) = SelfFiles /\ Goal(p) = snap
      BY <2>2 DEF Undo, Scope, Goal, Installs
    <3>2. SelfFiles \subseteq File
      BY DEF SelfFiles, File, StateRoot
    <3> QED
      BY <3>1, <3>2, SelfReturns
  <2>3. CASE job[p].cmd = "core"
    <3> DEFINE replaces == job[p].replaces
    <3>1. u = UndoCore(snap, replaces) /\ Scope(p) = CoreFiles(replaces) /\ Goal(p) = snap
      BY <2>3 DEF Undo, Scope, Goal, Installs
    <3>2. CoreFiles(replaces) \subseteq File /\ replaces \in BOOLEAN
      BY DEF CoreFiles, File, StateRoot, Job
    <3>3. Leads(u, CoreFiles(replaces), snap)
      BY <3>1, <3>2, CoreReturns
    <3> QED
      BY <3>1, <3>2, <3>3
  <2>4. CASE job[p].cmd = "cert"
    <3> DEFINE fs == {"cert", "key"} \cup (IF d["acme"] # snap["acme"] THEN {"acme"} ELSE {})
    <3>1. u = UndoCert(d) /\ Scope(p) = CertFiles /\ Goal(p) = snap
      BY <2>4 DEF Undo, Scope, Goal, Installs
    <3>2. fs \subseteq File /\ \A f \in File \ fs : d[f] = snap[f]
      BY <3>1 DEF CertFiles, File, StateRoot
    <3>3. Leads(u, fs, snap)
      BY <3>1, CertReturns
    <3> QED
      BY <3>1, <3>2, <3>3
  <2> QED
    BY <2>1, <2>2, <2>3, <2>4 DEF Changes
<1> HIDE DEF u
<1>2. /\ \A f \in File : d[f] = Goal(p)[f] \/ f \in Touched(u)
      /\ \A i \in DOMAIN u : u[i].to = Goal(p)[u[i].file]
  BY <1>1 DEF Leads
<1> QED
  BY <1>2 DEF u

\* What a command begins with.
LEMMA ForwardContained ==
  ASSUME disk \in Image, NEW p \in Cli, job[p] \in Job, job[p].cmd \in Changes, NEW t \in TxId,
         snap' = disk, todo' = Forward(p, t), UNCHANGED disk,
         job'[p].cmd = job[p].cmd, job'[p].replaces = job[p].replaces
  PROVE  Contained(p)'
<1> DEFINE s == Forward(p, t)
<1>1. CASE job[p].cmd \in Installs
  <2>1. s \in {Install(t), InstallReality(t)}
    BY <1>1 DEF Forward, Installs
  <2>2. \A i \in DOMAIN s : s[i].file = "user" /\ disk["user"] # Absent => s[i].to = disk["user"]
    BY <2>1, InstallSteps
  <2> HIDE DEF s
  <2>3. File \ Scope(p)' = IF disk["user"] = Absent THEN {} ELSE {"user"}
    <3>1. Scope(p)' = InstallFiles \cup (IF disk["user"] = Absent THEN {"user"} ELSE {})
      BY <1>1 DEF Scope, InstallScope, Installs
    <3> QED
      BY <3>1 DEF InstallFiles, File
  <2>4. Goal(p)'["user"] = disk["user"]
    BY <1>1 DEF Goal, Bare, Empty, File
  <2> QED
    BY <2>2, <2>3, <2>4 DEF Contained, s
<1>2. ASSUME job[p].cmd \notin Installs, Touched(s) \subseteq Scope(p)'
      PROVE  Contained(p)'
  BY <1>2 DEF Contained, Goal, Touched
<1>3. CASE job[p].cmd = "self"
  <2>1. s = Self(t) /\ Scope(p)' = SelfFiles
    BY <1>3 DEF Forward, Scope, Installs
  <2> QED
    BY <1>2, <1>3, <2>1, SelfWrites DEF Installs
<1>4. CASE job[p].cmd = "core"
  <2>1. s = Core(t, job[p].replaces) /\ Scope(p)' = CoreFiles(job[p].replaces)
    BY <1>4 DEF Forward, Scope, Installs
  <2>2. Touched(s) = CoreFiles(job[p].replaces)
    BY <2>1, CoreWrites DEF Job
  <2> QED
    BY <1>2, <1>4, <2>1, <2>2 DEF Installs
<1>5. CASE job[p].cmd = "cert"
  <2>1. s = Cert(t) /\ Scope(p)' = CertFiles
    BY <1>5 DEF Forward, Scope, Installs
  <2> QED
    BY <1>2, <1>5, <2>1, CertWrites DEF Installs
<1> QED
  BY <1>1, <1>3, <1>4, <1>5 DEF Changes

\* A step off the front of the sequence.
LEMMA FirstWritten ==
  ASSUME disk \in Image, todo \in Seq(OneStep), todo # <<>>
  PROVE  /\ \A f \in File : After(disk, Head(todo))[f] =
                              IF f = todo[1].file THEN todo[1].to ELSE disk[f]
         /\ 1 \in DOMAIN todo
         /\ \A i \in DOMAIN Tail(todo) : i + 1 \in DOMAIN todo /\ Tail(todo)[i] = todo[i + 1]
         /\ Touched(todo) \subseteq Touched(Tail(todo)) \cup {todo[1].file}
<1>1. Len(todo) \in Nat /\ Len(todo) > 0 /\ DOMAIN todo = 1..Len(todo) /\ Head(todo) = todo[1]
  OBVIOUS
<1>2. /\ Tail(todo) \in Seq(OneStep) /\ DOMAIN Tail(todo) = 1..(Len(todo) - 1)
      /\ \A i \in 1..(Len(todo) - 1) : Tail(todo)[i] = todo[i + 1]
  OBVIOUS
<1>3. \A f \in File : After(disk, Head(todo))[f] = IF f = todo[1].file THEN todo[1].to ELSE disk[f]
  BY <1>1 DEF After, Image
<1>4. Touched(todo) \subseteq Touched(Tail(todo)) \cup {todo[1].file}
  <2> SUFFICES ASSUME NEW i \in 1..Len(todo)
               PROVE  todo[i].file \in Touched(Tail(todo)) \cup {todo[1].file}
    BY <1>1 DEF Touched
  <2>1. CASE i = 1
    BY <2>1
  <2>2. CASE i # 1
    <3> DEFINE k == i - 1
    <3>1. k \in DOMAIN Tail(todo) /\ Tail(todo)[k] = todo[i]
      BY <1>1, <1>2, <2>2
    <3> HIDE DEF k
    <3> QED
      BY <3>1 DEF Touched
  <2> QED
    BY <2>1, <2>2
<1> QED
  BY <1>1, <1>2, <1>3, <1>4

\* The steps that leave whoever holds the lock alone, or leave nobody with it.
Outside ==
  \/ \A q \in Cli : pc'[q] \notin Locked
  \/ /\ \A q \in Cli : pc'[q] \in Locked => pc'[q] = pc[q] /\ job'[q] = job[q]
     /\ UNCHANGED <<disk, snap, todo>> /\ untold \subseteq untold'

LEMMA OutsideSafe ==
  ASSUME Typed, Tracked, Outside
  PROVE  Tracked'
<1>1. CASE \A q \in Cli : pc'[q] \notin Locked
  BY <1>1 DEF Tracked, TrackedAt, Locked
<1>2. CASE /\ \A q \in Cli : pc'[q] \in Locked => pc'[q] = pc[q] /\ job'[q] = job[q]
           /\ UNCHANGED <<disk, snap, todo>> /\ untold \subseteq untold'
  <2>1. ASSUME NEW q \in Cli PROVE TrackedAt(q)'
    <3>1. CASE pc'[q] \notin Locked
      BY <3>1 DEF TrackedAt, Locked
    <3>2. CASE pc'[q] \in Locked
      <4>1. pc'[q] = pc[q] /\ job'[q] = job[q] /\ TrackedAt(q)
        BY <1>2, <3>2 DEF Tracked
      <4>2. Goal(q)' = Goal(q) /\ Scope(q)' = Scope(q)
        BY <1>2, <4>1 DEF Goal, Scope, InstallScope, Bare
      <4>3. (Contained(q) => Contained(q)') /\ (Returning(q) => Returning(q)')
        BY <1>2, <4>1, <4>2 DEF Contained, Returning, Touched
      <4>4. Excused(q) => Excused(q)'
        BY <1>2, <4>1 DEF Excused
      <4> QED
        BY <4>1, <4>3, <4>4 DEF TrackedAt
    <3> QED
      BY <3>1, <3>2
  <2> QED
    BY <2>1 DEF Tracked
<1> QED
  BY <1>1, <1>2 DEF Outside

\* An invocation that exits without touching the files.
LEMMA ExitOutside ==
  ASSUME Typed, Typed', NEW p \in Cli, Exit(p), Release(p) \/ UNCHANGED held,
         UNCHANGED disk, untold \subseteq untold'
  PROVE  Outside
<1> USE DEF Typed
<1>1. pc'[p] \notin Locked /\ \A q \in Cli \ {p} : pc'[q] = pc[q] /\ job'[q] = job[q]
  BY Exits DEF Locked
<1>2. CASE lock' = NoCli
  BY <1>2, HostAssumption DEF Holding, Outside
<1>3. CASE lock' # NoCli
  <2>1. UNCHANGED <<snap, todo>>
    BY <1>3, Releases DEF held
  <2> QED
    BY <1>1, <2>1 DEF Outside
<1> QED
  BY <1>2, <1>3

LEMMA OutsideSteps ==
  ASSUME Typed, Typed', Removing, NEW p \in Cli,
         \/ StartRecovery(p) \/ \E c \in Command : StartCommand(p, c)
         \/ NothingToRecover(p) \/ DoctorFix(p) \/ Kill(p)
         \/ Busy(p) \/ Refuse(p) \/ RecoveryRefused(p)
         \/ Abort(p) \/ Commit(p) \/ Settle(p) \/ SettleUnrecorded(p)
         \/ Restored(p) \/ RecoveryFails(p) \/ Mark(p)
         \/ RemoveRoot(p) \/ RemoveUser(p) \/ UninstallFails(p)
  PROVE  Outside
<1> USE DEF Typed
<1>1. ASSUME lock' = NoCli PROVE Outside
  BY <1>1, HostAssumption DEF Holding, Outside
<1>2. CASE StartRecovery(p)
  <2>1. pc' = [pc EXCEPT ![p] = "wait"] /\ \A q \in Cli \ {p} : job'[q] = job[q]
        /\ UNCHANGED <<disk, snap, todo, untold, journal>>
    BY <1>2 DEF StartRecovery, Goto, files, held, JobsTyped
  <2> QED
    BY <2>1 DEF Outside, Locked, JobsTyped
<1>3. ASSUME NEW c \in Command, StartCommand(p, c)
      PROVE  Outside
  <2>1. pc' = [pc EXCEPT ![p] = "wait"] /\ \A q \in Cli \ {p} : job'[q] = job[q]
        /\ UNCHANGED <<disk, snap, todo, untold, journal>>
    BY <1>3 DEF StartCommand, Goto, files, held, JobsTyped
  <2> QED
    BY <2>1 DEF Outside, Locked, JobsTyped
<1>4. CASE NothingToRecover(p) \/ DoctorFix(p)
  BY <1>4 DEF NothingToRecover, DoctorFix, vars, held, Outside
<1>5. CASE Kill(p)
  BY <1>5, ExitOutside DEF Kill
<1>6. CASE Busy(p) \/ Refuse(p) \/ RecoveryRefused(p)
  BY <1>6, ExitOutside DEF Busy, Refuse, RecoveryRefused, files
<1>7. ASSUME pc[p] \in Locked, Release(p)
      PROVE  Outside
  BY <1>1, <1>7, Releases DEF Holding
<1>8. CASE Abort(p) \/ Commit(p)
  BY <1>7, <1>8 DEF Abort, Commit, Locked
<1>9. CASE Settle(p) \/ SettleUnrecorded(p) \/ RecoveryFails(p)
  BY <1>7, <1>9 DEF Settle, SettleUnrecorded, RecoveryFails, Undone, Locked
<1>10. CASE Restored(p)
  BY <1>7, <1>10 DEF Restored, Locked
<1>11. CASE Mark(p)
  BY <1>11, ExitOutside DEF Mark
<1>12. CASE RemoveRoot(p)
  <2>1. CASE Release(p)
    BY <1>7, <1>12, <2>1 DEF RemoveRoot, Locked
  <2>2. CASE UNCHANGED <<disk, journal, bak, held>>
    <3>1. /\ pc' = [pc EXCEPT ![p] = "user"] /\ UNCHANGED <<disk, snap, todo, untold, journal, job>>
      BY <1>12, <2>2 DEF RemoveRoot, Goto, held
    <3> QED
      BY <3>1 DEF Outside, Locked, JobsTyped
  <2> QED
    BY <1>12, <2>1, <2>2 DEF RemoveRoot
<1>13. CASE RemoveUser(p)
  BY <1>1, <1>13, Releases DEF RemoveUser, Removing, RootGone
<1>14. CASE UninstallFails(p)
  BY <1>14, ExitOutside DEF UninstallFails
<1> QED
  BY <1>2, <1>3, <1>4, <1>5, <1>6, <1>8, <1>9, <1>10, <1>11, <1>12, <1>13, <1>14

\* The steps of the holder of the lock: only its own record is at stake.
LEMMA HolderMoves ==
  ASSUME Typed, Typed', NEW p \in Cli, lock' = p, TrackedAt(p)'
  PROVE  Tracked'
<1>1. \A q \in Cli \ {p} : pc'[q] \notin Locked
  BY DEF Typed, Holding
<1> QED
  BY <1>1 DEF Tracked, TrackedAt, Locked

LEMMA BeginSafe ==
  ASSUME Typed, Typed', NEW p \in Cli, Begin(p) \/ BeginRecovery(p) \/ BeginUninstall(p)
  PROVE  lock' = p /\ TrackedAt(p)'
<1> USE DEF Typed
<1>1. CASE Begin(p)
  <2> DEFINE t == nextTx
             base == IF job[p].cmd = "core" THEN disk["state"] ELSE job[p].base
  <2>1. /\ pc[p] = "wait" /\ t \in TxId /\ lock' = p /\ snap' = disk /\ todo' = Forward(p, t)
        /\ journal' = [journal EXCEPT ![t] = Progress(job[p].cmd)]
        /\ job' = [job EXCEPT ![p].tx = t, ![p].base = base]
        /\ pc' = [pc EXCEPT ![p] = "write"] /\ UNCHANGED <<disk, untold>>
    BY <1>1 DEF Begin, Goto
  <2>2. job[p] \in Job /\ job[p].cmd \in Changes
    BY <1>1 DEF Begin, JobsTyped, Job, Working, WorkingAt, Changes, Command
  <2> HIDE DEF t, base
  <2>3. /\ job'[p].cmd = job[p].cmd /\ job'[p].replaces = job[p].replaces /\ job'[p].tx = t
        /\ pc'[p] = "write"
    BY <2>1 DEF JobsTyped, Job
  <2>4. Contained(p)'
    BY <2>1, <2>2, <2>3, ForwardContained DEF FilesTyped
  <2> QED
    BY <2>1, <2>3, <2>4 DEF TrackedAt
<1>2. CASE BeginRecovery(p)
  <2>1. lock' = p /\ job[p].cmd = "recover"
        /\ (job' = job \/ job' = [job EXCEPT ![p].local = TRUE, ![p].restarted = TRUE])
    BY <1>2 DEF BeginRecovery
  <2>2. job'[p].cmd = "recover"
    BY <2>1 DEF JobsTyped, Job
  <2> QED
    BY <2>1, <2>2 DEF TrackedAt, Changes, Installs
<1>3. CASE BeginUninstall(p)
  <2>1. lock' = p /\ job[p].cmd = "uninstall"
        /\ \E keepCert \in BOOLEAN : job' = [job EXCEPT ![p].keepCert = keepCert]
    BY <1>3 DEF BeginUninstall
  <2>2. job'[p].cmd = "uninstall"
    BY <2>1 DEF JobsTyped, Job
  <2> QED
    BY <2>1, <2>2 DEF TrackedAt, Changes, Installs
<1> QED
  BY <1>1, <1>2, <1>3

LEMMA GoalTyped ==
  ASSUME snap \in Image, NEW p
  PROVE  Goal(p) \in Image
  BY DEF Goal, Bare, Empty, Image, Version

\* A step off the front keeps what is ahead contained, or what is behind
\* returning.
LEMMA StepSafe ==
  ASSUME Typed, NEW p \in Cli, Write(p) \/ UndoStep(p), TrackedAt(p)
  PROVE  lock' = p /\ TrackedAt(p)'
<1> USE DEF Typed
<1>1. /\ todo # <<>> /\ disk' = After(disk, Head(todo)) /\ todo' = Tail(todo)
      /\ pc[p] \in {"write", "undo", "local"}
      /\ UNCHANGED <<journal, untold, lock, snap, pc, job>>
  BY DEF Write, UndoStep
<1>2. lock = p
  BY <1>1 DEF Holding, Locked
<1>3. /\ \A f \in File : disk'[f] = IF f = todo[1].file THEN todo[1].to ELSE disk[f]
      /\ 1 \in DOMAIN todo
      /\ \A i \in DOMAIN todo' : i + 1 \in DOMAIN todo /\ todo'[i] = todo[i + 1]
      /\ Touched(todo) \subseteq Touched(todo') \cup {todo[1].file}
  BY <1>1, FirstWritten DEF FilesTyped, HeldTyped
<1>4. Goal(p)' = Goal(p) /\ Scope(p)' = Scope(p) /\ (Excused(p)' <=> Excused(p))
  BY <1>1 DEF Goal, Scope, InstallScope, Bare, Excused
<1>5. Contained(p) => Contained(p)'
  BY <1>3, <1>4 DEF Contained
<1>6. Returning(p) => Returning(p)'
  <2>1. pc[p] # "settle"
    BY <1>1
  <2> QED
    BY <1>1, <1>3, <1>4, <2>1 DEF Returning
<1>7. TrackedAt(p)'
  BY <1>1, <1>4, <1>5, <1>6 DEF TrackedAt
<1> QED
  BY <1>1, <1>2, <1>7

\* A rollback starts from files that are contained.
LEMMA AbandonSafe ==
  ASSUME Typed, NEW p \in Cli, pc[p] \in {"write", "commit"}, TrackedAt(p),
         disk' \in Image, \A f \in File \ Scope(p) : disk'[f] = Goal(p)[f] \/ disk'[f] = disk[f],
         Abandon(p, disk'), UNCHANGED <<journal, lock, snap>>,
         \A k \in {"cmd", "tx", "replaces"} : job'[p][k] = job[p][k]
  PROVE  lock' = p /\ TrackedAt(p)'
<1> USE DEF Typed
<1>1. lock = p /\ pc'[p] \in {"stop", "undo"} /\ todo' = Undo(p, disk')
  BY DEF Holding, Locked, Abandon, Goto, JobsTyped
<1>2. job'[p].cmd = job[p].cmd /\ job'[p].tx = job[p].tx /\ job'[p].replaces = job[p].replaces
  OBVIOUS
<1>3. ASSUME job[p].cmd \in Changes PROVE Returning(p)'
  <2>1. Contained(p)
    BY <1>3 DEF TrackedAt
  <2>2. \A f \in File \ Scope(p) : disk'[f] = Goal(p)[f]
    BY <2>1 DEF Contained
  <2>3. /\ \A f \in File : disk'[f] = Goal(p)[f] \/ f \in Touched(todo')
        /\ \A i \in DOMAIN todo' : todo'[i].to = Goal(p)[todo'[i].file]
    BY <1>1, <1>3, <2>2, UndoReturns DEF HeldTyped, JobsTyped
  <2>4. Goal(p)' = Goal(p)
    BY <1>2 DEF Goal, Bare
  <2> QED
    BY <1>1, <2>3, <2>4 DEF Returning
<1>4. TrackedAt(p)'
  BY <1>1, <1>2, <1>3 DEF TrackedAt
<1> QED
  BY <1>1, <1>4

LEMMA FailureSafe ==
  ASSUME Typed, Typed', NEW p \in Cli, WriteFails(p) \/ RestartFails(p) \/ CommitFails(p),
         TrackedAt(p)
  PROVE  lock' = p /\ TrackedAt(p)'
<1> USE DEF Typed
<1>1. disk' \in Image
  BY DEF FilesTyped
<1>2. CASE WriteFails(p)
  <2>1. CASE disk' = disk
    BY <1>1, <1>2, <2>1, AbandonSafe DEF WriteFails
  <2>2. CASE todo # <<>> /\ disk' = After(disk, todo[1])
    <3>1. CASE job[p].cmd \in Changes
      <4>1. Contained(p)
        BY <1>2, <3>1 DEF TrackedAt, WriteFails
      <4>2. \A f \in File : disk'[f] = IF f = todo[1].file THEN todo[1].to ELSE disk[f]
        BY <2>2 DEF After, Image, FilesTyped
      <4>3. 1 \in DOMAIN todo
        BY <2>2 DEF HeldTyped
      <4>4. \A f \in File \ Scope(p) : disk'[f] = Goal(p)[f] \/ disk'[f] = disk[f]
        BY <4>1, <4>2, <4>3 DEF Contained
      <4> QED
        BY <1>1, <1>2, <4>4, AbandonSafe DEF WriteFails
    <3>2. CASE job[p].cmd \notin Changes
      <4>1. UNCHANGED <<job, lock>> /\ pc[p] = "write"
        BY <1>2 DEF WriteFails
      <4> QED
        BY <3>2, <4>1 DEF TrackedAt, Changes, Holding, Locked
    <3> QED
      BY <3>1, <3>2
  <2>3. disk' = disk \/ (todo # <<>> /\ disk' = After(disk, todo[1]))
    BY <1>2 DEF WriteFails, HeldTyped
  <2> QED
    BY <2>1, <2>2, <2>3
<1>3. CASE RestartFails(p)
  <2>1. \A k \in {"cmd", "tx", "replaces"} : job'[p][k] = job[p][k]
    BY <1>3 DEF RestartFails, JobsTyped, Job
  <2> QED
    BY <1>1, <1>3, <2>1, AbandonSafe DEF RestartFails
<1>4. CASE CommitFails(p)
  BY <1>1, <1>4, AbandonSafe DEF CommitFails, files
<1> QED
  BY <1>2, <1>3, <1>4

LEMMA RestartSafe ==
  ASSUME Typed, NEW p \in Cli, Restart(p), TrackedAt(p)
  PROVE  lock' = p /\ TrackedAt(p)'
<1> USE DEF Typed
<1>1. /\ pc[p] = "write" /\ pc'[p] = "commit" /\ UNCHANGED <<disk, journal, lock, snap, todo>>
      /\ job'[p].cmd = job[p].cmd /\ job'[p].tx = job[p].tx /\ job'[p].replaces = job[p].replaces
  BY DEF Restart, Goto, held, JobsTyped, Job
<1>2. lock = p
  BY <1>1 DEF Holding, Locked
<1>3. Goal(p)' = Goal(p) /\ Scope(p)' = Scope(p)
  BY <1>1 DEF Goal, Scope, InstallScope, Bare
<1>4. Contained(p) => Contained(p)'
  BY <1>1, <1>3 DEF Contained
<1>5. TrackedAt(p)'
  BY <1>1, <1>4 DEF TrackedAt
<1> QED
  BY <1>1, <1>2, <1>5

\* The steps back that write nothing, and those that fail.
LEMMA BackSafe ==
  ASSUME Typed, NEW p \in Cli, StopServices(p) \/ UndoFails(p) \/ UndoRestart(p),
         TrackedAt(p)
  PROVE  lock' = p /\ TrackedAt(p)'
<1> USE DEF Typed
<1>1. /\ pc[p] \in {"stop", "undo", "local"} /\ UNCHANGED <<journal, lock, snap>>
      /\ job' = job \/ job' = [job EXCEPT ![p].bad = TRUE]
  BY DEF StopServices, UndoFails, UndoRestart, held
<1>2. /\ job'[p].cmd = job[p].cmd /\ job'[p].tx = job[p].tx /\ job'[p].replaces = job[p].replaces
      /\ job[p].bad => job'[p].bad
  BY <1>1 DEF JobsTyped, Job
<1>3. lock' = p
  BY <1>1 DEF Holding, Locked
<1>4. Goal(p)' = Goal(p)
  BY <1>1, <1>2 DEF Goal, Bare
<1>5. CASE StopServices(p)
  <2>1. pc[p] = "stop" /\ pc'[p] = "undo" /\ UNCHANGED <<disk, todo>> /\ untold \subseteq untold'
    BY <1>5 DEF StopServices, Goto, held, JobsTyped
  <2>2. Excused(p) => Excused(p)'
    BY <1>2, <2>1 DEF Excused
  <2>3. Returning(p) => Returning(p)'
    BY <1>4, <2>1 DEF Returning, Touched
  <2>4. TrackedAt(p)'
    BY <1>2, <2>1, <2>2, <2>3 DEF TrackedAt
  <2> QED
    BY <1>3, <2>4
<1>6. CASE UndoFails(p)
  <2>1. Excused(p)'
    BY <1>6, <1>2 DEF UndoFails, Ignored, Excused, JobsTyped, Job
  <2>2. pc'[p] \in {"undo", "local"}
    BY <1>6 DEF UndoFails
  <2> QED
    BY <1>3, <2>1, <2>2 DEF TrackedAt
<1>7. CASE UndoRestart(p)
  <2>1. /\ \/ pc[p] = "undo" /\ pc'[p] = "settle"
           \/ pc[p] = "local" /\ pc'[p] = "localDone"
        /\ todo = <<>> /\ UNCHANGED <<disk, todo, untold>>
    BY <1>7 DEF UndoRestart, Goto, held, JobsTyped
  <2>2. Excused(p) => Excused(p)'
    BY <1>2, <2>1 DEF Excused
  <2>3. Returning(p) => Returning(p)'
    BY <1>4, <2>1 DEF Returning, Touched
  <2>4. TrackedAt(p)'
    BY <1>2, <2>1, <2>2, <2>3 DEF TrackedAt
  <2> QED
    BY <1>3, <2>4
<1> QED
  BY <1>5, <1>6, <1>7

LEMMA TrackedNext ==
  ASSUME Typed, Typed', Removing, Tracked, [Next]_vars
  PROVE  Tracked'
<1>1. ASSUME Outside PROVE Tracked'
  BY <1>1, OutsideSafe
<1>2. CASE UNCHANGED vars
  BY <1>1, <1>2 DEF Outside, vars
<1>3. ASSUME NEW p \in Cli,
             \/ StartRecovery(p) \/ \E c \in Command : StartCommand(p, c)
             \/ NothingToRecover(p) \/ DoctorFix(p) \/ Kill(p)
      PROVE  Tracked'
  BY <1>1, <1>3, OutsideSteps
<1>4. ASSUME NEW p \in Cli, Proceed(p)
      PROVE  Tracked'
  <2>1. CASE \/ Busy(p) \/ Refuse(p) \/ RecoveryRefused(p)
             \/ Abort(p) \/ Commit(p) \/ Settle(p) \/ SettleUnrecorded(p)
             \/ Restored(p) \/ RecoveryFails(p) \/ Mark(p)
             \/ RemoveRoot(p) \/ RemoveUser(p) \/ UninstallFails(p)
    BY <1>1, <2>1, OutsideSteps
  <2>2. TrackedAt(p)
    BY DEF Tracked
  <2>3. CASE \/ Begin(p) \/ BeginRecovery(p) \/ BeginUninstall(p)
             \/ Write(p) \/ UndoStep(p) \/ WriteFails(p) \/ RestartFails(p) \/ CommitFails(p)
             \/ Restart(p) \/ StopServices(p) \/ UndoFails(p) \/ UndoRestart(p)
    <3>1. lock' = p /\ TrackedAt(p)'
      BY <2>2, <2>3, BeginSafe, StepSafe, FailureSafe, RestartSafe, BackSafe
    <3> QED
      BY <3>1, HolderMoves
  <2> QED
    BY <1>4, <2>1, <2>3 DEF Proceed
<1>5. ASSUME NEW t \in TxId, LoseBackup(t)
      PROVE  Tracked'
  BY <1>1, <1>5 DEF Outside, LoseBackup, held
<1>6. CASE Reboot
  BY <1>1, <1>6 DEF Reboot, Outside, Locked
<1> QED
  BY <1>2, <1>3, <1>4, <1>5, <1>6 DEF Next

\* The records a step leaves closed, and those it closes.
LEMMA ClosedNext ==
  ASSUME Typed, Closed, [Next]_vars
  PROVE  /\ Closed'
         /\ \A t \in TxId : journal'[t].status \in {"ROLLED_BACK", "ABORTED"} =>
              \/ journal'[t] = journal[t]
              \/ \E p \in Cli : (Abort(p) \/ Settle(p)) /\ t = job[p].tx
<1> USE DEF Typed
<1> DEFINE Fine == \A t \in TxId : journal'[t].status \in {"ROLLED_BACK", "ABORTED"} =>
                     \/ journal'[t] = journal[t]
                     \/ /\ journal'[t].backup = {}
                        /\ \E p \in Cli : (Abort(p) \/ Settle(p)) /\ t = job[p].tx
<1>1. SUFFICES Fine
  BY DEF Closed
<1>2. ASSUME UNCHANGED journal PROVE Fine
  BY <1>2
<1>3. ASSUME NEW p \in Cli, Begin(p) PROVE Fine
  <2>1. journal' = [journal EXCEPT ![nextTx] = Progress(job[p].cmd)]
    BY <1>3 DEF Begin
  <2>2. Progress(job[p].cmd).status \in {"IN_PROGRESS", "NONE"}
    BY DEF Progress, NoRecord
  <2> QED
    BY <2>1, <2>2 DEF FilesTyped
<1>4. ASSUME NEW p \in Cli, Abort(p) PROVE Fine
  BY <1>4 DEF Abort, FilesTyped
<1>5. ASSUME NEW p \in Cli, Commit(p) PROVE Fine
  BY <1>5 DEF Commit, FilesTyped
<1>6. ASSUME NEW p \in Cli, Settle(p) PROVE Fine
  BY <1>6 DEF Settle, FilesTyped
<1>7. ASSUME NEW p \in Cli, SettleUnrecorded(p) PROVE Fine
  <2>1. CASE job[p].cmd = "core"
    <3>1. journal' = [journal EXCEPT ![job[p].tx].backup =
                        IF job[p].bad THEN @ ELSE @ \ {"local"}]
      BY <1>7, <2>1 DEF SettleUnrecorded
    <3> QED
      BY <3>1 DEF Closed, FilesTyped, Record
  <2>2. CASE job[p].cmd # "core"
    BY <1>2, <1>7, <2>2 DEF SettleUnrecorded
  <2> QED
    BY <2>1, <2>2
<1>8. ASSUME NEW p \in Cli, Mark(p) PROVE Fine
  <2>1. CASE \E b \in {{}, {"local"}} :
               journal' = [journal EXCEPT ![job[p].target] =
                             [@ EXCEPT !.status = "RECOVERED", !.backup = b]]
    BY <2>1 DEF FilesTyped, Record
  <2> QED
    BY <1>2, <1>8, <2>1 DEF Mark
<1>9. ASSUME NEW p \in Cli, RemoveRoot(p) PROVE Fine
  BY <1>2, <1>9 DEF RemoveRoot, NoRecord
<1>10. ASSUME NEW t \in TxId, LoseBackup(t) PROVE Fine
  BY <1>10 DEF LoseBackup, Closed, FilesTyped, Record
<1>11. ASSUME NEW p \in Cli,
              \/ StartRecovery(p) \/ \E c \in Command : StartCommand(p, c)
              \/ NothingToRecover(p) \/ DoctorFix(p) \/ Kill(p)
       PROVE  Fine
  BY <1>2, <1>11 DEF StartRecovery, StartCommand, NothingToRecover, DoctorFix, Kill, files, vars
<1>12. ASSUME NEW p \in Cli,
              \/ Busy(p) \/ Refuse(p) \/ RecoveryRefused(p) \/ BeginRecovery(p)
              \/ BeginUninstall(p) \/ Write(p) \/ UndoStep(p) \/ WriteFails(p) \/ RestartFails(p)
              \/ CommitFails(p) \/ Restart(p) \/ StopServices(p) \/ UndoFails(p)
              \/ UndoRestart(p) \/ Restored(p) \/ RecoveryFails(p) \/ RemoveUser(p)
              \/ UninstallFails(p)
       PROVE  Fine
  <2>1. UNCHANGED journal
    BY <1>12 DEF Busy, Refuse, RecoveryRefused, BeginRecovery, BeginUninstall, Write, UndoStep,
                 WriteFails, RestartFails, CommitFails, Restart, StopServices, UndoFails,
                 UndoRestart, Restored, RecoveryFails, RemoveUser, UninstallFails, files
  <2> QED
    BY <1>2, <2>1
<1>13. CASE Reboot \/ UNCHANGED vars
  BY <1>2, <1>13 DEF Reboot, vars
<1> HIDE DEF Fine
<1> QED
  BY <1>3, <1>4, <1>5, <1>6, <1>7, <1>8, <1>9, <1>10, <1>11, <1>12, <1>13 DEF Next, Proceed

LEMMA UsedNext ==
  ASSUME Typed, Used, [Next]_vars
  PROVE  Used'
<1> USE DEF Typed
<1>1. ASSUME NEW p \in Cli, NEW c \in Command, StartCommand(p, c)
      PROVE  Used'
  BY <1>1 DEF StartCommand, Used, JobsTyped, Job
<1>2. ASSUME NEW p \in Cli, StartRecovery(p)
      PROVE  Used'
  BY <1>2 DEF StartRecovery, Used, JobsTyped, Job
<1>3. ASSUME \A q \in Cli : job'[q].cmd \in {job[q].cmd, "none"}
      PROVE  Used'
  BY <1>3 DEF Used
<1>4. ASSUME NEW p \in Cli, Exit(p)
      PROVE  Used'
  BY <1>3, <1>4, Exits DEF NoJob
<1>5. ASSUME NEW p \in Cli,
             \/ Begin(p) \/ BeginRecovery(p) \/ BeginUninstall(p) \/ Restart(p)
             \/ RestartFails(p) \/ UndoFails(p) \/ UndoRestart(p)
      PROVE  Used'
  <2>1. job'[p].cmd = job[p].cmd /\ \A q \in Cli \ {p} : job'[q] = job[q]
    BY <1>5 DEF Begin, BeginRecovery, BeginUninstall, Restart, RestartFails, UndoFails,
                UndoRestart, JobsTyped, Job
  <2> QED
    BY <1>3, <2>1
<1>6. ASSUME UNCHANGED job PROVE Used'
  BY <1>3, <1>6
<1>7. ASSUME NEW p \in Cli,
             \/ Busy(p) \/ Refuse(p) \/ RecoveryRefused(p) \/ Abort(p) \/ Commit(p) \/ Settle(p)
             \/ SettleUnrecorded(p) \/ RecoveryFails(p) \/ Mark(p) \/ RemoveUser(p)
             \/ UninstallFails(p) \/ Kill(p)
      PROVE  Used'
  BY <1>4, <1>7 DEF Busy, Refuse, RecoveryRefused, Abort, Commit, Settle, SettleUnrecorded,
                    RecoveryFails, Mark, RemoveUser, UninstallFails, Kill
<1>8. ASSUME NEW p \in Cli,
             \/ Write(p) \/ UndoStep(p) \/ WriteFails(p) \/ CommitFails(p) \/ StopServices(p)
             \/ Restored(p) \/ RemoveRoot(p) \/ DoctorFix(p) \/ NothingToRecover(p)
      PROVE  Used'
  BY <1>6, <1>8 DEF Write, UndoStep, WriteFails, CommitFails, StopServices, Restored, RemoveRoot,
                    DoctorFix, NothingToRecover, vars
<1>9. CASE Reboot \/ (\E t \in TxId : LoseBackup(t)) \/ UNCHANGED vars
  BY <1>3, <1>6, <1>9 DEF Reboot, LoseBackup, vars, NoJob
<1> QED
  BY <1>1, <1>2, <1>5, <1>7, <1>8, <1>9 DEF Next, Proceed

\* Beside who removes the installation nobody else gets to do anything: the
\* lock is held, or nothing is left to begin with.
LEMMA NobodyElse ==
  ASSUME RemoverAlone, Typed, Used, NEW q \in Cli, job[q].cmd = "uninstall", lock = q \/ RootGone,
         NEW p \in Cli \ {q},
         \/ StartRecovery(p) \/ \E c \in Command : StartCommand(p, c)
         \/ NothingToRecover(p) \/ DoctorFix(p) \/ Kill(p) \/ Proceed(p)
  PROVE  UNCHANGED <<disk, running>> /\ (lock = q => UNCHANGED todo) /\ (RootGone => RootGone')
<1> USE DEF Typed
<1>1. Runs[p] \subseteq {"cert"} /\ job[p].cmd \in {"cert", "recover", "none"}
  BY DEF RemoverAlone, Used
<1>2. lock # p /\ pc[p] \notin Locked /\ pc[p] # "user"
  BY <1>1, HostAssumption DEF RootGone, Holding, Working, WorkingAt
<1>3. ASSUME UNCHANGED <<disk, running, journal>>, UNCHANGED held \/ Release(p)
      PROVE  UNCHANGED <<disk, running>> /\ (lock = q => UNCHANGED todo) /\ (RootGone => RootGone')
  BY <1>2, <1>3 DEF RootGone, Release, held
<1>4. CASE \/ StartRecovery(p) \/ \E c \in Command : StartCommand(p, c)
           \/ NothingToRecover(p) \/ Busy(p) \/ Refuse(p) \/ RecoveryRefused(p)
  <2>1. UNCHANGED <<disk, running, journal>> /\ UNCHANGED held
    BY <1>4 DEF StartRecovery, StartCommand, NothingToRecover, Busy, Refuse, RecoveryRefused,
                files, held, vars
  <2> QED
    BY <1>3, <2>1
<1>5. CASE Kill(p)
  BY <1>3, <1>5 DEF Kill
<1>6. ~DoctorFix(p)
  BY <1>1 DEF DoctorFix
<1>7. ~Begin(p)
  <2>1. SUFFICES ASSUME Begin(p) PROVE FALSE
    OBVIOUS
  <2>2. job[p].cmd = "cert" /\ disk["cert"] # Absent /\ lock = NoCli
    BY <1>1, <2>1 DEF Begin, Ready, Working, WorkingAt
  <2> QED
    BY <2>2, HostAssumption DEF RootGone, StateRoot
<1>8. ~BeginRecovery(p)
  <2>1. SUFFICES ASSUME BeginRecovery(p) PROVE FALSE
    OBVIOUS
  <2>2. Usable(job[p].target) /\ job[p].target \in TxId /\ lock = NoCli
    BY <2>1 DEF BeginRecovery, Working, WorkingAt
  <2> QED
    BY <2>2, HostAssumption DEF RootGone, NoRecord, Usable
<1>9. ~BeginUninstall(p)
  BY <1>1 DEF BeginUninstall
<1>10. CASE Mark(p)
  <2>1. UNCHANGED <<disk, running, held>>
        /\ (journal' = journal \/ journal[job[p].target].status # "NONE")
        /\ \/ journal' = journal
           \/ \E b \in {{}, {"local"}} :
                journal' = [journal EXCEPT ![job[p].target] =
                              [@ EXCEPT !.status = "RECOVERED", !.backup = b]]
    BY <1>10 DEF Mark
  <2>2. RootGone => journal' = journal
    <3>1. CASE job[p].target \in TxId
      BY <2>1, <3>1 DEF RootGone, NoRecord
    <3>2. CASE job[p].target \notin TxId
      BY <2>1, <3>2 DEF FilesTyped
    <3> QED
      BY <3>1, <3>2
  <2> QED
    BY <2>1, <2>2 DEF RootGone, held
<1>11. ~(\/ Write(p) \/ WriteFails(p) \/ Abort(p) \/ Restart(p) \/ RestartFails(p)
         \/ Commit(p) \/ CommitFails(p) \/ StopServices(p) \/ UndoStep(p) \/ UndoFails(p)
         \/ UndoRestart(p))
  BY <1>2 DEF Write, WriteFails, Abort, Restart, RestartFails, Commit, CommitFails, StopServices,
              UndoStep, UndoFails, UndoRestart, Locked
<1>12. ~(\/ Settle(p) \/ SettleUnrecorded(p) \/ Restored(p) \/ RecoveryFails(p)
         \/ RemoveRoot(p) \/ RemoveUser(p) \/ UninstallFails(p))
  BY <1>2 DEF Settle, SettleUnrecorded, Restored, RecoveryFails, RemoveRoot, RemoveUser,
              UninstallFails, Undone, Locked
<1> QED
  BY <1>4, <1>5, <1>6, <1>7, <1>8, <1>9, <1>10, <1>11, <1>12 DEF Proceed

\* The others stay where they are, the holder of the lock keeps it.
LEMMA OthersStay ==
  ASSUME Typed, NEW p \in Cli, NEW q \in Cli \ {p},
         \/ StartRecovery(p) \/ \E c \in Command : StartCommand(p, c)
         \/ NothingToRecover(p) \/ DoctorFix(p) \/ Kill(p) \/ Proceed(p)
  PROVE  pc'[q] = pc[q] /\ job'[q] = job[q] /\ (lock = q => lock' = q)
<1> USE DEF Typed
<1>1. ASSUME \/ Exit(p)
             \/ job'[q] = job[q] /\ (pc' = pc \/ \E l \in Label : Goto(p, l)),
             lock' = lock \/ Release(p) \/ lock = NoCli
      PROVE  pc'[q] = pc[q] /\ job'[q] = job[q] /\ (lock = q => lock' = q)
  <2>1. pc'[q] = pc[q] /\ job'[q] = job[q]
    BY <1>1, Goes, Exits
  <2>2. lock = q => lock' = q
    BY <1>1, Releases, HostAssumption
  <2> QED
    BY <2>1, <2>2
<1>2. CASE \/ StartRecovery(p) \/ \E c \in Command : StartCommand(p, c)
           \/ NothingToRecover(p) \/ DoctorFix(p)
  <2>1. lock' = lock /\ job'[q] = job[q] /\ (pc' = pc \/ Goto(p, "wait"))
    BY <1>2 DEF StartRecovery, StartCommand, NothingToRecover, DoctorFix, held, vars, JobsTyped
  <2> QED
    BY <1>1, <2>1 DEF Label
<1>3. CASE \/ Kill(p) \/ Busy(p) \/ Refuse(p) \/ RecoveryRefused(p) \/ Abort(p) \/ Commit(p)
           \/ Settle(p) \/ SettleUnrecorded(p) \/ RecoveryFails(p) \/ Mark(p) \/ RemoveUser(p)
           \/ UninstallFails(p)
  <2>1. Exit(p) /\ (lock' = lock \/ Release(p))
    BY <1>3 DEF Kill, Busy, Refuse, RecoveryRefused, Abort, Commit, Settle, SettleUnrecorded,
                RecoveryFails, Mark, RemoveUser, UninstallFails, held
  <2> QED
    BY <1>1, <2>1
<1>4. CASE Begin(p) \/ BeginRecovery(p) \/ BeginUninstall(p)
  <2>1. lock = NoCli /\ job'[q] = job[q] /\ (Goto(p, "write") \/ Goto(p, "local"))
    BY <1>4 DEF Begin, BeginRecovery, BeginUninstall, JobsTyped
  <2> QED
    BY <1>1, <2>1 DEF Label
<1>5. CASE Write(p) \/ UndoStep(p) \/ UndoFails(p)
  BY <1>5 DEF Write, UndoStep, UndoFails, JobsTyped
<1>6. CASE \/ WriteFails(p) \/ Restart(p) \/ RestartFails(p) \/ CommitFails(p)
           \/ StopServices(p) \/ UndoRestart(p)
  <2>1. /\ lock' = lock /\ job'[q] = job[q]
        /\ \/ Goto(p, "stop") \/ Goto(p, "undo") \/ Goto(p, "commit")
           \/ Goto(p, "settle") \/ Goto(p, "localDone")
    BY <1>6 DEF WriteFails, Restart, RestartFails, CommitFails, StopServices, UndoRestart,
                Abandon, held, JobsTyped
  <2> QED
    BY <1>1, <2>1 DEF Label
<1>7. CASE Restored(p) \/ RemoveRoot(p)
  <2>1. (lock' = lock \/ Release(p)) /\ job' = job /\ (Goto(p, "mark") \/ Goto(p, "user"))
    BY <1>7 DEF Restored, RemoveRoot, held
  <2> QED
    BY <1>1, <2>1 DEF Label
<1> QED
  BY <1>2, <1>3, <1>4, <1>5, <1>6, <1>7 DEF Proceed

\* Only the removal of the root directory leads to the removal of the user.
LEMMA ToUser ==
  ASSUME Typed, NEW p \in Cli, pc'[p] = "user",
         \/ StartRecovery(p) \/ \E c \in Command : StartCommand(p, c)
         \/ NothingToRecover(p) \/ DoctorFix(p) \/ Kill(p) \/ Proceed(p)
  PROVE  RemoveRoot(p)
<1> USE DEF Typed
<1>1. ~Exit(p) /\ \A l \in Label \ {"user"} : ~Goto(p, l)
  BY Goes, Exits
<1>2. ~(\/ StartRecovery(p) \/ \E c \in Command : StartCommand(p, c)
        \/ NothingToRecover(p) \/ DoctorFix(p))
  BY <1>1 DEF StartRecovery, StartCommand, NothingToRecover, DoctorFix, vars, Label
<1>3. ~(\/ Kill(p) \/ Busy(p) \/ Refuse(p) \/ RecoveryRefused(p) \/ Abort(p) \/ Commit(p)
        \/ Settle(p) \/ SettleUnrecorded(p) \/ RecoveryFails(p) \/ Mark(p) \/ RemoveUser(p)
        \/ UninstallFails(p))
  BY <1>1 DEF Kill, Busy, Refuse, RecoveryRefused, Abort, Commit, Settle, SettleUnrecorded,
              RecoveryFails, Mark, RemoveUser, UninstallFails
<1>4. ~(Begin(p) \/ BeginRecovery(p) \/ BeginUninstall(p))
  BY <1>1 DEF Begin, BeginRecovery, BeginUninstall, Label
<1>5. ~(Write(p) \/ UndoStep(p) \/ UndoFails(p))
  BY DEF Write, UndoStep, UndoFails
<1>6. ~(\/ WriteFails(p) \/ Restart(p) \/ RestartFails(p) \/ CommitFails(p)
        \/ StopServices(p) \/ UndoRestart(p) \/ Restored(p))
  BY <1>1 DEF WriteFails, Restart, RestartFails, CommitFails, StopServices, UndoRestart,
              Restored, Abandon, Label
<1> QED
  BY <1>2, <1>3, <1>4, <1>5, <1>6 DEF Proceed

LEMMA RemovingNext ==
  ASSUME RemoverAlone, Typed, Used, Removing, [Next]_vars
  PROVE  Removing'
<1> USE DEF Typed
<1> SUFFICES ASSUME NEW q \in Cli, pc'[q] = "user"
             PROVE  lock' = q \/ RootGone'
  BY DEF Removing
<1>1. CASE UNCHANGED vars
  BY <1>1 DEF vars, Removing, RootGone
<1>2. ASSUME NEW p \in Cli,
             \/ StartRecovery(p) \/ \E c \in Command : StartCommand(p, c)
             \/ NothingToRecover(p) \/ DoctorFix(p) \/ Kill(p) \/ Proceed(p)
      PROVE  lock' = q \/ RootGone'
  <2>1. CASE p # q
    <3>1. pc[q] = "user" /\ (lock = q => lock' = q)
      BY <1>2, <2>1, OthersStay
    <3>2. job[q].cmd = "uninstall"
      BY <3>1 DEF Working, WorkingAt
    <3>3. RootGone => RootGone'
      BY <1>2, <2>1, <3>2, NobodyElse
    <3> QED
      BY <3>1, <3>3 DEF Removing
  <2>2. CASE p = q
    <3>1. RemoveRoot(q)
      BY <1>2, <2>2, ToUser
    <3>2. lock = q
      BY <3>1 DEF RemoveRoot, Holding, Locked
    <3>3. CASE UNCHANGED held
      BY <3>2, <3>3 DEF held
    <3>4. CASE /\ disk' = [f \in File |-> IF f \in StateRoot THEN Absent ELSE disk[f]]
               /\ journal' = [t \in TxId |-> NoRecord] /\ Release(q)
      <4>1. lock' = NoCli
        BY <3>2, <3>4, Releases
      <4>2. \A f \in StateRoot : disk'[f] = Absent
        BY <3>4 DEF File
      <4> QED
        BY <3>4, <4>1, <4>2 DEF RootGone
    <3> QED
      BY <3>1, <3>3, <3>4 DEF RemoveRoot
  <2> QED
    BY <2>1, <2>2
<1>3. CASE Reboot
  BY <1>3 DEF Reboot
<1>4. ASSUME NEW t \in TxId, LoseBackup(t)
      PROVE  lock' = q \/ RootGone'
  <2>1. UNCHANGED <<pc, lock>> /\ journal[t].backup # {}
    BY <1>4 DEF LoseBackup, held
  <2> QED
    BY <2>1 DEF Removing, RootGone, NoRecord
<1> QED
  BY <1>1, <1>2, <1>3, <1>4 DEF Next

LEMMA SafeInit == Init => Safe
<1> SUFFICES ASSUME Init PROVE Safe
  OBVIOUS
<1>1. Typed
  BY TypedInit
<1>2. Closed
  BY DEF Init, Closed, NoRecord
<1>3. \A p \in Cli : pc[p] = "idle" /\ job[p].cmd = "none"
  BY DEF Init, NoJob
<1>4. Used /\ Removing /\ Tracked
  BY <1>3 DEF Used, Removing, Tracked, TrackedAt, Locked
<1> QED
  BY <1>1, <1>2, <1>4 DEF Safe

LEMMA SafeNext ==
  ASSUME RemoverAlone, Safe, [Next]_vars
  PROVE  Safe'
<1>1. Typed /\ Typed'
  BY TypedNext DEF Safe
<1> QED
  BY <1>1, ClosedNext, UsedNext, RemovingNext, TrackedNext DEF Safe

\* A record is closed over the files as they were found.
LEMMA SafeCloses ==
  ASSUME Safe, [Next]_vars, NEW t \in TxId,
         journal'[t].status \in {"ROLLED_BACK", "ABORTED"}, journal'[t] # journal[t]
  PROVE  \E p \in Cli :
           /\ pc[p] \in Locked /\ job[p].cmd \in Changes /\ journal'[t].cmd = job[p].cmd
           /\ \/ disk' = snap
              \/ job[p].cmd \in Installs /\ (job[p].cmd \in untold \/ disk' = Bare)
<1> USE DEF Safe, Typed
<1>1. PICK p \in Cli : (Abort(p) \/ Settle(p)) /\ t = job[p].tx
  BY ClosedNext
<1>2. CASE Abort(p)
  BY <1>1, <1>2 DEF Abort, Unwritten, FilesTyped, Locked, Changes
<1>3. CASE Settle(p)
  <2>1. /\ job[p].cmd \in Changes /\ job[p] \in Job /\ pc[p] \in {"undo", "settle"}
        /\ pc[p] = "undo" => todo = <<>>
    BY <1>3 DEF Settle, Undone, JobsTyped, Job, Working, WorkingAt, Changes, Command
  <2>2. journal'[t].status = RolledBack(p) /\ journal'[t].cmd = job[p].cmd
    BY <1>1, <1>3 DEF Settle, FilesTyped
  <2>3. ~job[p].bad
    BY <2>2 DEF RolledBack
  <2>4. pc[p] \in Locked
    BY <2>1 DEF Locked
  <2>5. disk' = snap \/ (job[p].cmd \in Installs /\ (job[p].cmd \in untold \/ disk' = Bare))
    <3>1. CASE Excused(p)
      BY <2>3, <3>1 DEF Excused
    <3>2. CASE ~Excused(p)
      <4>1. Returning(p)
        BY <2>1, <3>2 DEF Tracked, TrackedAt
      <4>2. todo = <<>>
        BY <2>1, <4>1 DEF Returning
      <4>3. \A f \in File : disk[f] = Goal(p)[f]
        BY <4>1, <4>2 DEF Returning, Touched
      <4>4. disk \in Image /\ Goal(p) \in Image /\ disk' = disk
        BY <1>3, GoalTyped DEF Settle, FilesTyped, HeldTyped
      <4>5. disk' = Goal(p)
        BY <4>3, <4>4 DEF Image
      <4> QED
        BY <4>5 DEF Goal
    <3> QED
      BY <3>1, <3>2
  <2> QED
    BY <2>1, <2>2, <2>4, <2>5
<1> QED
  BY <1>1, <1>2, <1>3

-----------------------------------------------------------------------------
(* What a removal leaves.                                                  *)

\* The services stay down, and what is not yet gone is still to go or to stay.
ClearedAt(p) ==
  job[p].cmd = "uninstall" /\ pc[p] \in {"write", "user"} =>
    /\ running = Stopped
    /\ pc[p] = "write" => \A i \in DOMAIN todo : todo[i].to = Absent
    /\ \A f \in InstallFiles : \/ disk[f] = Absent
                               \/ pc[p] = "write" /\ f \in Touched(todo)
                               \/ job[p].keepCert /\ f \in {"cert", "key"}
Cleared == \A p \in Cli : ClearedAt(p)

Counted == crashes \in Nat /\ faults \in Nat

LEMMA CountedNext ==
  ASSUME Counted, [Next]_vars
  PROVE  Counted'
<1>1. ASSUME crashes' \in {crashes, crashes + 1}, UNCHANGED faults \/ Fault
      PROVE  Counted'
  BY <1>1 DEF Counted, Fault
<1>2. CASE UNCHANGED vars
  BY <1>2 DEF vars, Counted
<1>3. ASSUME NEW p \in Cli,
             \/ StartRecovery(p) \/ \E c \in Command : StartCommand(p, c)
             \/ NothingToRecover(p) \/ DoctorFix(p) \/ Kill(p)
      PROVE  Counted'
  BY <1>1, <1>3 DEF StartRecovery, StartCommand, NothingToRecover, DoctorFix, Kill, vars, count
<1>4. ASSUME NEW p \in Cli,
             \/ Busy(p) \/ Begin(p) \/ Refuse(p) \/ BeginRecovery(p) \/ RecoveryRefused(p)
             \/ BeginUninstall(p) \/ Write(p) \/ WriteFails(p) \/ Abort(p) \/ Restart(p)
      PROVE  Counted'
  BY <1>1, <1>4 DEF Busy, Begin, Refuse, BeginRecovery, RecoveryRefused, BeginUninstall, Write,
                    WriteFails, Abort, Restart, count
<1>5. ASSUME NEW p \in Cli,
             \/ RestartFails(p) \/ Commit(p) \/ CommitFails(p) \/ StopServices(p) \/ UndoStep(p)
             \/ UndoFails(p) \/ UndoRestart(p)
      PROVE  Counted'
  BY <1>1, <1>5 DEF RestartFails, Commit, CommitFails, StopServices, UndoStep, UndoFails,
                    UndoRestart, count
<1>6. ASSUME NEW p \in Cli,
             \/ Settle(p) \/ SettleUnrecorded(p) \/ Restored(p) \/ RecoveryFails(p) \/ Mark(p)
             \/ RemoveRoot(p) \/ RemoveUser(p) \/ UninstallFails(p)
      PROVE  Counted'
  BY <1>1, <1>6 DEF Settle, SettleUnrecorded, Restored, RecoveryFails, Mark, RemoveRoot,
                    RemoveUser, UninstallFails, count
<1>7. ASSUME NEW t \in TxId, LoseBackup(t)
      PROVE  Counted'
  BY <1>1, <1>7 DEF LoseBackup
<1>8. CASE Reboot
  BY <1>1, <1>8 DEF Reboot
<1> QED
  BY <1>2, <1>3, <1>4, <1>5, <1>6, <1>7, <1>8 DEF Next, Proceed

\* The steps of a removal itself.
LEMMA RemoverSteps ==
  ASSUME Typed, NEW p \in Cli, ClearedAt(p),
         \/ StartRecovery(p) \/ \E c \in Command : StartCommand(p, c)
         \/ NothingToRecover(p) \/ DoctorFix(p) \/ Kill(p) \/ Proceed(p)
  PROVE  ClearedAt(p)'
<1> USE DEF Typed
<1>1. SUFFICES ASSUME job'[p].cmd = "uninstall", pc'[p] \in {"write", "user"}
               PROVE  ClearedAt(p)'
  BY DEF ClearedAt
<1>2. CASE BeginUninstall(p)
  <2>1. PICK keepCert \in BOOLEAN : /\ todo' = Uninstall(keepCert)
                                    /\ job' = [job EXCEPT ![p].keepCert = keepCert]
    BY <1>2 DEF BeginUninstall
  <2>2. running' = Stopped /\ pc'[p] = "write" /\ job'[p].keepCert = keepCert
    BY <1>2, <2>1 DEF BeginUninstall, Goto, JobsTyped, Job
  <2>3. Touched(todo') = Owned(keepCert) /\ \A i \in DOMAIN todo' : todo'[i].to = Absent
    BY <2>1, UninstallSteps
  <2> QED
    BY <2>2, <2>3 DEF ClearedAt, Owned, Stopped, Serve
<1>3. CASE Write(p)
  <2>1. /\ \A f \in File : disk'[f] = IF f = todo[1].file THEN todo[1].to ELSE disk[f]
        /\ 1 \in DOMAIN todo
        /\ \A i \in DOMAIN todo' : i + 1 \in DOMAIN todo /\ todo'[i] = todo[i + 1]
        /\ Touched(todo) \subseteq Touched(todo') \cup {todo[1].file}
    BY <1>3, FirstWritten DEF Write, FilesTyped, HeldTyped
  <2>2. pc[p] = "write" /\ UNCHANGED <<pc, job, running>>
    BY <1>3 DEF Write
  <2>3. InstallFiles \subseteq File
    BY DEF InstallFiles
  <2> QED
    BY <1>1, <2>1, <2>2, <2>3 DEF ClearedAt, Stopped, Serve
<1>4. CASE RemoveRoot(p)
  <2>1. /\ pc[p] = "write" /\ todo = <<>> /\ job[p].cmd = "uninstall" /\ pc'[p] = "user"
        /\ UNCHANGED <<running, job>>
    BY <1>4 DEF RemoveRoot, Goto, JobsTyped
  <2>2. \A f \in InstallFiles : disk'[f] \in {disk[f], Absent}
    BY <1>4 DEF RemoveRoot, InstallFiles
  <2>3. Touched(todo) = {}
    BY <2>1 DEF Touched
  <2> QED
    BY <2>1, <2>2, <2>3 DEF ClearedAt, Stopped, Serve
<1>5. ~Exit(p) /\ \A l \in Label \ {"write", "user"} : ~Goto(p, l)
  BY <1>1, Goes, Exits
<1>6. ~(\/ StartRecovery(p) \/ \E c \in Command : StartCommand(p, c)
        \/ NothingToRecover(p) \/ DoctorFix(p))
  BY <1>1, <1>5 DEF StartRecovery, StartCommand, NothingToRecover, DoctorFix, vars, Label
<1>7. ~(\/ Kill(p) \/ Busy(p) \/ Refuse(p) \/ RecoveryRefused(p) \/ Abort(p) \/ Commit(p)
        \/ Settle(p) \/ SettleUnrecorded(p) \/ RecoveryFails(p) \/ Mark(p) \/ RemoveUser(p)
        \/ UninstallFails(p))
  BY <1>5 DEF Kill, Busy, Refuse, RecoveryRefused, Abort, Commit, Settle, SettleUnrecorded,
              RecoveryFails, Mark, RemoveUser, UninstallFails
<1>8. ~(Begin(p) \/ BeginRecovery(p))
  <2>1. SUFFICES ASSUME Begin(p) \/ BeginRecovery(p) PROVE FALSE
    OBVIOUS
  <2>2. job[p].cmd # "uninstall" /\ job'[p].cmd = job[p].cmd
    BY <2>1 DEF Begin, BeginRecovery, JobsTyped, Job
  <2> QED
    BY <1>1, <2>2
<1>9. ~(UndoStep(p) \/ UndoFails(p))
  BY <1>1 DEF UndoStep, UndoFails
<1>10. ~(\/ WriteFails(p) \/ Restart(p) \/ RestartFails(p) \/ CommitFails(p)
         \/ StopServices(p) \/ UndoRestart(p) \/ Restored(p))
  BY <1>5 DEF WriteFails, Restart, RestartFails, CommitFails, StopServices, UndoRestart,
              Restored, Abandon, Label
<1> QED
  BY <1>2, <1>3, <1>4, <1>6, <1>7, <1>8, <1>9, <1>10 DEF Proceed

LEMMA ClearedNext ==
  ASSUME RemoverAlone, Safe, Cleared, [Next]_vars
  PROVE  Cleared'
<1> USE DEF Safe, Typed
<1> SUFFICES ASSUME NEW p \in Cli PROVE ClearedAt(p)'
  BY DEF Cleared
<1>1. ClearedAt(p)
  BY DEF Cleared
<1>2. ASSUME UNCHANGED <<disk, running, pc, job>>, pc[p] = "write" => UNCHANGED todo
      PROVE  ClearedAt(p)'
  BY <1>1, <1>2 DEF ClearedAt, Touched, Stopped, Serve
<1>3. ASSUME NEW q \in Cli,
             \/ StartRecovery(q) \/ \E c \in Command : StartCommand(q, c)
             \/ NothingToRecover(q) \/ DoctorFix(q) \/ Kill(q) \/ Proceed(q)
      PROVE  ClearedAt(p)'
  <2>1. CASE q = p
    BY <1>1, <1>3, <2>1, RemoverSteps
  <2>2. CASE q # p
    <3>1. pc'[p] = pc[p] /\ job'[p] = job[p]
      BY <1>3, <2>2, OthersStay
    <3>2. CASE job[p].cmd = "uninstall" /\ pc[p] \in {"write", "user"}
      <4>1. (lock = p \/ RootGone) /\ (pc[p] = "write" => lock = p)
        BY <3>2 DEF Holding, Locked, Removing
      <4>2. UNCHANGED <<disk, running>> /\ (lock = p => UNCHANGED todo)
        BY <1>3, <2>2, <3>2, <4>1, NobodyElse
      <4> QED
        BY <1>1, <3>1, <4>1, <4>2 DEF ClearedAt, Touched, Stopped, Serve
    <3> QED
      BY <3>1, <3>2 DEF ClearedAt
  <2> QED
    BY <2>1, <2>2
<1>4. CASE Reboot
  BY <1>4 DEF Reboot, ClearedAt
<1>5. CASE UNCHANGED vars
  BY <1>2, <1>5 DEF vars
<1>6. ASSUME NEW t \in TxId, LoseBackup(t)
      PROVE  ClearedAt(p)'
  BY <1>2, <1>6 DEF LoseBackup, held
<1> QED
  BY <1>3, <1>4, <1>5, <1>6 DEF Next

\* What the last step of a removal leaves.
LEMMA LastStep ==
  ASSUME Safe, Cleared, Counted, [Next]_vars, NEW p \in Cli, pc[p] = "user", pc'[p] = "idle",
         crashes' = crashes, faults' = faults
  PROVE  /\ running' = Stopped
         /\ \A f \in File : disk'[f] # Absent => job[p].keepCert /\ f \in StateRoot
<1> USE DEF Safe, Typed
<1>1. RemoveUser(p)
  <2>1. ~Kill(p) /\ ~UninstallFails(p) /\ ~Reboot
    BY DEF Kill, UninstallFails, Fault, Reboot, Counted
  <2>2. \A t \in TxId : ~LoseBackup(t)
    BY DEF LoseBackup
  <2>3. ~UNCHANGED vars
    BY DEF vars
  <2>4. \A q \in Cli \ {p} : ~(\/ StartRecovery(q) \/ \E c \in Command : StartCommand(q, c)
                               \/ NothingToRecover(q) \/ DoctorFix(q) \/ Kill(q) \/ Proceed(q))
    BY OthersStay
  <2>5. ~(\/ StartRecovery(p) \/ \E c \in Command : StartCommand(p, c)
          \/ NothingToRecover(p) \/ DoctorFix(p))
    BY DEF StartRecovery, StartCommand, NothingToRecover, DoctorFix
  <2>6. Proceed(p)
    BY <2>1, <2>2, <2>3, <2>4, <2>5 DEF Next
  <2>7. ~(\/ Busy(p) \/ Begin(p) \/ Refuse(p) \/ BeginRecovery(p) \/ RecoveryRefused(p)
          \/ BeginUninstall(p) \/ Write(p) \/ WriteFails(p) \/ Abort(p) \/ Restart(p)
          \/ RestartFails(p) \/ Commit(p) \/ CommitFails(p))
    BY DEF Busy, Begin, Refuse, BeginRecovery, RecoveryRefused, BeginUninstall, Write, WriteFails,
           Abort, Restart, RestartFails, Commit, CommitFails
  <2>8. ~(\/ StopServices(p) \/ UndoStep(p) \/ UndoFails(p) \/ UndoRestart(p) \/ Settle(p)
          \/ SettleUnrecorded(p) \/ Restored(p) \/ RecoveryFails(p) \/ Mark(p) \/ RemoveRoot(p))
    BY DEF StopServices, UndoStep, UndoFails, UndoRestart, Settle, SettleUnrecorded, Restored,
           RecoveryFails, Mark, RemoveRoot, Undone
  <2> QED
    BY <2>1, <2>6, <2>7, <2>8 DEF Proceed
<1>2. ClearedAt(p) /\ job[p].cmd = "uninstall"
  BY DEF Cleared, Working, WorkingAt
<1>3. running' = running /\ disk' = [disk EXCEPT !["user"] = Absent]
  BY <1>1 DEF RemoveUser
<1>4. \A f \in File : disk'[f] # Absent => f \in InstallFiles /\ disk[f] # Absent
  BY <1>3 DEF FilesTyped, Image, InstallFiles
<1>5. \A f \in InstallFiles : disk[f] # Absent => job[p].keepCert /\ f \in {"cert", "key"}
  BY <1>2 DEF ClearedAt
<1> QED
  BY <1>2, <1>3, <1>4, <1>5 DEF ClearedAt, StateRoot

\* Where nobody else acts while an operator removes the installation, a removal
\* that reports success has stopped the services and left nothing but the
\* certificate it was asked to keep, for any renewals that come meanwhile.
THEOREM RemovalLeavesNothing == ASSUME RemoverAlone PROVE Spec => UninstallLeavesNothing
<1> DEFINE Inv == Safe /\ Cleared /\ Counted
<1>1. Init => Inv
  <2>1. Init => Cleared /\ Counted
    BY DEF Init, Cleared, ClearedAt, Counted
  <2> QED
    BY <2>1, SafeInit
<1>2. Inv /\ [Next]_vars => Inv'
  BY SafeNext, ClearedNext, CountedNext
<1>3. Inv /\ [Next]_vars =>
        [\A p \in Cli : pc[p] = "user" /\ pc'[p] = "idle" /\ crashes' = crashes /\ faults' = faults =>
           /\ running' = Stopped
           /\ \A f \in File : disk'[f] # Absent => job[p].keepCert /\ f \in StateRoot]_vars
  BY LastStep
<1> QED
  BY <1>1, <1>2, <1>3, PTL DEF Spec, UninstallLeavesNothing

LEMMA StepsTyped ==
  ASSUME NEW s \in Seq(OneStep)
  PROVE  \A i \in DOMAIN s : s[i].file \in File /\ s[i].to \in Version
<1>1. \A i \in DOMAIN s : s[i] \in OneStep
  <2>1. Len(s) \in Nat /\ DOMAIN s = 1..Len(s) /\ \A i \in 1..Len(s) : s[i] \in OneStep
    OBVIOUS
  <2> QED
    BY <2>1
<1> QED
  BY <1>1 DEF OneStep

LEMMA RestoreReturns ==
  ASSUME NEW image \in Image
  PROVE  /\ Leads(Restore(image), BackedUp, image)
         /\ Restore(image) # <<>> /\ Head(Restore(image)).file = "singbox"
<1> DEFINE order == <<"singbox", "vpskit", "cores", "cert", "key", "exports", "config", "secrets",
                      "units", "versions", "acme", "state", "ownership">>
<1>1. order \in Seq(File) /\ Elements(order) = BackedUp
  BY DEF File, StateRoot, Elements, BackedUp
<1>2. Restore(image) = [i \in DOMAIN order |-> Step(order[i], image[order[i]])]
  BY DEF Restore
<1>3. order[1] = "singbox" /\ 1 \in DOMAIN order
  OBVIOUS
<1> HIDE DEF order
<1>4. Leads(Restore(image), BackedUp, image)
  BY <1>1, <1>2, OrderedSteps DEF Leads
<1>5. 1 \in DOMAIN Restore(image) /\ Restore(image)[1] = Step("singbox", image["singbox"])
  BY <1>2, <1>3
<1>6. Restore(image) \in Seq(OneStep)
  BY <1>4 DEF Leads
<1> HIDE DEF Leads
<1>7. Restore(image) # <<>> /\ Head(Restore(image)) = Restore(image)[1]
  BY <1>5, <1>6
<1> QED
  BY <1>4, <1>5, <1>7 DEF Step

\* What the undo of a command writes, and where.
LEMMA UndoLeads ==
  ASSUME snap \in Image, NEW d \in Image, NEW p \in Cli, job[p] \in Job,
         job[p].cmd \in Changes \cup {"recover"}
  PROVE  /\ Undo(p, d) \in Seq(OneStep)
         /\ \A i \in DOMAIN Undo(p, d) : Undo(p, d)[i].to = Goal(p)[Undo(p, d)[i].file]
         /\ job[p].cmd \in Changes => Touched(Undo(p, d)) \subseteq Scope(p)
         /\ job[p].cmd = "recover" => Undo(p, d) = Restore(snap)
<1> DEFINE u == Undo(p, d)
<1>1. CASE job[p].cmd \in Installs
  <2>1. u = UndoInstall(p) /\ Scope(p) = InstallScope /\ Goal(p) = Bare
    BY <1>1 DEF Undo, Scope, Goal, Installs
  <2>2. Leads(u, InstallScope, Goal(p))
    BY <2>1, UndoInstallSteps
  <2> QED
    BY <1>1, <2>1, <2>2 DEF Leads, Installs
<1>2. CASE job[p].cmd = "self"
  <2>1. u = UndoSelf /\ Scope(p) = SelfFiles /\ Goal(p) = snap
    BY <1>2 DEF Undo, Scope, Goal, Installs
  <2> QED
    BY <1>2, <2>1, SelfReturns DEF Leads
<1>3. CASE job[p].cmd = "core"
  <2>1. u = UndoCore(snap, job[p].replaces) /\ Scope(p) = CoreFiles(job[p].replaces) /\ Goal(p) = snap
    BY <1>3 DEF Undo, Scope, Goal, Installs
  <2>2. Leads(u, CoreFiles(job[p].replaces), snap)
    BY <2>1, CoreReturns DEF Job
  <2> QED
    BY <1>3, <2>1, <2>2 DEF Leads
<1>4. CASE job[p].cmd = "cert"
  <2>1. u = UndoCert(d) /\ Scope(p) = CertFiles /\ Goal(p) = snap
    BY <1>4 DEF Undo, Scope, Goal, Installs
  <2>2. {"cert", "key"} \cup (IF d["acme"] # snap["acme"] THEN {"acme"} ELSE {}) \subseteq CertFiles
    BY DEF CertFiles
  <2> QED
    BY <1>4, <2>1, <2>2, CertReturns DEF Leads
<1>5. CASE job[p].cmd = "recover"
  <2>1. u = Restore(snap) /\ Goal(p) = snap
    BY <1>5 DEF Undo, Goal, Installs
  <2> QED
    BY <1>5, <2>1, RestoreReturns DEF Leads, Changes, Installs
<1> QED
  BY <1>1, <1>2, <1>3, <1>4, <1>5 DEF Changes

\* How far a command's own sequence reaches into versions and files.
LEMMA ForwardWrites ==
  ASSUME disk \in Image, NEW p \in Cli, job[p] \in Job, job[p].cmd \in Changes, NEW t \in TxId
  PROVE  /\ \A i \in DOMAIN Forward(p, t) : Forward(p, t)[i].to \in {t, Absent, disk["user"]}
         /\ job[p].cmd = "core" => Touched(Forward(p, t)) = CoreFiles(job[p].replaces)
         /\ job[p].cmd = "cert" => Touched(Forward(p, t)) = CertFiles
<1> DEFINE Fine(s) == s \in Seq(OneStep) /\ \A i \in DOMAIN s : s[i].to \in {t, Absent, disk["user"]}
<1>1. ASSUME NEW s, NEW u, Fine(s), Fine(u)
      PROVE  Fine(s \o u)
  BY <1>1, Joined
<1>2. t \in Version /\ Absent \in Version
  BY DEF Version
<1>3. ASSUME NEW fs \in Seq(File), NEW v \in {t, Absent}
      PROVE  Fine(New(fs, v))
  BY <1>2, <1>3, NewSteps
<1>4. ASSUME NEW v \in {t, Absent, disk["user"]}
      PROVE  Fine(<<Step("user", v)>>)
  <2>1. "user" \in File /\ v \in Version
    BY <1>2, <1>4 DEF File, Image
  <2> QED
    BY <2>1, SingleStep DEF Step
<1> HIDE DEF Fine
<1>5. CASE job[p].cmd = "install"
  <2> DEFINE v == IF disk["user"] # Absent THEN disk["user"] ELSE t
             first == <<"vpskit", "singbox", "cores", "versions", "cert", "key">>
             rest  == <<"acme", "config", "exports", "secrets", "env", "state", "ownership", "units">>
  <2>1. first \in Seq(File) /\ rest \in Seq(File) /\ <<"acme">> \in Seq(File)
    BY DEF File, StateRoot
  <2>2. Forward(p, t) = <<Step("user", v)>> \o New(first, t) \o New(<<"acme">>, Absent) \o New(rest, t)
    BY <1>5 DEF Forward, Install, Gone
  <2> HIDE DEF first, rest
  <2>3. Fine(Forward(p, t))
    BY <1>1, <1>3, <1>4, <2>1, <2>2
  <2> QED
    BY <1>5, <2>3 DEF Fine
<1>6. CASE job[p].cmd = "installReality"
  <2> DEFINE v == IF disk["user"] # Absent THEN disk["user"] ELSE t
             plain == <<"vpskit", "singbox", "cores", "versions", "config", "exports", "secrets",
                        "state", "ownership", "units">>
  <2>1. plain \in Seq(File)
    BY DEF File, StateRoot
  <2>2. Forward(p, t) = <<Step("user", v)>> \o New(plain, t)
    BY <1>6 DEF Forward, InstallReality
  <2> HIDE DEF plain
  <2>3. Fine(Forward(p, t))
    BY <1>1, <1>3, <1>4, <2>1, <2>2
  <2> QED
    BY <1>6, <2>3 DEF Fine
<1>7. CASE job[p].cmd = "self"
  <2> DEFINE fs == <<"vpskit", "singbox", "cores", "versions", "units", "config", "exports",
                     "secrets", "state", "ownership">>
  <2>1. fs \in Seq(File) /\ Forward(p, t) = New(fs, t)
    BY <1>7 DEF File, StateRoot, Forward, Self
  <2> HIDE DEF fs
  <2> QED
    BY <1>3, <1>7, <2>1 DEF Fine
<1>8. CASE job[p].cmd = "core"
  <2> DEFINE fs == Replaced(job[p].replaces) \o <<"versions", "state", "ownership">>
  <2>1. fs \in Seq(File)
    BY ReplacedFiles, JoinedFiles DEF Job, File, StateRoot
  <2>2. Forward(p, t) = Core(t, job[p].replaces) /\ Core(t, job[p].replaces) = New(fs, t)
    BY <1>8 DEF Forward, Core, Replaced
  <2> HIDE DEF fs
  <2>3. Touched(Forward(p, t)) = CoreFiles(job[p].replaces)
    BY <2>2, CoreWrites DEF Job
  <2> QED
    BY <1>3, <1>8, <2>1, <2>2, <2>3 DEF Fine
<1>9. CASE job[p].cmd = "cert"
  <2>1. Forward(p, t) = New(<<"cert", "key">>, t) \o New(<<"acme">>, Absent) \o New(<<"acme">>, t)
    BY <1>9 DEF Forward, Cert, Gone
  <2>2. Fine(Forward(p, t))
    BY <1>1, <1>3, <2>1, CertificateFiles
  <2>3. Touched(Forward(p, t)) = CertFiles
    BY <1>9, CertWrites DEF Forward
  <2> QED
    BY <1>9, <2>2, <2>3 DEF Fine
<1> QED
  BY <1>5, <1>6, <1>7, <1>8, <1>9 DEF Changes, Installs

-----------------------------------------------------------------------------
(* What a step does to the record of its invocation.                       *)

Kept(p) ==
  /\ job'[p].cmd = job[p].cmd /\ job'[p].tx = job[p].tx /\ job'[p].base = job[p].base
  /\ job'[p].target = job[p].target /\ job'[p].replaces = job[p].replaces
  /\ job'[p].keepCert = job[p].keepCert /\ job'[p].local = job[p].local

LEMMA Noted ==
  ASSUME JobsTyped, NEW p \in Cli, NEW b \in BOOLEAN
  PROVE  /\ job' = job => Kept(p) /\ job'[p].bad = job[p].bad /\ job'[p].restarted = job[p].restarted
         /\ job' = [job EXCEPT ![p].bad = b] =>
              Kept(p) /\ job'[p].bad = b /\ job'[p].restarted = job[p].restarted
         /\ job' = [job EXCEPT ![p].restarted = b] =>
              Kept(p) /\ job'[p].restarted = b /\ job'[p].bad = job[p].bad
<1>1. job[p] \in Job
  BY DEF JobsTyped
<1>2. ASSUME job' = [job EXCEPT ![p].bad = b]
      PROVE  Kept(p) /\ job'[p].bad = b /\ job'[p].restarted = job[p].restarted
  <2> DEFINE j == [job[p] EXCEPT !.bad = b]
  <2>1. job' = [job EXCEPT ![p] = j]
    BY <1>2
  <2>2. /\ j \in Job /\ j.cmd = job[p].cmd /\ j.tx = job[p].tx /\ j.base = job[p].base
        /\ j.target = job[p].target /\ j.replaces = job[p].replaces
        /\ j.keepCert = job[p].keepCert /\ j.local = job[p].local
        /\ j.bad = b /\ j.restarted = job[p].restarted
    BY <1>1 DEF Job
  <2> HIDE DEF j
  <2> QED
    BY <2>1, <2>2, Replaces DEF Kept
<1>3. ASSUME job' = [job EXCEPT ![p].restarted = b]
      PROVE  Kept(p) /\ job'[p].restarted = b /\ job'[p].bad = job[p].bad
  <2> DEFINE j == [job[p] EXCEPT !.restarted = b]
  <2>1. job' = [job EXCEPT ![p] = j]
    BY <1>3
  <2>2. /\ j \in Job /\ j.cmd = job[p].cmd /\ j.tx = job[p].tx /\ j.base = job[p].base
        /\ j.target = job[p].target /\ j.replaces = job[p].replaces
        /\ j.keepCert = job[p].keepCert /\ j.local = job[p].local
        /\ j.restarted = b /\ j.bad = job[p].bad
    BY <1>1 DEF Job
  <2> HIDE DEF j
  <2> QED
    BY <2>1, <2>2, Replaces DEF Kept
<1>4. job' = job => Kept(p) /\ job'[p].bad = job[p].bad /\ job'[p].restarted = job[p].restarted
  BY DEF Kept
<1> QED
  BY <1>2, <1>3, <1>4

LEMMA Begun ==
  ASSUME Typed, NEW p \in Cli, Begin(p)
  PROVE  /\ job[p].cmd \in Changes /\ job'[p].cmd = job[p].cmd /\ job'[p].tx = nextTx
         /\ job'[p].base = (IF job[p].cmd = "core" THEN disk["state"] ELSE job[p].base)
         /\ job'[p].replaces = job[p].replaces /\ job'[p].bad = job[p].bad
         /\ job'[p].restarted = job[p].restarted /\ job'[p].local = job[p].local
         /\ pc'[p] = "write"
<1> USE DEF Typed
<1> DEFINE base == IF job[p].cmd = "core" THEN disk["state"] ELSE job[p].base
           j == [job[p] EXCEPT !.tx = nextTx, !.base = base]
<1>1. job' = [job EXCEPT ![p] = j] /\ nextTx \in TxId /\ Goto(p, "write")
  BY DEF Begin
<1>2. job[p] \in Job /\ job[p].cmd \in Changes
  BY DEF Begin, JobsTyped, Job, Working, WorkingAt, Changes, Command
<1>3. base \in Version
  BY <1>2 DEF Job, FilesTyped, Image, File, StateRoot
<1> HIDE DEF base
<1>4. /\ j \in Job /\ j.cmd = job[p].cmd /\ j.tx = nextTx /\ j.base = base
      /\ j.replaces = job[p].replaces /\ j.bad = job[p].bad
      /\ j.restarted = job[p].restarted /\ j.local = job[p].local
  BY <1>1, <1>2, <1>3 DEF Job, Version
<1> HIDE DEF j
<1>5. job'[p] = j
  BY <1>1, <1>4, Replaces
<1>6. pc'[p] = "write"
  BY <1>1, Goes DEF Label
<1> QED
  BY <1>2, <1>4, <1>5, <1>6 DEF base

LEMMA RecoveryBegun ==
  ASSUME Typed, NEW p \in Cli, BeginRecovery(p)
  PROVE  /\ job[p].target \in TxId /\ job'[p].cmd = "recover" /\ job'[p].target = job[p].target
         /\ job'[p].bad = job[p].bad /\ job'[p].replaces = job[p].replaces
         /\ \/ /\ "persistent" \in journal[job[p].target].backup
               /\ todo' = Restore(bak[job[p].target])
               /\ pc'[p] = "write" /\ job'[p].local = job[p].local
               /\ job'[p].restarted = job[p].restarted
            \/ /\ "local" \in journal[job[p].target].backup
               /\ todo' = UndoCore(bak[job[p].target], names[job[p].target]["singbox"] = job[p].target)
               /\ pc'[p] = "local" /\ job'[p].local /\ job'[p].restarted
<1> USE DEF Typed
<1> DEFINE t == job[p].target
           j == [job[p] EXCEPT !.local = TRUE, !.restarted = TRUE]
<1>1. t \in TxId /\ job[p].cmd = "recover" /\ job[p] \in Job
  BY DEF BeginRecovery, Working, WorkingAt, JobsTyped
<1>2. CASE "persistent" \in journal[t].backup
  <2>1. job' = job /\ Goto(p, "write") /\ todo' = Restore(bak[t])
    BY <1>2 DEF BeginRecovery
  <2>2. pc'[p] = "write"
    BY <2>1, Goes DEF Label
  <2> QED
    BY <1>1, <1>2, <2>1, <2>2
<1>3. CASE "persistent" \notin journal[t].backup
  <2>1. /\ job' = [job EXCEPT ![p] = j] /\ Goto(p, "local") /\ "local" \in journal[t].backup
        /\ todo' = UndoCore(bak[t], names[t]["singbox"] = t)
    BY <1>3 DEF BeginRecovery, Usable
  <2>2. /\ j \in Job /\ j.cmd = job[p].cmd /\ j.target = job[p].target /\ j.bad = job[p].bad
        /\ j.replaces = job[p].replaces /\ j.local /\ j.restarted
    BY <1>1 DEF Job
  <2> HIDE DEF j
  <2>3. job'[p] = j /\ pc'[p] = "local"
    BY <2>1, <2>2, Replaces, Goes DEF Label
  <2> QED
    BY <1>1, <2>1, <2>2, <2>3
<1> QED
  BY <1>2, <1>3

\* The steps of the holder of the lock that keep it.
LEMMA HolderGoes ==
  ASSUME Typed, NEW p \in Cli,
         \/ Write(p) \/ WriteFails(p) \/ Restart(p) \/ RestartFails(p) \/ CommitFails(p)
         \/ StopServices(p) \/ UndoStep(p) \/ UndoFails(p) \/ UndoRestart(p)
  PROVE  /\ lock = p /\ lock' = p /\ pc[p] \in Locked /\ pc'[p] \in Locked /\ Kept(p)
         /\ UNCHANGED <<journal, bak, names, snap, nextTx>> /\ untold \subseteq untold'
<1> USE DEF Typed
<1>1. pc[p] \in {"write", "commit", "stop", "undo", "local"}
      /\ UNCHANGED <<journal, bak, names, snap, lock, nextTx>> /\ untold \subseteq untold'
  BY DEF Write, WriteFails, Restart, RestartFails, CommitFails, StopServices, UndoStep, UndoFails,
         UndoRestart, files, held, count
<1>2. \/ job' = job \/ job' = [job EXCEPT ![p].bad = TRUE]
      \/ job' = [job EXCEPT ![p].restarted = Restarts(p)] \/ job' = [job EXCEPT ![p].restarted = TRUE]
  BY DEF Write, WriteFails, Restart, RestartFails, CommitFails, StopServices, UndoStep, UndoFails,
         UndoRestart, Attempted
<1>3. Restarts(p) \in BOOLEAN
  BY DEF Restarts, JobsTyped, Job
<1>4. Kept(p)
  BY <1>2, <1>3, Noted
<1>5. \/ pc' = pc
      \/ \E l \in {"commit", "stop", "undo", "settle", "localDone"} : Goto(p, l)
  BY DEF Write, WriteFails, Restart, RestartFails, CommitFails, StopServices, UndoStep, UndoFails,
         UndoRestart, Abandon
<1>6. pc'[p] \in Locked
  BY <1>1, <1>5, Goes DEF Label, Locked
<1> QED
  BY <1>1, <1>4, <1>6 DEF Holding, Locked

-----------------------------------------------------------------------------
(* One shell beside the timers of the host.                                *)

\* One operator's shell, and any number of confined renewals.
OneShell ==
  /\ \A p, q \in Cli \ Confined : p = q
  /\ \A p \in Confined : Runs[p] \subseteq {"cert"}

\* Versions come from transactions that have begun.
Below(d) == \A f \in File : d[f] < nextTx
Numbered ==
  /\ nextTx \in Nat \ {0}
  /\ Below(disk) /\ Below(snap) /\ (\A t \in TxId : Below(bak[t]))
  /\ \A i \in DOMAIN todo : todo[i].to < nextTx
  /\ \A t \in TxId : t >= nextTx => journal[t].status = "NONE"
  /\ \A p \in Cli : pc[p] \in Locked /\ job[p].cmd \in Changes => job[p].tx < nextTx

\* Backups are named by what is in progress, or was recovered from a local one.
Named ==
  \A t \in TxId :
    /\ journal[t].backup # {} => journal[t].status \in {"IN_PROGRESS", "RECOVERED"}
    /\ journal[t].status = "RECOVERED" => journal[t].backup \in {{}, {"local"}}

OneIncomplete == \A t, u \in Incomplete : t = u

\* What a core update in progress may have changed; nothing else has changed
\* since, but the certificate.
Own(t) == CoreFiles(names[t]["singbox"] = t)
Spared ==
  \A t \in Incomplete : \A f \in File \ (Own(t) \cup CertFiles) : disk[f] = bak[t][f]

\* The holder's sequence leads the files fs to what they are in image.
Heading(fs, image) ==
  /\ \A f \in fs : disk[f] = image[f] \/ f \in Touched(todo)
  /\ \A i \in DOMAIN todo : todo[i].to = image[todo[i].file]

\* What an invocation that does not hold the lock has found.
WaitingAt(p) ==
  /\ pc[p] \in {"idle", "wait"} => ~job[p].restarted /\ ~job[p].bad /\ ~job[p].local
  /\ p \notin Confined /\ job[p].cmd = "recover" => job[p].target \in Incomplete
  /\ pc[p] # "idle" /\ job[p].cmd \in Installs \cup {"self", "uninstall"} => Incomplete = {}
  /\ pc[p] = "wait" /\ job[p].cmd = "core" => Incomplete = {}
  /\ pc[p] = "mark" => p \notin Confined /\ job[p].cmd = "recover"

\* The holder of the lock: its record, and what its sequence is confined to.
PlacedAt(p) ==
  pc[p] \in Locked =>
    /\ job[p].cmd = "core" => /\ Incomplete = {job[p].tx} /\ bak[job[p].tx] = snap
                              /\ (names[job[p].tx]["singbox"] = job[p].tx) <=> job[p].replaces
    /\ job[p].cmd \in Changes \ {"core"} => journal[job[p].tx].status = "NONE"
    /\ job[p].cmd \in {"core", "cert"} =>
         Touched(todo) \subseteq Scope(p) /\ \A f \in File \ Scope(p) : disk[f] = snap[f]
    /\ pc[p] \in {"commit", "settle", "localDone"} => todo = <<>>
    /\ pc[p] = "commit" => job[p].restarted \/ ~Restarts(p)
    /\ pc[p] = "stop" => job[p].cmd \in Installs
    /\ pc[p] \in {"local", "localDone"} => job[p].cmd = "recover" /\ job[p].local /\ job[p].restarted
    /\ pc[p] \notin {"local", "localDone"} => ~job[p].local

\* A confined recovery gets no further than systemd lets it.
BarredAt(p) ==
  pc[p] \in Locked /\ p \in Confined /\ job[p].cmd = "recover" =>
    /\ pc[p] \in {"write", "undo", "local", "localDone"}
    /\ pc[p] = "write" => Blocked(p) /\ ~job[p].restarted
    /\ pc[p] = "undo" => ~job[p].restarted /\ (Blocked(p) \/ (todo = <<>> /\ job[p].bad))
    /\ pc[p] = "local" => /\ job[p].bad \/ "versions" \in Touched(todo)
                          /\ Touched(todo) \subseteq CoreFiles(TRUE)
    /\ pc[p] = "localDone" => job[p].bad

\* A recovery that is not confined, forth, back, or by the local copy.
RestoringAt(p) ==
  pc[p] \in Locked /\ p \notin Confined /\ job[p].cmd = "recover" =>
    /\ pc[p] \in {"write", "commit"} => Heading(BackedUp, bak[job[p].target])
    /\ pc[p] = "undo" => \A i \in DOMAIN todo : todo[i].to = snap[todo[i].file]
    /\ \A f \in File \ (Own(job[p].target) \cup CertFiles) : snap[f] = bak[job[p].target][f]
    /\ pc[p] \in {"local", "localDone"} =>
         /\ Touched(todo) \subseteq Own(job[p].target)
         /\ ~job[p].bad => Heading(Own(job[p].target), bak[job[p].target])
    /\ pc[p] = "commit" \/ (pc[p] = "localDone" /\ ~job[p].bad) => running = Serve(disk)

AllPlaced == \A p \in Cli : WaitingAt(p) /\ PlacedAt(p) /\ BarredAt(p) /\ RestoringAt(p)

Shelled == Safe /\ Numbered /\ Named /\ OneIncomplete /\ Spared /\ AllPlaced

\* The steps of the holder of the lock that give it up.
LEMMA HolderLeaves ==
  ASSUME Typed, NEW p \in Cli,
         \/ Abort(p) \/ Commit(p) \/ Settle(p) \/ SettleUnrecorded(p) \/ RecoveryFails(p)
  PROVE  /\ lock = p /\ lock' = NoCli /\ pc[p] \in Locked
         /\ pc'[p] = "idle" /\ job'[p] = NoJob
         /\ todo' = <<>> /\ snap' = Empty /\ UNCHANGED <<disk, running, names, nextTx>>
<1> USE DEF Typed
<1>1. /\ pc[p] \in Locked /\ Exit(p) /\ Release(p)
      /\ UNCHANGED <<disk, running, names, nextTx>>
  BY DEF Abort, Commit, Settle, SettleUnrecorded, RecoveryFails, Undone, Locked, count
<1> QED
  BY <1>1, Exits, Releases DEF Holding, Release

\* Numbers.
LEMMA Lower ==
  ASSUME Typed, Typed', Numbered, nextTx' \in Nat, nextTx' >= nextTx,
         \A f \in File : disk'[f] < nextTx',
         \A f \in File : snap'[f] \in {snap[f], disk[f], Absent},
         \A t \in TxId, f \in File : bak'[t][f] \in {bak[t][f], disk[f], Absent},
         \A i \in DOMAIN todo' : todo'[i].to < nextTx',
         \A t \in TxId : t >= nextTx' => journal'[t].status \in {"NONE", journal[t].status},
         \A q \in Cli : pc'[q] \in Locked /\ job'[q].cmd \in Changes =>
           \/ pc[q] \in Locked /\ job[q].cmd \in Changes /\ job'[q].tx = job[q].tx
           \/ job'[q].tx < nextTx'
  PROVE  Numbered'
<1> USE DEF Typed
<1>1. \A f \in File : disk[f] \in Nat /\ snap[f] \in Nat /\ \A t \in TxId : bak[t][f] \in Nat
  <2>1. disk \in Image /\ snap \in Image /\ \A t \in TxId : bak[t] \in Image
    BY DEF FilesTyped, HeldTyped
  <2>2. \A d \in Image, f \in File : d[f] \in Nat
    BY DEF Image, Version, TxId, Absent
  <2> QED
    BY <2>1, <2>2
<1>2. \A t \in TxId : t \in Nat
  BY DEF TxId
<1>3. nextTx \in Nat \ {0} /\ nextTx' \in Nat \ {0}
  BY DEF Numbered
<1>4. Below(disk)' /\ Below(snap)' /\ \A t \in TxId : Below(bak[t])'
  BY <1>1, <1>3 DEF Below, Numbered, Absent
<1>5. \A t \in TxId : t >= nextTx' => journal'[t].status = "NONE"
  BY <1>2, <1>3 DEF Numbered
<1>6. \A q \in Cli : pc'[q] \in Locked /\ job'[q].cmd \in Changes => job'[q].tx < nextTx'
  <2> TAKE q \in Cli
  <2>1. job[q].tx \in Nat
    BY DEF JobsTyped, Job, Version, TxId, Absent
  <2> QED
    BY <1>3, <2>1 DEF Numbered
<1> QED
  BY <1>3, <1>4, <1>5, <1>6 DEF Numbered

\* A command that fails on its way has something to undo.
LEMMA Undoes ==
  ASSUME Typed, NEW p \in Cli, WriteFails(p) \/ RestartFails(p) \/ CommitFails(p)
  PROVE  /\ job[p].cmd \in Changes \cup {"recover"} /\ todo' = Undo(p, disk')
         /\ pc'[p] = (IF job[p].cmd \in Installs THEN "stop" ELSE "undo")
<1> USE DEF Typed
<1>1. /\ pc[p] \in {"write", "commit"} /\ job[p].cmd # "uninstall"
      /\ Abandon(p, disk')
  BY DEF WriteFails, RestartFails, CommitFails, files, Working, WorkingAt
<1>2. job[p].cmd \in Changes \cup {"recover"}
  BY <1>1 DEF Working, WorkingAt, JobsTyped, Job, Command, Changes
<1> QED
  BY <1>1, <1>2, Goes DEF Abandon, Label

\* Where a failing write leaves the files.
LEMMA HalfWritten ==
  ASSUME Typed, NEW p \in Cli, WriteFails(p)
  PROVE  disk' = disk \/ (todo # <<>> /\ ~Blocked(p) /\ disk' = After(disk, Head(todo)))
<1>1. CASE Blocked(p)
  BY <1>1 DEF WriteFails
<1>2. CASE ~Blocked(p)
  <2>1. disk' \in {disk} \cup {After(disk, todo[i]) : i \in DOMAIN todo \cap {1}}
    BY <1>2 DEF WriteFails
  <2>2. todo \in Seq(OneStep)
    BY DEF Typed, HeldTyped
  <2>3. 1 \in DOMAIN todo => todo # <<>> /\ Head(todo) = todo[1]
    BY <2>2
  <2> QED
    BY <1>2, <2>1, <2>3
<1> QED
  BY <1>1, <1>2

LEMMA NumberedNext ==
  ASSUME Typed, Typed', Numbered, [Next]_vars
  PROVE  Numbered'
<1> USE DEF Typed
<1>1. /\ nextTx \in Nat \ {0} /\ \A f \in File : Absent < nextTx /\ disk[f] < nextTx /\ snap[f] < nextTx
      /\ \A t \in TxId, f \in File : bak[t][f] < nextTx
      /\ \A i \in DOMAIN todo : todo[i].to < nextTx /\ todo[i].file \in File
  <2>1. \A i \in DOMAIN todo : todo[i].file \in File
    BY StepsTyped DEF HeldTyped
  <2>2. nextTx \in Nat \ {0} /\ Absent < nextTx
    BY DEF Numbered, Absent
  <2> QED
    BY <2>1, <2>2 DEF Numbered, Below
<1>2. DOMAIN <<>> = {}
  OBVIOUS
<1>3. ASSUME NEW p \in Cli, Release(p) \/ UNCHANGED held
      PROVE  /\ \A f \in File : snap'[f] \in {snap[f], disk[f], Absent}
             /\ \A i \in DOMAIN todo' : todo'[i].to < nextTx
  BY <1>1, <1>2, <1>3 DEF Release, held, Empty
<1>4. ASSUME NEW p \in Cli, Exit(p)
      PROVE  \A q \in Cli : pc'[q] \in Locked /\ job'[q].cmd \in Changes =>
               pc[q] \in Locked /\ job[q].cmd \in Changes /\ job'[q].tx = job[q].tx
  BY <1>4, Exits DEF Locked
<1>5. CASE UNCHANGED vars
  BY <1>5 DEF vars, Numbered, Below
<1>6. ASSUME NEW p \in Cli, Exit(p), Release(p) \/ UNCHANGED held, UNCHANGED <<disk, nextTx>>,
             \A t \in TxId, f \in File : bak'[t][f] \in {bak[t][f], Absent},
             \A t \in TxId : t >= nextTx => journal'[t].status \in {"NONE", journal[t].status}
      PROVE  Numbered'
  BY <1>1, <1>3, <1>4, <1>6, Lower
<1>7. ASSUME NEW p \in Cli, StartRecovery(p) \/ \E c \in Command : StartCommand(p, c)
      PROVE  Numbered'
  <2>1. /\ Goto(p, "wait") /\ \A q \in Cli \ {p} : job'[q] = job[q]
        /\ UNCHANGED <<disk, snap, todo, bak, nextTx, journal>>
    BY <1>7 DEF StartRecovery, StartCommand, files, held, JobsTyped
  <2>2. pc'[p] = "wait" /\ \A q \in Cli \ {p} : pc'[q] = pc[q]
    BY <2>1, Goes DEF Label
  <2> QED
    BY <1>1, <2>1, <2>2, Lower DEF Locked
<1>8. ASSUME NEW p \in Cli, NothingToRecover(p) \/ DoctorFix(p)
      PROVE  Numbered'
  BY <1>8 DEF NothingToRecover, DoctorFix, vars, held, count, Numbered, Below
<1>9. ASSUME NEW p \in Cli,
             \/ Busy(p) \/ Refuse(p) \/ RecoveryRefused(p) \/ RecoveryFails(p) \/ UninstallFails(p)
             \/ Kill(p)
      PROVE  Numbered'
  <2>1. Exit(p) /\ (Release(p) \/ UNCHANGED held) /\ UNCHANGED <<disk, nextTx, bak, journal>>
    BY <1>9 DEF Busy, Refuse, RecoveryRefused, RecoveryFails, UninstallFails, Kill, files, count
  <2> QED
    BY <1>6, <2>1
<1>10. ASSUME NEW p \in Cli, Abort(p) \/ Commit(p) \/ Settle(p) \/ SettleUnrecorded(p)
       PROVE  Numbered'
  <2>1. Exit(p) /\ Release(p) /\ UNCHANGED <<disk, nextTx>>
    BY <1>10 DEF Abort, Commit, Settle, SettleUnrecorded, count
  <2>2. pc[p] \in Locked /\ job[p].cmd \in Changes
    BY <1>10 DEF Abort, Commit, Settle, SettleUnrecorded, Undone, Locked, Working, WorkingAt,
                 JobsTyped, Job, Command, Changes
  <2>3. job[p].tx \in TxId /\ job[p].tx < nextTx
    BY <2>2 DEF Numbered, Working, WorkingAt
  <2>4. \A t \in TxId : t >= nextTx => t # job[p].tx
    BY <1>1, <2>3 DEF TxId
  <2>5. \A t \in TxId, f \in File : bak'[t][f] \in {bak[t][f], Absent}
    BY <1>10 DEF Abort, Commit, Settle, SettleUnrecorded, FilesTyped, Empty
  <2>6. \A t \in TxId : t # job[p].tx => journal'[t].status = journal[t].status
    BY <1>10 DEF Abort, Commit, Settle, SettleUnrecorded, FilesTyped
  <2> QED
    BY <1>6, <2>1, <2>4, <2>5, <2>6
<1>11. ASSUME NEW p \in Cli, Mark(p)
       PROVE  Numbered'
  <2> DEFINE u == job[p].target
  <2>1. Exit(p) /\ UNCHANGED <<disk, nextTx, held>>
    BY <1>11 DEF Mark
  <2>2. \A t \in TxId, f \in File : bak'[t][f] \in {bak[t][f], Absent}
    BY <1>11 DEF Mark, FilesTyped, Empty
  <2>3. \A t \in TxId : journal[t].status = "NONE" => journal'[t].status = "NONE"
    BY <1>11 DEF Mark, FilesTyped
  <2> QED
    BY <1>6, <2>1, <2>2, <2>3 DEF Numbered
<1>12. ASSUME NEW p \in Cli, Begin(p)
       PROVE  Numbered'
  <2>1. /\ nextTx \in TxId /\ snap' = disk /\ todo' = Forward(p, nextTx) /\ UNCHANGED disk
        /\ journal' = [journal EXCEPT ![nextTx] = Progress(job[p].cmd)]
        /\ bak' = [bak EXCEPT ![nextTx] = IF job[p].cmd = "core" THEN disk ELSE Empty]
        /\ nextTx' = nextTx + 1
    BY <1>12 DEF Begin
  <2>2. job[p].cmd \in Changes /\ job'[p].tx = nextTx
    BY <1>12, Begun
  <2>3. \A i \in DOMAIN todo' : todo'[i].to \in {nextTx, Absent, disk["user"]}
    BY <2>1, <2>2, ForwardWrites DEF FilesTyped, JobsTyped
  <2>4. disk["user"] < nextTx
    BY <1>1 DEF File
  <2>5. \A f \in File : disk'[f] < nextTx'
    BY <1>1, <2>1 DEF FilesTyped, Image, Version, TxId, Absent
  <2>6. \A i \in DOMAIN todo' : todo'[i].to < nextTx'
    BY <1>1, <2>1, <2>3, <2>4 DEF FilesTyped, Image, Version, TxId, Absent, File
  <2>7. \A t \in TxId, f \in File : bak'[t][f] \in {bak[t][f], disk[f], Absent}
    BY <2>1 DEF FilesTyped, Empty
  <2>8. \A t \in TxId : t >= nextTx' => journal'[t].status = journal[t].status
    BY <1>1, <2>1 DEF FilesTyped, TxId
  <2>9. \A q \in Cli \ {p} : pc'[q] = pc[q] /\ job'[q] = job[q]
    BY <1>12, OthersStay DEF Proceed
  <2> QED
    BY <1>1, <2>1, <2>2, <2>5, <2>6, <2>7, <2>8, <2>9, Lower
<1>13. ASSUME NEW p \in Cli, BeginRecovery(p)
       PROVE  Numbered'
  <2> DEFINE t == job[p].target
  <2>1. t \in TxId /\ bak[t] \in Image /\ job'[p].cmd = "recover"
        /\ \/ todo' = Restore(bak[t])
           \/ todo' = UndoCore(bak[t], names[t]["singbox"] = t)
    BY <1>13, RecoveryBegun DEF FilesTyped
  <2>2. \A i \in DOMAIN todo' : todo'[i].to = bak[t][todo'[i].file]
    <3>1. (names[t]["singbox"] = t) \in BOOLEAN
      OBVIOUS
    <3>2. Leads(UndoCore(bak[t], names[t]["singbox"] = t), CoreFiles(names[t]["singbox"] = t), bak[t])
      BY <2>1, <3>1, CoreReturns
    <3>3. Leads(Restore(bak[t]), BackedUp, bak[t])
      BY <2>1, RestoreReturns
    <3> QED
      BY <2>1, <3>2, <3>3 DEF Leads
  <2>3. \A i \in DOMAIN todo' : todo'[i].file \in File
    BY StepsTyped DEF HeldTyped
  <2>4. snap' = disk /\ UNCHANGED <<disk, bak, journal, nextTx>>
    BY <1>13 DEF BeginRecovery, files, count
  <2>5. \A q \in Cli \ {p} : pc'[q] = pc[q] /\ job'[q] = job[q]
    BY <1>13, OthersStay DEF Proceed
  <2>6. \A i \in DOMAIN todo' : todo'[i].to < nextTx
    BY <1>1, <2>1, <2>2, <2>3
  <2> QED
    BY <1>1, <2>1, <2>4, <2>5, <2>6, Lower DEF Changes, Installs
<1>14. ASSUME NEW p \in Cli, BeginUninstall(p)
       PROVE  Numbered'
  <2>1. PICK keepCert \in BOOLEAN : /\ todo' = Uninstall(keepCert)
                                    /\ job' = [job EXCEPT ![p].keepCert = keepCert]
    BY <1>14 DEF BeginUninstall
  <2>2. \A i \in DOMAIN todo' : todo'[i].to = Absent
    BY <2>1, UninstallSteps
  <2>3. snap' = disk /\ UNCHANGED <<disk, bak, journal, nextTx>> /\ job[p].cmd = "uninstall"
    BY <1>14 DEF BeginUninstall, count
  <2>4. job'[p].cmd = "uninstall"
    BY <2>1, <2>3 DEF JobsTyped, Job
  <2>5. \A q \in Cli \ {p} : pc'[q] = pc[q] /\ job'[q] = job[q]
    BY <1>14, OthersStay DEF Proceed
  <2> QED
    BY <1>1, <2>2, <2>3, <2>4, <2>5, Lower DEF Changes, Installs, Absent
<1>15. ASSUME NEW p \in Cli,
              \/ Write(p) \/ WriteFails(p) \/ Restart(p) \/ RestartFails(p) \/ CommitFails(p)
              \/ StopServices(p) \/ UndoStep(p) \/ UndoFails(p) \/ UndoRestart(p)
       PROVE  Numbered'
  <2>1. /\ pc[p] \in Locked /\ Kept(p) /\ UNCHANGED <<journal, bak, snap, nextTx>>
    BY <1>15, HolderGoes
  <2>2. \A q \in Cli \ {p} : pc'[q] = pc[q] /\ job'[q] = job[q]
    BY <1>15, OthersStay DEF Proceed
  <2>3. ASSUME todo # <<>>
        PROVE  \A f \in File : After(disk, Head(todo))[f] < nextTx
    BY <1>1, <2>3, FirstWritten DEF FilesTyped, HeldTyped
  <2>4. \A f \in File : disk'[f] < nextTx
    <3>1. CASE Write(p) \/ UndoStep(p)
      BY <2>3, <3>1 DEF Write, UndoStep
    <3>2. CASE WriteFails(p)
      BY <1>1, <2>3, <3>2, HalfWritten
    <3>3. CASE UndoFails(p)
      <4>1. \/ disk' = disk \/ disk' = After(disk, Head(todo))
            \/ disk' = [disk EXCEPT !["acme"] = Absent]
        BY <3>3 DEF UndoFails
      <4>2. todo # <<>>
        BY <3>3 DEF UndoFails
      <4> QED
        BY <1>1, <2>3, <4>1, <4>2 DEF FilesTyped, Image
    <3>4. CASE \/ Restart(p) \/ RestartFails(p) \/ CommitFails(p) \/ StopServices(p) \/ UndoRestart(p)
      BY <1>1, <3>4 DEF Restart, RestartFails, CommitFails, StopServices, UndoRestart, files
    <3> QED
      BY <1>15, <3>1, <3>2, <3>3, <3>4
  <2>5. \A i \in DOMAIN todo' : todo'[i].to < nextTx
    <3>1. CASE WriteFails(p) \/ RestartFails(p) \/ CommitFails(p)
      <4>1. job[p].cmd \in Changes \cup {"recover"} /\ todo' = Undo(p, disk')
        BY <3>1, Undoes
      <4>2. \A i \in DOMAIN todo' : todo'[i].to = Goal(p)[todo'[i].file]
        BY <4>1, UndoLeads DEF FilesTyped, HeldTyped, JobsTyped
      <4>3. \A f \in File : Goal(p)[f] \in {snap[f], Absent}
        BY DEF Goal, Bare, Empty
      <4>4. \A i \in DOMAIN todo' : todo'[i].file \in File
        BY StepsTyped DEF HeldTyped
      <4> QED
        BY <1>1, <4>2, <4>3, <4>4
    <3>2. CASE todo # <<>> /\ todo' = Tail(todo)
      BY <1>1, <3>2, FirstWritten DEF FilesTyped, HeldTyped
    <3>3. CASE todo' = todo \/ todo' = <<>>
      BY <1>1, <1>2, <3>3
    <3>4. CASE \/ Write(p) \/ Restart(p) \/ StopServices(p) \/ UndoStep(p) \/ UndoFails(p)
               \/ UndoRestart(p)
      <4>1. todo' = todo \/ todo' = <<>> \/ (todo # <<>> /\ todo' = Tail(todo))
        BY <3>4 DEF Write, Restart, StopServices, UndoStep, UndoFails, UndoRestart, held
      <4> QED
        BY <3>2, <3>3, <4>1
    <3> QED
      BY <1>15, <3>1, <3>4
  <2> QED
    BY <1>1, <2>1, <2>2, <2>4, <2>5, Lower DEF Kept
<1>16. ASSUME NEW p \in Cli, Restored(p) \/ RemoveRoot(p)
       PROVE  Numbered'
  <2>1. /\ Release(p) \/ UNCHANGED held
        /\ UNCHANGED <<nextTx, job>>
        /\ \A f \in File : disk'[f] \in {disk[f], Absent}
        /\ \A t \in TxId, f \in File : bak'[t][f] \in {bak[t][f], Absent}
        /\ \A t \in TxId : journal'[t].status \in {"NONE", journal[t].status}
    BY <1>16 DEF Restored, RemoveRoot, files, count, Empty, NoRecord
  <2>2. Goto(p, "mark") \/ Goto(p, "user")
    BY <1>16 DEF Restored, RemoveRoot
  <2>3. pc'[p] \notin Locked /\ \A q \in Cli \ {p} : pc'[q] = pc[q]
    BY <2>2, Goes DEF Label, Locked
  <2>4. \A f \in File : disk'[f] < nextTx
    BY <1>1, <2>1
  <2> QED
    BY <1>1, <1>3, <2>1, <2>3, <2>4, Lower
<1>17. ASSUME NEW p \in Cli, RemoveUser(p)
       PROVE  Numbered'
  <2>1. \A f \in File : disk'[f] < nextTx
    BY <1>1, <1>17 DEF RemoveUser, FilesTyped, Image
  <2>2. Exit(p) /\ Release(p) /\ UNCHANGED <<nextTx, bak, journal>>
    BY <1>17 DEF RemoveUser, count
  <2> QED
    BY <1>1, <1>3, <1>4, <2>1, <2>2, Lower
<1>18. CASE Reboot
  <2>1. \A f \in File : snap'[f] = Absent
    BY <1>18 DEF Reboot, Empty
  <2>2. \A q \in Cli : pc'[q] \notin Locked
    BY <1>18 DEF Reboot, Locked
  <2> QED
    BY <1>1, <1>2, <1>18, <2>1, <2>2, Lower DEF Reboot
<1>19. ASSUME NEW t \in TxId, LoseBackup(t)
       PROVE  Numbered'
  <2>1. \A u \in TxId : journal'[u].status = journal[u].status
    BY <1>19 DEF LoseBackup, FilesTyped, Record
  <2> QED
    BY <1>1, <1>19, <2>1, Lower DEF LoseBackup, held
<1> QED
  BY <1>5, <1>7, <1>8, <1>9, <1>10, <1>11, <1>12, <1>13, <1>14, <1>15, <1>16, <1>17, <1>18, <1>19
     DEF Next, Proceed

-----------------------------------------------------------------------------
(* Who may change what.                                                    *)

Moves(p) == \/ StartRecovery(p) \/ \E c \in Command : StartCommand(p, c)
            \/ NothingToRecover(p) \/ DoctorFix(p) \/ Kill(p) \/ Proceed(p)

\* A step of the holder of the lock changes at most the first file that is due.
LEMMA FirstFile ==
  ASSUME Typed, NEW p \in Cli,
         \/ Write(p) \/ WriteFails(p) \/ Restart(p) \/ RestartFails(p) \/ CommitFails(p)
         \/ StopServices(p) \/ UndoStep(p) \/ UndoFails(p) \/ UndoRestart(p),
         NEW f \in File, disk'[f] # disk[f]
  PROVE  /\ todo # <<>> /\ ~Blocked(p) /\ f = Head(todo).file /\ f \in Touched(todo)
         /\ \/ disk'[f] = Head(todo).to
            \/ f = "acme" /\ UndoFails(p)
<1> USE DEF Typed
<1>1. ASSUME todo # <<>>
      PROVE  /\ Head(todo).file \in Touched(todo)
             /\ \A g \in File : After(disk, Head(todo))[g] =
                                  IF g = Head(todo).file THEN Head(todo).to ELSE disk[g]
  <2>1. 1 \in DOMAIN todo /\ Head(todo) = todo[1]
    BY <1>1, FirstWritten DEF FilesTyped, HeldTyped
  <2> QED
    BY <1>1, <2>1, FirstWritten DEF FilesTyped, HeldTyped, Touched
<1>2. CASE todo # <<>> /\ ~Blocked(p) /\ disk' = After(disk, Head(todo))
  BY <1>1, <1>2
<1>3. CASE Write(p) \/ UndoStep(p)
  BY <1>2, <1>3 DEF Write, UndoStep
<1>4. CASE WriteFails(p)
  BY <1>2, <1>4, HalfWritten
<1>5. CASE UndoFails(p)
  <2>1. todo # <<>> /\ ~Blocked(p)
    BY <1>5 DEF UndoFails
  <2>2. CASE Head(todo).file = "acme" /\ disk' = [disk EXCEPT !["acme"] = Absent]
    <3>1. f = "acme"
      BY <2>2 DEF FilesTyped, Image
    <3> QED
      BY <1>1, <1>5, <2>1, <2>2, <3>1
  <2>3. disk' = After(disk, Head(todo)) \/ (Head(todo).file = "acme" /\ disk' = [disk EXCEPT !["acme"] = Absent])
    BY <1>5, <2>1 DEF UndoFails
  <2> QED
    BY <1>2, <2>1, <2>2, <2>3
<1>6. CASE \/ Restart(p) \/ RestartFails(p) \/ CommitFails(p) \/ StopServices(p) \/ UndoRestart(p)
  BY <1>6 DEF Restart, RestartFails, CommitFails, StopServices, UndoRestart, files
<1> QED
  BY <1>3, <1>4, <1>5, <1>6

\* A confined invocation leaves what is on record, and most of the files.
LEMMA ConfinedStep ==
  ASSUME OneShell, Typed, Used, Numbered, NEW p \in Confined, p \in Cli,
         WaitingAt(p), PlacedAt(p), BarredAt(p), Moves(p)
  PROVE  /\ Incomplete' = Incomplete /\ UNCHANGED names
         /\ \A t \in Incomplete : bak'[t] = bak[t] /\ journal'[t] = journal[t]
         /\ \A f \in File \ (CertFiles \cup CoreFiles(FALSE)) : disk'[f] = disk[f]
<1> USE DEF Typed
<1>1. job[p].cmd \in {"cert", "recover", "none"} /\ Runs[p] \subseteq {"cert"}
  BY DEF OneShell, Used
<1>2. ASSUME UNCHANGED <<journal, bak, names, disk>>
      PROVE  /\ Incomplete' = Incomplete /\ UNCHANGED names
             /\ \A t \in Incomplete : bak'[t] = bak[t] /\ journal'[t] = journal[t]
             /\ \A f \in File \ (CertFiles \cup CoreFiles(FALSE)) : disk'[f] = disk[f]
  BY <1>2 DEF Incomplete
<1>3. CASE \/ StartRecovery(p) \/ \E c \in Command : StartCommand(p, c)
           \/ NothingToRecover(p) \/ Kill(p)
  BY <1>2, <1>3 DEF StartRecovery, StartCommand, NothingToRecover, Kill, files, vars
<1>4. ~DoctorFix(p)
  BY <1>1 DEF DoctorFix
<1>5. CASE Busy(p) \/ Refuse(p) \/ RecoveryRefused(p) \/ BeginRecovery(p) \/ Restored(p) \/ RecoveryFails(p)
  BY <1>2, <1>5 DEF Busy, Refuse, RecoveryRefused, BeginRecovery, Restored, RecoveryFails, files
<1>6. CASE Begin(p)
  <2>1. job[p].cmd = "cert"
    BY <1>1, <1>6, Begun DEF Changes, Installs
  <2>2. /\ nextTx \in TxId /\ UNCHANGED <<disk, names>>
        /\ journal' = [journal EXCEPT ![nextTx] = NoRecord]
        /\ bak' = [bak EXCEPT ![nextTx] = Empty]
    BY <1>6, <2>1 DEF Begin, Progress
  <2>3. journal[nextTx].status = "NONE"
    BY <2>2 DEF Numbered
  <2>4. nextTx \notin Incomplete
    BY <2>3 DEF Incomplete
  <2>5. \A t \in TxId : journal'[t].status = journal[t].status
    BY <2>2, <2>3 DEF FilesTyped, NoRecord
  <2> QED
    BY <2>2, <2>4, <2>5 DEF Incomplete, FilesTyped
<1>7. ~(\/ BeginUninstall(p) \/ RemoveRoot(p) \/ RemoveUser(p) \/ UninstallFails(p) \/ Mark(p))
  BY <1>1 DEF BeginUninstall, RemoveRoot, RemoveUser, UninstallFails, Mark, WaitingAt,
              Working, WorkingAt, Installs
<1>8. CASE Commit(p) \/ Settle(p) \/ Abort(p)
  <2>1. job[p].cmd = "cert" /\ pc[p] \in Locked
    BY <1>1, <1>8 DEF Commit, Settle, Undone, Abort, Installs, Locked, Working, WorkingAt
  <2>2. journal[job[p].tx].status = "NONE" /\ job[p].tx \in TxId
    BY <2>1 DEF PlacedAt, Changes, Installs, Working, WorkingAt
  <2>3. job[p].tx \notin Incomplete
    BY <2>2 DEF Incomplete
  <2>4. /\ UNCHANGED <<disk, names>>
        /\ \E s \in {"COMMITTED", "ROLLED_BACK", "ROLLBACK_FAILED"} :
             journal' = [journal EXCEPT ![job[p].tx] = [status |-> s, cmd |-> job[p].cmd, backup |-> {}]]
        /\ bak' = [bak EXCEPT ![job[p].tx] = Empty]
    BY <1>8, <2>1 DEF Commit, Settle, RolledBack, Abort
  <2>5. \A t \in TxId \ {job[p].tx} : journal'[t] = journal[t] /\ bak'[t] = bak[t]
    BY <2>4 DEF FilesTyped
  <2>6. journal'[job[p].tx].status # "IN_PROGRESS"
    BY <2>2, <2>4 DEF FilesTyped
  <2> QED
    BY <2>2, <2>3, <2>4, <2>5, <2>6 DEF Incomplete
<1>9. CASE SettleUnrecorded(p)
  <2>1. job[p].cmd # "core"
    BY <1>1
  <2> QED
    BY <1>2, <1>9, <2>1 DEF SettleUnrecorded
<1>10. CASE \/ Write(p) \/ WriteFails(p) \/ Restart(p) \/ RestartFails(p) \/ CommitFails(p)
            \/ StopServices(p) \/ UndoStep(p) \/ UndoFails(p) \/ UndoRestart(p)
  <2>1. UNCHANGED <<journal, bak, names>> /\ pc[p] \in Locked
    BY <1>10, HolderGoes
  <2>2. ASSUME NEW f \in File, disk'[f] # disk[f]
        PROVE  f \in CertFiles \cup CoreFiles(FALSE)
    <3>1. todo # <<>> /\ ~Blocked(p) /\ f = Head(todo).file /\ f \in Touched(todo)
      BY <1>10, <2>2, FirstFile
    <3>2. CASE job[p].cmd = "cert"
      BY <2>1, <3>1, <3>2 DEF PlacedAt, Scope, Installs
    <3>3. CASE job[p].cmd = "recover"
      <4>1. pc[p] = "local" /\ Touched(todo) \subseteq CoreFiles(TRUE)
        <5>1. pc[p] \in {"write", "undo", "local", "localDone"}
          BY <2>1, <3>3 DEF BarredAt
        <5>2. pc[p] # "write" /\ pc[p] # "undo"
          BY <2>1, <3>1, <3>3 DEF BarredAt
        <5>3. pc[p] # "localDone"
          BY <2>1, <3>1 DEF PlacedAt
        <5> QED
          BY <2>1, <3>3, <5>1, <5>2, <5>3 DEF BarredAt
      <4>2. f \in StateRoot
        BY <3>1 DEF Blocked
      <4> QED
        BY <3>1, <4>1, <4>2 DEF CoreFiles, StateRoot
    <3> QED
      BY <1>1, <2>1, <3>2, <3>3 DEF Working, WorkingAt, Locked
  <2>3. Incomplete' = Incomplete
    BY <2>1 DEF Incomplete
  <2> QED
    BY <2>1, <2>2, <2>3
<1> QED
  BY <1>3, <1>4, <1>5, <1>6, <1>7, <1>8, <1>9, <1>10 DEF Moves, Proceed

\* What the last step of a recovery writes.
LEMMA MarkWrites ==
  ASSUME Typed, NEW p \in Cli, WaitingAt(p), Mark(p)
  PROVE  /\ job[p].cmd = "recover" /\ p \notin Confined /\ job[p].target \in Incomplete
         /\ pc'[p] = "idle" /\ job'[p] = NoJob
         /\ UNCHANGED <<disk, running, names, untold, lock, snap, todo, nextTx>>
         /\ \/ UNCHANGED <<journal, bak>>
            \/ LET t == job[p].target
               IN  /\ journal'[t].status = "RECOVERED" /\ journal'[t].cmd = journal[t].cmd
                   /\ journal'[t].backup = (IF job[p].local THEN {"local"} ELSE {})
                   /\ Incomplete' = Incomplete \ {t}
                   /\ \A u \in TxId \ {t} : journal'[u] = journal[u] /\ bak'[u] = bak[u]
                   /\ \A f \in File : bak'[t][f] \in {bak[t][f], Absent}
<1> USE DEF Typed
<1> DEFINE t == job[p].target
           b == IF job[p].local THEN {"local"} ELSE {}
<1>1. /\ pc[p] = "mark" /\ Exit(p) /\ UNCHANGED <<disk, running, names, untold, held, nextTx>>
      /\ \/ UNCHANGED <<journal, bak>>
         \/ /\ journal' = [journal EXCEPT ![t] = [@ EXCEPT !.status = "RECOVERED", !.backup = b]]
            /\ bak' = IF job[p].local THEN bak ELSE [bak EXCEPT ![t] = Empty]
  BY DEF Mark
<1>2. job[p].cmd = "recover" /\ p \notin Confined /\ t \in Incomplete /\ t \in TxId
  BY <1>1 DEF WaitingAt, Working, WorkingAt
<1>3. pc'[p] = "idle" /\ job'[p] = NoJob
  BY <1>1, Exits
<1>4. CASE UNCHANGED <<journal, bak>>
  BY <1>1, <1>2, <1>3, <1>4 DEF held
<1>5. CASE /\ journal' = [journal EXCEPT ![t] = [@ EXCEPT !.status = "RECOVERED", !.backup = b]]
           /\ bak' = IF job[p].local THEN bak ELSE [bak EXCEPT ![t] = Empty]
  <2> HIDE DEF b, t
  <2>1. /\ journal'[t].status = "RECOVERED" /\ journal'[t].cmd = journal[t].cmd
        /\ journal'[t].backup = b
        /\ \A u \in TxId \ {t} : journal'[u] = journal[u]
    BY <1>2, <1>5 DEF FilesTyped, Record
  <2>2. /\ \A u \in TxId \ {t} : bak'[u] = bak[u]
        /\ \A f \in File : bak'[t][f] \in {bak[t][f], Absent}
    BY <1>2, <1>5 DEF FilesTyped, Empty
  <2>3. Incomplete' = Incomplete \ {t}
    BY <2>1 DEF Incomplete
  <2> QED
    BY <1>1, <1>2, <1>3, <2>1, <2>2, <2>3 DEF held, b, t
<1> QED
  BY <1>1, <1>4, <1>5

\* While another invocation holds the lock, there is little to do.
LEMMA Bystander ==
  ASSUME Typed, Removing, NEW p \in Cli, lock # p, lock # NoCli, Moves(p)
  PROVE  /\ UNCHANGED <<disk, snap, todo, names, lock, nextTx, untold>>
         /\ Mark(p) \/ UNCHANGED <<journal, bak>>
         /\ DoctorFix(p) \/ UNCHANGED running
<1> USE DEF Typed
<1>1. pc[p] \notin Locked /\ pc[p] # "user"
  BY DEF Holding, Removing, RootGone
<1>2. CASE \/ StartRecovery(p) \/ \E c \in Command : StartCommand(p, c)
           \/ NothingToRecover(p) \/ DoctorFix(p) \/ Busy(p)
  BY <1>2 DEF StartRecovery, StartCommand, NothingToRecover, DoctorFix, Busy, files, held, count, vars
<1>3. CASE Kill(p)
  <2>1. Release(p) /\ UNCHANGED <<disk, running, journal, bak, names, nextTx>>
        /\ untold' = untold \cup Leaves(p)
    BY <1>3 DEF Kill
  <2>2. Leaves(p) = {}
    BY <1>1 DEF Leaves
  <2> QED
    BY <2>1, <2>2, Releases
<1>4. ~(\/ Begin(p) \/ Refuse(p) \/ BeginRecovery(p) \/ RecoveryRefused(p) \/ BeginUninstall(p))
  BY DEF Begin, Refuse, BeginRecovery, RecoveryRefused, BeginUninstall
<1>5. ~(\/ Write(p) \/ WriteFails(p) \/ Abort(p) \/ Restart(p) \/ RestartFails(p)
        \/ Commit(p) \/ CommitFails(p) \/ StopServices(p) \/ UndoStep(p) \/ UndoFails(p)
        \/ UndoRestart(p))
  BY <1>1 DEF Write, WriteFails, Abort, Restart, RestartFails, Commit, CommitFails, StopServices,
              UndoStep, UndoFails, UndoRestart, Locked
<1>6. ~(\/ Settle(p) \/ SettleUnrecorded(p) \/ Restored(p) \/ RecoveryFails(p)
        \/ RemoveRoot(p) \/ RemoveUser(p) \/ UninstallFails(p))
  BY <1>1 DEF Settle, SettleUnrecorded, Restored, RecoveryFails, RemoveRoot, RemoveUser,
              UninstallFails, Undone, Locked
<1>7. CASE Mark(p)
  BY <1>7 DEF Mark, held
<1> QED
  BY <1>2, <1>3, <1>4, <1>5, <1>6, <1>7 DEF Moves, Proceed

\* The invocations that do not move stay placed.
LEMMA OthersPlaced ==
  ASSUME OneShell, Shelled, NEW p \in Cli, NEW q \in Cli \ {p}, Moves(p)
  PROVE  WaitingAt(q)' /\ PlacedAt(q)' /\ BarredAt(q)' /\ RestoringAt(q)'
<1> USE DEF Shelled, Safe, Typed
<1>1. pc'[q] = pc[q] /\ job'[q] = job[q]
  BY OthersStay DEF Moves
<1>2. /\ WaitingAt(p) /\ PlacedAt(p) /\ BarredAt(p)
      /\ WaitingAt(q) /\ PlacedAt(q) /\ BarredAt(q) /\ RestoringAt(q)
  BY DEF AllPlaced
<1>3. pc[q] \in Locked => lock = q /\ lock # p /\ lock # NoCli
  BY HostAssumption DEF Holding
<1>4. CASE q \notin Confined
  <2>1. p \in Confined /\ Runs[p] \subseteq {"cert"}
    BY <1>4 DEF OneShell
  <2>2. /\ Incomplete' = Incomplete /\ UNCHANGED names
    BY <1>2, <2>1, ConfinedStep
  <2>3. WaitingAt(q)'
    BY <1>1, <1>2, <2>2 DEF WaitingAt
  <2>4. CASE pc[q] \in Locked
    <3>1. UNCHANGED <<disk, snap, todo, names, journal, bak, running>>
      <4>1. ~Mark(p)
        BY <1>2, <2>1 DEF Mark, WaitingAt
      <4>2. ~DoctorFix(p)
        BY <2>1 DEF DoctorFix
      <4> QED
        BY <1>3, <2>4, <4>1, <4>2, Bystander
    <3>2. PlacedAt(q)'
      BY <1>1, <1>2, <2>2, <3>1 DEF PlacedAt, Scope, InstallScope, Touched, Restarts
    <3>3. BarredAt(q)'
      BY <1>4 DEF BarredAt
    <3>4. RestoringAt(q)'
      BY <1>1, <1>2, <2>2, <3>1 DEF RestoringAt, Heading, Own, Touched, Serve
    <3> QED
      BY <2>3, <3>2, <3>3, <3>4
  <2>5. CASE pc[q] \notin Locked
    BY <1>1, <2>3, <2>5 DEF PlacedAt, BarredAt, RestoringAt
  <2> QED
    BY <2>4, <2>5
<1>5. CASE q \in Confined
  <2>1. job[q].cmd \in {"cert", "recover", "none"} /\ pc[q] # "mark"
    BY <1>2, <1>5 DEF OneShell, Used, WaitingAt
  <2>2. WaitingAt(q)'
    BY <1>1, <1>2, <1>5, <2>1 DEF WaitingAt, Installs
  <2>3. CASE pc[q] \in Locked
    <3>1. UNCHANGED <<disk, snap, todo, names>> /\ (Mark(p) \/ UNCHANGED journal)
      BY <1>3, <2>3, Bystander
    <3>2. job[q].cmd = "cert" => journal'[job[q].tx].status = "NONE"
      <4>1. SUFFICES ASSUME job[q].cmd = "cert", Mark(p) PROVE journal'[job[q].tx].status = "NONE"
        BY <1>2, <2>3, <3>1 DEF PlacedAt, Changes, Installs
      <4>2. journal[job[q].tx].status = "NONE" /\ job[q].tx \in TxId
        BY <1>2, <2>3, <4>1 DEF PlacedAt, Changes, Installs, Working, WorkingAt
      <4>3. job[q].tx # job[p].target
        BY <1>2, <4>1, <4>2, MarkWrites DEF Incomplete
      <4> QED
        BY <1>2, <4>1, <4>2, <4>3, MarkWrites
    <3>3. PlacedAt(q)'
      BY <1>1, <1>2, <2>1, <3>1, <3>2 DEF PlacedAt, Scope, Changes, Installs, Touched, Restarts
    <3>4. BarredAt(q)'
      BY <1>1, <1>2, <3>1 DEF BarredAt, Blocked, Touched
    <3>5. RestoringAt(q)'
      BY <1>5 DEF RestoringAt
    <3> QED
      BY <2>2, <3>3, <3>4, <3>5
  <2>4. CASE pc[q] \notin Locked
    BY <1>1, <2>2, <2>4 DEF PlacedAt, BarredAt, RestoringAt
  <2> QED
    BY <2>3, <2>4
<1> QED
  BY <1>4, <1>5

\* What an invocation that begins to work has found.
LEMMA BeginPlaced ==
  ASSUME OneShell, Shelled, Typed', NEW p \in Cli, Begin(p)
  PROVE  WaitingAt(p)' /\ PlacedAt(p)' /\ BarredAt(p)' /\ RestoringAt(p)'
<1> USE DEF Shelled, Safe, Typed
<1> DEFINE c == job[p].cmd
           t == nextTx
<1>1. /\ pc[p] = "wait" /\ t \in TxId /\ snap' = disk /\ todo' = Forward(p, t) /\ UNCHANGED disk
      /\ journal' = [journal EXCEPT ![t] = Progress(c)]
      /\ bak' = [bak EXCEPT ![t] = IF c = "core" THEN disk ELSE Empty]
      /\ Ready(p)
  BY DEF Begin
<1>2. /\ c \in Changes /\ job'[p].cmd = c /\ job'[p].tx = t
      /\ job'[p].replaces = job[p].replaces /\ job'[p].bad = job[p].bad
      /\ job'[p].restarted = job[p].restarted /\ job'[p].local = job[p].local
      /\ pc'[p] = "write"
  BY Begun
<1>3. WaitingAt(p) /\ ~job'[p].local
  BY <1>1, <1>2 DEF AllPlaced, WaitingAt
<1>4. \A u \in TxId \ {t} : journal'[u] = journal[u]
  BY <1>1 DEF FilesTyped
<1>5. journal'[t] = Progress(c)
  BY <1>1 DEF FilesTyped
<1>6. journal[t].status = "NONE"
  BY <1>1 DEF Numbered
<1>7. c # "core" => journal'[t].status = "NONE" /\ Incomplete' = Incomplete
  BY <1>4, <1>5, <1>6 DEF Progress, NoRecord, Incomplete
<1>8. c = "core" => Incomplete' = {t}
  <2>1. c = "core" => Incomplete = {} /\ journal'[t].status = "IN_PROGRESS"
    BY <1>1, <1>3, <1>5 DEF WaitingAt, Progress
  <2> QED
    BY <1>1, <1>4, <2>1 DEF Incomplete
<1>9. WaitingAt(p)'
  BY <1>1, <1>2, <1>3, <1>7 DEF WaitingAt, Changes, Installs
<1>10. BarredAt(p)' /\ RestoringAt(p)'
  BY <1>2 DEF BarredAt, RestoringAt, Changes, Installs
<1>11. c = "core" => bak'[t] = snap' /\ ((names'[t]["singbox"] = t) <=> job[p].replaces)
  <2> SUFFICES ASSUME c = "core"
               PROVE  bak'[t] = snap' /\ ((names'[t]["singbox"] = t) <=> job[p].replaces)
    OBVIOUS
  <2>1. bak'[t] = snap'
    BY <1>1 DEF FilesTyped
  <2>2. names' = [names EXCEPT ![t] = Rendered(p, disk["state"], t)]
    BY DEF Begin
  <2>3. names'[t]["singbox"] = Rendered(p, disk["state"], t)["singbox"] /\ "singbox" \in File
    BY <1>1, <2>2 DEF FilesTyped, File
  <2>4. Touched(Forward(p, t)) = CoreFiles(job[p].replaces)
    BY <1>1, <1>2, ForwardWrites DEF FilesTyped, JobsTyped
  <2>5. "singbox" \in Touched(Forward(p, t)) <=> job[p].replaces
    BY <2>4 DEF CoreFiles
  <2>6. Rendered(p, disk["state"], t)["singbox"] =
          IF "singbox" \in Touched(Forward(p, t)) THEN t
          ELSE IF disk["state"] = Absent THEN Absent ELSE names[disk["state"]]["singbox"]
    BY <2>3 DEF Rendered, Touched
  <2>7. disk["state"] # Absent /\ disk["singbox"] = names[disk["state"]]["singbox"]
    BY <1>1 DEF Ready
  <2>8. disk["singbox"] < t /\ disk["singbox"] \in Nat /\ t \in Nat
    BY <1>1, <2>3 DEF Numbered, Below, FilesTyped, Image, Version, TxId, Absent
  <2> QED
    BY <2>1, <2>3, <2>5, <2>6, <2>7, <2>8
<1>12. c \in {"core", "cert"} => Touched(todo') \subseteq Scope(p)'
  <2>1. c = "core" => Touched(todo') = CoreFiles(job[p].replaces)
    BY <1>1, <1>2, ForwardWrites DEF FilesTyped, JobsTyped
  <2>2. c = "cert" => Touched(todo') = CertFiles
    BY <1>1, <1>2, ForwardWrites DEF FilesTyped, JobsTyped
  <2>3. c = "core" => Scope(p)' = CoreFiles(job[p].replaces)
    BY <1>2 DEF Scope, Installs
  <2>4. c = "cert" => Scope(p)' = CertFiles
    BY <1>2 DEF Scope, Installs
  <2> QED
    BY <2>1, <2>2, <2>3, <2>4
<1>13. \A f \in File : disk'[f] = snap'[f]
  BY <1>1
<1> HIDE DEF c, t
<1>14. PlacedAt(p)'
  BY <1>2, <1>3, <1>7, <1>8, <1>11, <1>12, <1>13 DEF PlacedAt, Changes, Installs, c
<1> QED
  BY <1>9, <1>10, <1>14

LEMMA BeginRecoveryPlaced ==
  ASSUME OneShell, Shelled, Typed', NEW p \in Cli, BeginRecovery(p)
  PROVE  WaitingAt(p)' /\ PlacedAt(p)' /\ BarredAt(p)' /\ RestoringAt(p)'
<1> USE DEF Shelled, Safe, Typed
<1> DEFINE t == job[p].target
<1>1. /\ pc[p] = "wait" /\ job[p].cmd = "recover" /\ snap' = disk /\ UNCHANGED files
  BY DEF BeginRecovery
<1>2. UNCHANGED <<disk, journal, bak, names>> /\ Incomplete' = Incomplete
  BY <1>1 DEF files, Incomplete
<1>3. WaitingAt(p) /\ ~job[p].local /\ ~job[p].bad /\ ~job[p].restarted
      /\ (p \notin Confined => t \in Incomplete)
  BY <1>1 DEF AllPlaced, WaitingAt
<1>4. /\ t \in TxId /\ job'[p].cmd = "recover" /\ job'[p].target = t
      /\ job'[p].bad = job[p].bad /\ job'[p].replaces = job[p].replaces
      /\ bak[t] \in Image
  BY RecoveryBegun DEF FilesTyped
<1>5. /\ Own(job[p].target)' = Own(t)
      /\ p \notin Confined => \A f \in File \ (Own(t) \cup CertFiles) : snap'[f] = bak'[t][f]
  BY <1>1, <1>2, <1>3, <1>4 DEF Spared, Own
<1>6. CASE /\ todo' = Restore(bak[t]) /\ pc'[p] = "write" /\ job'[p].local = job[p].local
           /\ job'[p].restarted = job[p].restarted
  <2>1. /\ Leads(todo', BackedUp, bak[t]) /\ todo' # <<>> /\ Head(todo').file = "singbox"
    BY <1>4, <1>6, RestoreReturns
  <2>2. Heading(BackedUp, bak[t])'
    BY <1>2, <1>4, <2>1 DEF Heading, Leads
  <2>3. p \in Confined => Blocked(p)'
    BY <2>1 DEF Blocked, StateRoot
  <2>4. WaitingAt(p)' /\ PlacedAt(p)' /\ BarredAt(p)'
    BY <1>2, <1>3, <1>4, <1>6, <2>3 DEF WaitingAt, PlacedAt, BarredAt, Changes, Installs
  <2>5. RestoringAt(p)'
    BY <1>2, <1>4, <1>5, <1>6, <2>2 DEF RestoringAt
  <2> QED
    BY <2>4, <2>5
<1>7. CASE /\ todo' = UndoCore(bak[t], names[t]["singbox"] = t)
           /\ pc'[p] = "local" /\ job'[p].local /\ job'[p].restarted
  <2>1. (names[t]["singbox"] = t) \in BOOLEAN
    OBVIOUS
  <2>2. Leads(todo', Own(t), bak[t])
    BY <1>4, <1>7, <2>1, CoreReturns DEF Own
  <2>4. Heading(Own(t), bak[t])' /\ Touched(todo') \subseteq Own(t)
    BY <1>2, <1>4, <1>5, <2>2 DEF Heading, Leads
  <2>5. "versions" \in Touched(todo') /\ Touched(todo') \subseteq CoreFiles(TRUE)
    BY <2>2 DEF Leads, Own, CoreFiles
  <2>6. WaitingAt(p)' /\ PlacedAt(p)' /\ BarredAt(p)'
    BY <1>2, <1>3, <1>4, <1>7, <2>5 DEF WaitingAt, PlacedAt, BarredAt, Changes, Installs
  <2>7. RestoringAt(p)'
    BY <1>2, <1>4, <1>5, <1>7, <2>4 DEF RestoringAt
  <2> QED
    BY <2>6, <2>7
<1> QED
  BY <1>6, <1>7, RecoveryBegun

\* A step off the front of a sequence.
LEMMA TailTouched ==
  ASSUME disk \in Image, todo \in Seq(OneStep), todo # <<>>
  PROVE  /\ Touched(Tail(todo)) \subseteq Touched(todo)
         /\ Touched(todo) \subseteq Touched(Tail(todo)) \cup {Head(todo).file}
         /\ \A i \in DOMAIN Tail(todo) : i + 1 \in DOMAIN todo /\ Tail(todo)[i] = todo[i + 1]
         /\ Head(todo) = todo[1] /\ 1 \in DOMAIN todo
<1>1. Head(todo) = todo[1]
  OBVIOUS
<1> QED
  BY <1>1, FirstWritten DEF Touched

\* Where the sequence goes in a step of the holder.
LEMMA SequenceMoves ==
  ASSUME Typed, NEW p \in Cli,
         \/ Write(p) \/ WriteFails(p) \/ Restart(p) \/ RestartFails(p) \/ CommitFails(p)
         \/ StopServices(p) \/ UndoStep(p) \/ UndoFails(p) \/ UndoRestart(p)
  PROVE  \/ todo' = Undo(p, disk') /\ (WriteFails(p) \/ RestartFails(p) \/ CommitFails(p))
         \/ todo # <<>> /\ todo' = Tail(todo) /\ pc' = pc /\ (Write(p) \/ UndoStep(p) \/ UndoFails(p))
         \/ todo' = <<>> /\ UndoFails(p) /\ pc' = pc /\ pc[p] = "undo" /\ job[p].cmd = "recover"
         \/ todo' = todo /\ UNCHANGED disk /\ (Restart(p) \/ StopServices(p) \/ UndoRestart(p))
<1>1. CASE WriteFails(p) \/ RestartFails(p) \/ CommitFails(p)
  BY <1>1, Undoes
<1>2. CASE Write(p) \/ UndoStep(p) \/ UndoFails(p)
  BY <1>2 DEF Write, UndoStep, UndoFails
<1>3. CASE Restart(p) \/ StopServices(p) \/ UndoRestart(p)
  BY <1>3 DEF Restart, StopServices, UndoRestart, held
<1> QED
  BY <1>1, <1>2, <1>3

LEMMA StepPlaced ==
  ASSUME OneShell, Shelled, Typed', NEW p \in Cli,
         \/ Write(p) \/ WriteFails(p) \/ Restart(p) \/ RestartFails(p) \/ CommitFails(p)
         \/ StopServices(p) \/ UndoStep(p) \/ UndoFails(p) \/ UndoRestart(p)
  PROVE  WaitingAt(p)' /\ PlacedAt(p)'
<1> USE DEF Shelled, Safe, Typed
<1>1. /\ pc[p] \in Locked /\ pc'[p] \in Locked /\ Kept(p)
      /\ UNCHANGED <<journal, bak, names, snap>> /\ Incomplete' = Incomplete
  BY HolderGoes DEF Incomplete
<1>2. WaitingAt(p) /\ PlacedAt(p)
  BY DEF AllPlaced
<1>3. WaitingAt(p)'
  BY <1>1, <1>2 DEF WaitingAt, Kept, Locked
<1>4. Scope(p)' = Scope(p)
  BY <1>1 DEF Scope, InstallScope, Kept
<1>5. job[p].cmd \in {"core", "cert"} =>
        Touched(todo') \subseteq Scope(p)' /\ \A f \in File \ Scope(p)' : disk'[f] = snap'[f]
  <2> SUFFICES ASSUME job[p].cmd \in {"core", "cert"}
               PROVE  Touched(todo') \subseteq Scope(p) /\ \A f \in File \ Scope(p) : disk'[f] = snap[f]
    BY <1>1, <1>4
  <2>1. Touched(todo) \subseteq Scope(p) /\ \A f \in File \ Scope(p) : disk[f] = snap[f]
    BY <1>1, <1>2 DEF PlacedAt
  <2>2. \A f \in File \ Scope(p) : disk'[f] = snap[f]
    BY <2>1, FirstFile
  <2>3. CASE todo' = Undo(p, disk')
    <3>1. Touched(Undo(p, disk')) \subseteq Scope(p)
      BY UndoLeads DEF Changes, FilesTyped, HeldTyped, JobsTyped
    <3> QED
      BY <2>2, <2>3, <3>1
  <2>4. CASE todo # <<>> /\ todo' = Tail(todo)
    BY <2>1, <2>2, <2>4, TailTouched DEF FilesTyped, HeldTyped
  <2>5. CASE todo' = <<>> \/ todo' = todo
    <3>1. Touched(<<>>) = {}
      BY DEF Touched
    <3> QED
      BY <2>1, <2>2, <2>5, <3>1
  <2> QED
    BY <2>3, <2>4, <2>5, SequenceMoves
<1>6. pc'[p] \in {"commit", "settle", "localDone"} => todo' = <<>>
  <2>1. CASE WriteFails(p) \/ RestartFails(p) \/ CommitFails(p)
    BY <2>1, Undoes
  <2>2. CASE Write(p) \/ UndoStep(p) \/ UndoFails(p)
    BY <2>2 DEF Write, UndoStep, UndoFails
  <2>3. CASE Restart(p) \/ UndoRestart(p)
    BY <2>3 DEF Restart, UndoRestart, held
  <2>4. CASE StopServices(p)
    BY <2>4, Goes DEF StopServices, Label
  <2> QED
    BY <2>1, <2>2, <2>3, <2>4
<1>7. pc'[p] = "commit" => job'[p].restarted \/ ~Restarts(p)'
  <2>1. CASE Restart(p)
    <3>1. Restarts(p) \in BOOLEAN /\ job' = [job EXCEPT ![p].restarted = Restarts(p)]
      BY <2>1 DEF Restart, Restarts, JobsTyped, Job
    <3>2. job'[p].restarted = Restarts(p)
      BY <3>1, Noted
    <3>3. Restarts(p)' <=> Restarts(p)
      BY <1>1 DEF Restarts, Kept
    <3> QED
      BY <3>2, <3>3
  <2>2. CASE ~Restart(p)
    <3>1. \/ WriteFails(p) \/ RestartFails(p) \/ CommitFails(p)
          \/ Write(p) \/ UndoStep(p) \/ UndoFails(p) \/ UndoRestart(p) \/ StopServices(p)
      BY <2>2
    <3>2. pc'[p] # "commit"
      <4>1. CASE WriteFails(p) \/ RestartFails(p) \/ CommitFails(p)
        BY <4>1, Undoes
      <4>2. CASE Write(p) \/ UndoStep(p) \/ UndoFails(p)
        BY <4>2 DEF Write, UndoStep, UndoFails
      <4>3. CASE UndoRestart(p)
        BY <4>3, Goes DEF UndoRestart, Label
      <4>4. CASE StopServices(p)
        BY <4>4, Goes DEF StopServices, Label
      <4> QED
        BY <3>1, <4>1, <4>2, <4>3, <4>4
    <3> QED
      BY <3>2
  <2> QED
    BY <2>1, <2>2
<1>8. /\ pc'[p] = "stop" => job[p].cmd \in Installs
      /\ pc'[p] \in {"local", "localDone"} => pc[p] = "local"
      /\ pc'[p] \notin {"local", "localDone"} => pc[p] \notin {"local", "localDone"}
  <2>1. CASE WriteFails(p) \/ RestartFails(p) \/ CommitFails(p)
    <3>1. pc[p] \in {"write", "commit"}
      BY <2>1 DEF WriteFails, RestartFails, CommitFails
    <3> QED
      BY <2>1, <3>1, Undoes
  <2>2. CASE Write(p) \/ UndoStep(p) \/ UndoFails(p)
    BY <2>2 DEF Write, UndoStep, UndoFails
  <2>3. CASE Restart(p)
    BY <2>3, Goes DEF Restart, Label
  <2>4. CASE UndoRestart(p)
    BY <2>4, Goes DEF UndoRestart, Label
  <2>5. CASE StopServices(p)
    BY <2>5, Goes DEF StopServices, Label
  <2> QED
    BY <2>1, <2>2, <2>3, <2>4, <2>5
<1>9. job'[p].restarted \/ pc[p] # "local" \/ ~job[p].restarted
  <2>1. CASE pc[p] = "local"
    <3>1. job' = job \/ job' = [job EXCEPT ![p].bad = TRUE]
      BY <2>1 DEF Write, WriteFails, Restart, RestartFails, CommitFails, StopServices, UndoStep,
                  UndoFails, UndoRestart
    <3> QED
      BY <3>1, Noted
  <2> QED
    BY <2>1
<1>10. PlacedAt(p)'
  BY <1>1, <1>2, <1>5, <1>6, <1>7, <1>8, <1>9 DEF PlacedAt, Kept
<1> QED
  BY <1>3, <1>10

LEMMA StepBarred ==
  ASSUME OneShell, Shelled, Typed', NEW p \in Cli,
         \/ Write(p) \/ WriteFails(p) \/ Restart(p) \/ RestartFails(p) \/ CommitFails(p)
         \/ StopServices(p) \/ UndoStep(p) \/ UndoFails(p) \/ UndoRestart(p)
  PROVE  BarredAt(p)'
<1> USE DEF Shelled, Safe, Typed
<1>1. pc[p] \in Locked /\ Kept(p) /\ UNCHANGED snap
  BY HolderGoes
<1> SUFFICES ASSUME p \in Confined, job[p].cmd = "recover"
             PROVE  BarredAt(p)'
  BY <1>1 DEF BarredAt, Kept
<1>2. BarredAt(p) /\ PlacedAt(p) /\ pc[p] \in {"write", "undo", "local", "localDone"}
  BY <1>1 DEF AllPlaced, BarredAt
<1>3. job[p].cmd \notin Installs
  BY DEF Installs
<1>4. ~(Write(p) \/ Restart(p) \/ RestartFails(p) \/ CommitFails(p) \/ StopServices(p))
  BY <1>1, <1>2 DEF BarredAt, Write, Restart, RestartFails, CommitFails, StopServices, Blocked
<1>5. CASE WriteFails(p)
  <2>1. todo' = Undo(p, disk') /\ pc'[p] = "undo" /\ pc[p] = "write" /\ UNCHANGED job
    BY <1>3, <1>5, Undoes DEF WriteFails
  <2>2. Undo(p, disk') = Restore(snap)
    BY <1>1, UndoLeads DEF FilesTyped, HeldTyped, JobsTyped
  <2>3. todo' # <<>> /\ Head(todo').file = "singbox"
    BY <2>1, <2>2, RestoreReturns DEF HeldTyped
  <2>4. Blocked(p)'
    BY <2>3 DEF Blocked, StateRoot
  <2> QED
    BY <1>1, <1>2, <2>1, <2>4 DEF BarredAt
<1>6. CASE pc[p] = "undo"
  <2>1. ~UndoStep(p) /\ ~UndoRestart(p)
    BY <1>1, <1>2, <1>6 DEF BarredAt, UndoStep, UndoRestart, Again
  <2>2. UndoFails(p)
    BY <1>4, <1>6, <2>1 DEF WriteFails
  <2>3. todo' = <<>> /\ pc' = pc /\ job' = [job EXCEPT ![p].bad = TRUE]
    BY <1>3, <1>6, <2>2 DEF UndoFails, Ignored
  <2>4. job'[p].bad /\ job'[p].restarted = job[p].restarted
    BY <2>3, Noted
  <2> QED
    BY <1>1, <1>2, <1>6, <2>3, <2>4 DEF BarredAt
<1>7. CASE pc[p] = "local"
  <2>1. (job[p].bad \/ "versions" \in Touched(todo)) /\ Touched(todo) \subseteq CoreFiles(TRUE)
    BY <1>1, <1>2, <1>7 DEF BarredAt
  <2>2. CASE UndoStep(p)
    <3>1. todo # <<>> /\ ~Blocked(p) /\ todo' = Tail(todo) /\ UNCHANGED <<pc, job>>
      BY <2>2 DEF UndoStep
    <3>2. Head(todo).file # "versions"
      BY <3>1 DEF Blocked, StateRoot
    <3>3. (job[p].bad \/ "versions" \in Touched(todo')) /\ Touched(todo') \subseteq CoreFiles(TRUE)
      BY <2>1, <3>1, <3>2, TailTouched DEF FilesTyped, HeldTyped
    <3> QED
      BY <1>7, <3>1, <3>3 DEF BarredAt
  <2>3. CASE UndoFails(p)
    <3>1. todo # <<>> /\ todo' = Tail(todo) /\ pc' = pc /\ job' = [job EXCEPT ![p].bad = TRUE]
      BY <1>3, <1>7, <2>3 DEF UndoFails, Ignored
    <3>2. job'[p].bad /\ Touched(todo') \subseteq CoreFiles(TRUE)
      BY <2>1, <3>1, Noted, TailTouched DEF FilesTyped, HeldTyped
    <3> QED
      BY <1>7, <3>1, <3>2 DEF BarredAt
  <2>4. CASE UndoRestart(p)
    <3>1. /\ todo = <<>> /\ Goto(p, "localDone")
          /\ job' = job \/ job' = [job EXCEPT ![p].bad = TRUE]
      BY <1>7, <2>4 DEF UndoRestart
    <3>2. job[p].bad
      BY <2>1, <3>1 DEF Touched
    <3>3. job'[p].bad /\ pc'[p] = "localDone"
      BY <3>1, <3>2, Noted, Goes DEF Label
    <3> QED
      BY <3>3 DEF BarredAt
  <2> QED
    BY <1>4, <1>5, <2>2, <2>3, <2>4
<1>8. pc[p] \notin {"write", "localDone"} \/ WriteFails(p)
  BY <1>4 DEF UndoStep, UndoFails, UndoRestart
<1> QED
  BY <1>2, <1>5, <1>6, <1>7, <1>8

LEMMA StepRestoring ==
  ASSUME OneShell, Shelled, Typed', NEW p \in Cli,
         \/ Write(p) \/ WriteFails(p) \/ Restart(p) \/ RestartFails(p) \/ CommitFails(p)
         \/ StopServices(p) \/ UndoStep(p) \/ UndoFails(p) \/ UndoRestart(p)
  PROVE  RestoringAt(p)'
<1> USE DEF Shelled, Safe, Typed
<1> DEFINE t == job[p].target
<1>1. pc[p] \in Locked /\ Kept(p) /\ UNCHANGED <<snap, bak, names>>
  BY HolderGoes
<1> SUFFICES ASSUME p \notin Confined, job[p].cmd = "recover"
             PROVE  RestoringAt(p)'
  BY <1>1 DEF RestoringAt, Kept
<1>2. /\ RestoringAt(p) /\ job'[p].target = t /\ job'[p].cmd = "recover" /\ job[p].cmd \notin Installs
      /\ bak'[job'[p].target] = bak[t] /\ Own(job[p].target)' = Own(t)
  BY <1>1 DEF AllPlaced, Kept, Installs, Own
<1> HIDE DEF t
<1>3. /\ pc[p] \in {"write", "commit"} => Heading(BackedUp, bak[t])
      /\ pc[p] = "undo" => \A i \in DOMAIN todo : todo[i].to = snap[todo[i].file]
      /\ \A f \in File \ (Own(t) \cup CertFiles) : snap[f] = bak[t][f]
      /\ pc[p] \in {"local", "localDone"} =>
           Touched(todo) \subseteq Own(t) /\ (~job[p].bad => Heading(Own(t), bak[t]))
  BY <1>1, <1>2 DEF RestoringAt, t
<1>4. Own(t) \subseteq File /\ BackedUp \subseteq File
  BY DEF Own, CoreFiles, BackedUp, File, StateRoot
<1>5. ASSUME todo # <<>>, disk' = After(disk, Head(todo)), todo' = Tail(todo), UNCHANGED <<pc, job>>
      PROVE  RestoringAt(p)'
  <2>1. ASSUME NEW fs \in SUBSET File, Heading(fs, bak[t])
        PROVE  /\ \A f \in fs : disk'[f] = bak[t][f] \/ f \in Touched(todo')
               /\ \A i \in DOMAIN todo' : todo'[i].to = bak[t][todo'[i].file]
    BY <1>5, <2>1, FirstWritten DEF FilesTyped, HeldTyped, Heading
  <2>2. /\ pc[p] \in {"write", "commit"} => Heading(BackedUp, bak[t])'
        /\ pc[p] \in {"local", "localDone"} /\ ~job[p].bad => Heading(Own(t), bak[t])'
    BY <1>1, <1>2, <1>3, <1>4, <1>5, <2>1 DEF Heading, t
  <2>3. pc[p] = "undo" => \A i \in DOMAIN todo' : todo'[i].to = snap[todo'[i].file]
    BY <1>3, <1>5, TailTouched DEF FilesTyped, HeldTyped
  <2>4. pc[p] \in {"local", "localDone"} => Touched(todo') \subseteq Own(t)
    BY <1>3, <1>5, TailTouched DEF FilesTyped, HeldTyped
  <2>5. pc[p] \notin {"commit", "localDone"}
    BY <1>1, <1>5 DEF AllPlaced, PlacedAt
  <2> QED
    BY <1>1, <1>2, <1>3, <1>5, <2>2, <2>3, <2>4, <2>5 DEF RestoringAt, t
<1>6. CASE Write(p) \/ UndoStep(p)
  BY <1>5, <1>6 DEF Write, UndoStep
<1>7. CASE WriteFails(p) \/ RestartFails(p) \/ CommitFails(p)
  <2>1. todo' = Undo(p, disk') /\ pc'[p] = "undo"
    BY <1>2, <1>7, Undoes
  <2>2. \A i \in DOMAIN todo' : todo'[i].to = snap[todo'[i].file]
    BY <1>2, <2>1, UndoLeads DEF FilesTyped, HeldTyped, JobsTyped, Goal
  <2> QED
    BY <1>1, <1>2, <1>3, <2>1, <2>2 DEF RestoringAt
<1>8. CASE UndoFails(p)
  <2>1. /\ pc' = pc /\ pc[p] \in {"undo", "local"} /\ job' = [job EXCEPT ![p].bad = TRUE]
        /\ todo # <<>> /\ (todo' = <<>> \/ todo' = Tail(todo))
        /\ pc[p] = "local" => todo' = Tail(todo)
    BY <1>2, <1>8 DEF UndoFails, Ignored
  <2>2. job'[p].bad
    BY <2>1, Noted
  <2>3. pc[p] = "undo" => \A i \in DOMAIN todo' : todo'[i].to = snap[todo'[i].file]
    <3>1. CASE todo' = Tail(todo)
      BY <1>3, <2>1, <3>1, TailTouched DEF FilesTyped, HeldTyped
    <3>2. DOMAIN <<>> = {}
      OBVIOUS
    <3>3. CASE todo' = <<>>
      BY <3>2, <3>3
    <3> QED
      BY <2>1, <3>1, <3>3
  <2>4. pc[p] = "local" => Touched(todo') \subseteq Own(t)
    BY <1>3, <2>1, TailTouched DEF FilesTyped, HeldTyped
  <2> QED
    BY <1>1, <1>2, <1>3, <2>1, <2>2, <2>3, <2>4 DEF RestoringAt
<1>9. CASE Restart(p)
  <2>1. /\ pc[p] = "write" /\ Goto(p, "commit") /\ UNCHANGED <<disk, todo>>
        /\ running' = Serve(disk)
    BY <1>2, <1>9 DEF Restart, Restarts, held
  <2>2. pc'[p] = "commit"
    BY <2>1, Goes DEF Label
  <2>3. Heading(BackedUp, bak[job[p].target])'
    BY <1>1, <1>2, <1>3, <2>1 DEF Heading, Touched
  <2> QED
    BY <1>1, <1>2, <1>3, <2>1, <2>2, <2>3 DEF RestoringAt, Serve
<1>10. CASE StopServices(p)
  BY <1>1, <1>2, <1>10 DEF AllPlaced, PlacedAt, StopServices
<1>11. CASE UndoRestart(p)
  <2>1. /\ todo = <<>> /\ UNCHANGED <<disk, todo>>
        /\ \/ pc[p] = "undo" /\ Goto(p, "settle")
           \/ pc[p] = "local" /\ Goto(p, "localDone")
        /\ \/ running' = Serve(disk) /\ UNCHANGED job
           \/ job' = [job EXCEPT ![p].bad = TRUE]
    BY <1>11 DEF UndoRestart, held
  <2>2. \/ pc[p] = "undo" /\ pc'[p] = "settle"
        \/ pc[p] = "local" /\ pc'[p] = "localDone"
    BY <2>1, Goes DEF Label
  <2>3. CASE pc'[p] = "settle"
    BY <1>1, <1>2, <1>3, <2>3 DEF RestoringAt
  <2>4. CASE pc[p] = "local" /\ pc'[p] = "localDone" /\ job' = [job EXCEPT ![p].bad = TRUE]
    <3>1. job'[p].bad
      BY <2>4, Noted
    <3> QED
      BY <1>1, <1>2, <1>3, <2>1, <2>4, <3>1 DEF RestoringAt
  <2>5. CASE pc[p] = "local" /\ pc'[p] = "localDone" /\ running' = Serve(disk) /\ UNCHANGED job
    <3>1. ~job[p].bad => Heading(Own(job[p].target), bak[job[p].target])'
      BY <1>1, <1>2, <1>3, <2>1, <2>5 DEF Heading, Touched
    <3> QED
      BY <1>1, <1>2, <1>3, <2>1, <2>5, <3>1 DEF RestoringAt, Serve
  <2> QED
    BY <2>1, <2>2, <2>3, <2>4, <2>5
<1> QED
  BY <1>6, <1>7, <1>8, <1>9, <1>10, <1>11

LEMMA IdlePlaced ==
  ASSUME NEW p \in Cli, pc'[p] = "idle", job'[p] = NoJob
  PROVE  WaitingAt(p)' /\ PlacedAt(p)' /\ BarredAt(p)' /\ RestoringAt(p)'
  BY DEF WaitingAt, PlacedAt, BarredAt, RestoringAt, NoJob, Locked

\* An invocation that does not hold the lock, and what it knows.
LEMMA AwayPlaced ==
  ASSUME NEW p \in Cli, pc'[p] \notin Locked, WaitingAt(p)'
  PROVE  WaitingAt(p)' /\ PlacedAt(p)' /\ BarredAt(p)' /\ RestoringAt(p)'
  BY DEF PlacedAt, BarredAt, RestoringAt

LEMMA StartPlaced ==
  ASSUME Shelled, NEW p \in Cli, StartRecovery(p) \/ \E c \in Command : StartCommand(p, c)
  PROVE  WaitingAt(p)' /\ PlacedAt(p)' /\ BarredAt(p)' /\ RestoringAt(p)'
<1> USE DEF Shelled, Safe, Typed
<1>1. /\ pc[p] = "idle" /\ Goto(p, "wait") /\ UNCHANGED files
  BY DEF StartRecovery, StartCommand
<1>2. pc'[p] = "wait" /\ Incomplete' = Incomplete
  BY <1>1, Goes DEF Label, Incomplete, files
<1>3. job[p] \in Job /\ ~job[p].restarted /\ ~job[p].bad /\ ~job[p].local
  BY <1>1 DEF AllPlaced, WaitingAt, JobsTyped
<1>4. CASE StartRecovery(p)
  <2>1. PICK t \in TxId : t \in Incomplete /\ job' = [job EXCEPT ![p].cmd = "recover", ![p].target = t]
    BY <1>4 DEF StartRecovery, Latest
  <2> DEFINE j == [job[p] EXCEPT !.cmd = "recover", !.target = t]
  <2>2. job' = [job EXCEPT ![p] = j]
    BY <2>1
  <2>3. /\ j \in Job /\ j.cmd = "recover" /\ j.target = t
        /\ j.restarted = job[p].restarted /\ j.bad = job[p].bad /\ j.local = job[p].local
    BY <1>3 DEF Job, Command, Version
  <2> HIDE DEF j
  <2>4. job'[p] = j
    BY <2>2, <2>3, Replaces
  <2>5. WaitingAt(p)'
    BY <1>2, <1>3, <2>1, <2>3, <2>4 DEF WaitingAt, Installs
  <2> QED
    BY <1>2, <2>5, AwayPlaced DEF Locked
<1>5. ASSUME NEW c \in Command, StartCommand(p, c)
      PROVE  WaitingAt(p)' /\ PlacedAt(p)' /\ BarredAt(p)' /\ RestoringAt(p)'
  <2>1. Incomplete = {} /\ c # "recover"
    BY <1>5 DEF StartCommand
  <2>2. PICK replaces \in BOOLEAN :
          job' = [job EXCEPT ![p].cmd = c, ![p].base = disk["state"], ![p].replaces = replaces]
    BY <1>5 DEF StartCommand
  <2> DEFINE j == [job[p] EXCEPT !.cmd = c, !.base = disk["state"], !.replaces = replaces]
  <2>3. job' = [job EXCEPT ![p] = j] /\ disk["state"] \in Version
    BY <2>2 DEF FilesTyped, Image, File, StateRoot
  <2>4. /\ j \in Job /\ j.cmd = c
        /\ j.restarted = job[p].restarted /\ j.bad = job[p].bad /\ j.local = job[p].local
    BY <1>3, <2>3 DEF Job
  <2> HIDE DEF j
  <2>5. job'[p] = j
    BY <2>3, <2>4, Replaces
  <2>6. WaitingAt(p)'
    BY <1>2, <1>3, <2>1, <2>4, <2>5 DEF WaitingAt, Installs
  <2> QED
    BY <1>2, <2>6, AwayPlaced DEF Locked
<1> QED
  BY <1>4, <1>5

LEMMA BeginUninstallPlaced ==
  ASSUME Shelled, NEW p \in Cli, BeginUninstall(p)
  PROVE  WaitingAt(p)' /\ PlacedAt(p)' /\ BarredAt(p)' /\ RestoringAt(p)'
<1> USE DEF Shelled, Safe, Typed
<1>1. /\ pc[p] = "wait" /\ job[p].cmd = "uninstall" /\ Goto(p, "write") /\ UNCHANGED journal
  BY DEF BeginUninstall
<1>2. PICK keepCert \in BOOLEAN : job' = [job EXCEPT ![p].keepCert = keepCert]
  BY DEF BeginUninstall
<1>3. /\ pc'[p] = "write" /\ Incomplete' = {} /\ job[p] \in Job /\ ~job[p].local
  BY <1>1, Goes DEF Label, Incomplete, AllPlaced, WaitingAt, JobsTyped
<1> DEFINE j == [job[p] EXCEPT !.keepCert = keepCert]
<1>4. job' = [job EXCEPT ![p] = j]
  BY <1>2
<1>5. j \in Job /\ j.cmd = "uninstall" /\ ~j.local
  BY <1>1, <1>3 DEF Job
<1> HIDE DEF j
<1>6. job'[p] = j
  BY <1>4, <1>5, Replaces
<1> QED
  BY <1>3, <1>5, <1>6 DEF WaitingAt, PlacedAt, BarredAt, RestoringAt, Changes, Installs

\* The steps that let the lock go, the invocation going on.
LEMMA OnPlaced ==
  ASSUME OneShell, Shelled, NEW p \in Cli, Restored(p) \/ RemoveRoot(p)
  PROVE  WaitingAt(p)' /\ PlacedAt(p)' /\ BarredAt(p)' /\ RestoringAt(p)'
<1> USE DEF Shelled, Safe, Typed
<1>1. WaitingAt(p) /\ PlacedAt(p) /\ BarredAt(p)
  BY DEF AllPlaced
<1>2. CASE Restored(p)
  <2>1. /\ pc[p] \in {"commit", "localDone"} /\ (pc[p] = "localDone" => ~job[p].bad)
        /\ Goto(p, "mark") /\ UNCHANGED <<job, journal>> /\ job[p].cmd = "recover"
    BY <1>1, <1>2 DEF Restored, files, PlacedAt, Locked
  <2>2. p \notin Confined /\ pc'[p] = "mark" /\ Incomplete' = Incomplete
    BY <1>1, <2>1, Goes DEF BarredAt, Locked, Label, Incomplete
  <2>3. WaitingAt(p)'
    BY <1>1, <2>1, <2>2 DEF WaitingAt, Installs
  <2> QED
    BY <2>2, <2>3, AwayPlaced DEF Locked
<1>3. CASE RemoveRoot(p)
  <2>1. /\ pc[p] = "write" /\ Goto(p, "user") /\ UNCHANGED job /\ job[p].cmd = "uninstall"
        /\ \/ UNCHANGED journal
           \/ journal' = [t \in TxId |-> NoRecord]
    BY <1>3 DEF RemoveRoot
  <2>2. pc'[p] = "user" /\ Incomplete' = {}
    BY <1>1, <2>1, Goes DEF WaitingAt, Label, Incomplete, NoRecord
  <2>3. WaitingAt(p)'
    BY <1>1, <2>1, <2>2 DEF WaitingAt, Installs
  <2> QED
    BY <2>2, <2>3, AwayPlaced DEF Locked
<1> QED
  BY <1>2, <1>3

LEMMA OwnPlaced ==
  ASSUME OneShell, Shelled, Typed', NEW p \in Cli, Moves(p)
  PROVE  WaitingAt(p)' /\ PlacedAt(p)' /\ BarredAt(p)' /\ RestoringAt(p)'
<1> USE DEF Shelled, Safe, Typed
<1>1. CASE \/ Kill(p) \/ Busy(p) \/ Refuse(p) \/ RecoveryRefused(p) \/ Abort(p) \/ Commit(p)
           \/ Settle(p) \/ SettleUnrecorded(p) \/ RecoveryFails(p) \/ Mark(p) \/ RemoveUser(p)
           \/ UninstallFails(p)
  <2>1. Exit(p)
    BY <1>1 DEF Kill, Busy, Refuse, RecoveryRefused, Abort, Commit, Settle, SettleUnrecorded,
                RecoveryFails, Mark, RemoveUser, UninstallFails
  <2> QED
    BY <2>1, Exits, IdlePlaced
<1>2. CASE StartRecovery(p) \/ \E c \in Command : StartCommand(p, c)
  BY <1>2, StartPlaced
<1>3. CASE NothingToRecover(p) \/ DoctorFix(p)
  <2>1. pc[p] = "idle" /\ UNCHANGED <<pc, job, journal>> /\ WaitingAt(p)
    BY <1>3 DEF NothingToRecover, DoctorFix, vars, AllPlaced
  <2>2. WaitingAt(p)'
    BY <2>1 DEF WaitingAt, Incomplete
  <2> QED
    BY <2>1, <2>2, AwayPlaced DEF Locked
<1>4. CASE Begin(p) \/ BeginRecovery(p) \/ BeginUninstall(p)
  BY <1>4, BeginPlaced, BeginRecoveryPlaced, BeginUninstallPlaced
<1>5. CASE \/ Write(p) \/ WriteFails(p) \/ Restart(p) \/ RestartFails(p) \/ CommitFails(p)
           \/ StopServices(p) \/ UndoStep(p) \/ UndoFails(p) \/ UndoRestart(p)
  BY <1>5, StepPlaced, StepBarred, StepRestoring
<1>6. CASE Restored(p) \/ RemoveRoot(p)
  BY <1>6, OnPlaced
<1> QED
  BY <1>1, <1>2, <1>3, <1>4, <1>5, <1>6 DEF Moves, Proceed

LEMMA PlacedNext ==
  ASSUME OneShell, Shelled, Typed', [Next]_vars
  PROVE  AllPlaced'
<1> USE DEF Shelled, Safe, Typed
<1>1. ASSUME NEW p \in Cli, Moves(p)
      PROVE  AllPlaced'
  <2>1. \A q \in Cli \ {p} : WaitingAt(q)' /\ PlacedAt(q)' /\ BarredAt(q)' /\ RestoringAt(q)'
    BY <1>1, OthersPlaced
  <2>2. WaitingAt(p)' /\ PlacedAt(p)' /\ BarredAt(p)' /\ RestoringAt(p)'
    BY <1>1, OwnPlaced
  <2> QED
    BY <2>1, <2>2 DEF AllPlaced
<1>2. ASSUME UNCHANGED <<disk, running, bak, names, snap, todo, pc, job>>,
             \A t \in TxId : journal'[t].status = journal[t].status
      PROVE  AllPlaced'
  <2> SUFFICES ASSUME NEW q \in Cli
               PROVE  WaitingAt(q)' /\ PlacedAt(q)' /\ BarredAt(q)' /\ RestoringAt(q)'
    BY DEF AllPlaced
  <2>1. WaitingAt(q) /\ PlacedAt(q) /\ BarredAt(q) /\ RestoringAt(q) /\ WorkingAt(q)
    BY DEF AllPlaced, Working
  <2>2. Incomplete' = Incomplete /\ \A t : Own(t)' = Own(t)
    BY <1>2 DEF Incomplete, Own
  <2>3. WaitingAt(q)'
    BY <1>2, <2>1, <2>2 DEF WaitingAt
  <2>4. PlacedAt(q)'
    BY <1>2, <2>1, <2>2 DEF PlacedAt, WorkingAt, Scope, InstallScope, Touched, Restarts
  <2>5. BarredAt(q)'
    BY <1>2, <2>1 DEF BarredAt, Blocked, Touched
  <2>6. RestoringAt(q)'
    BY <1>2, <2>1, <2>2 DEF RestoringAt, Heading, Own, Touched, Serve
  <2> QED
    BY <2>3, <2>4, <2>5, <2>6
<1>3. ASSUME NEW t \in TxId, LoseBackup(t)
      PROVE  AllPlaced'
  <2>1. \A u \in TxId : journal'[u].status = journal[u].status
    BY <1>3 DEF LoseBackup, FilesTyped, Record
  <2> QED
    BY <1>2, <1>3, <2>1 DEF LoseBackup, held
<1>4. CASE Reboot
  <2>1. \A q \in Cli : pc'[q] = "idle" /\ job'[q] = NoJob
    BY <1>4 DEF Reboot
  <2> QED
    BY <2>1, IdlePlaced DEF AllPlaced
<1>5. CASE UNCHANGED vars
  BY <1>2, <1>5 DEF vars
<1> QED
  BY <1>1, <1>3, <1>4, <1>5 DEF Next, Moves

\* What is in progress was so before, with its backup, or has just begun.
LEMMA RecordsNext ==
  ASSUME Shelled, [Next]_vars, NEW t \in Incomplete'
  PROVE  \/ t \in Incomplete /\ bak'[t] = bak[t] /\ names'[t] = names[t]
         \/ \E p \in Cli : /\ Begin(p) /\ job[p].cmd = "core" /\ Incomplete = {} /\ t = nextTx
                           /\ bak'[t] = disk /\ UNCHANGED disk
<1> USE DEF Shelled, Safe, Typed
<1> DEFINE Kin == t \in Incomplete /\ bak'[t] = bak[t] /\ names'[t] = names[t]
<1>0. t \in TxId /\ journal'[t].status = "IN_PROGRESS"
  BY DEF Incomplete
<1>1. ASSUME journal'[t].status = journal[t].status, bak'[t] = bak[t], names'[t] = names[t]
      PROVE  Kin
  BY <1>0, <1>1 DEF Incomplete
<1> HIDE DEF Kin
<1>2. ASSUME NEW p \in Cli, Begin(p)
      PROVE  Kin \/ (/\ job[p].cmd = "core" /\ Incomplete = {} /\ t = nextTx
                     /\ bak'[t] = disk /\ UNCHANGED disk)
  <2>1. /\ nextTx \in TxId /\ UNCHANGED disk /\ pc[p] = "wait"
        /\ journal' = [journal EXCEPT ![nextTx] = Progress(job[p].cmd)]
        /\ bak' = [bak EXCEPT ![nextTx] = IF job[p].cmd = "core" THEN disk ELSE Empty]
        /\ \A u \in TxId \ {nextTx} : names'[u] = names[u]
    BY <1>2 DEF Begin, FilesTyped
  <2>2. CASE t # nextTx
    BY <1>0, <1>1, <2>1, <2>2 DEF FilesTyped
  <2>3. CASE t = nextTx
    <3>1. job[p].cmd = "core"
      BY <1>0, <2>1, <2>3 DEF Progress, NoRecord, FilesTyped
    <3>2. Incomplete = {}
      BY <2>1, <3>1 DEF AllPlaced, WaitingAt
    <3> QED
      BY <2>1, <2>3, <3>1, <3>2 DEF FilesTyped
  <2> QED
    BY <2>2, <2>3
<1>3. ASSUME NEW p \in Cli, Abort(p) \/ Commit(p) \/ Settle(p)
      PROVE  Kin
  <2> DEFINE u == job[p].tx
  <2>1. /\ UNCHANGED names /\ bak' = [bak EXCEPT ![u] = Empty]
        /\ \E s \in {"COMMITTED", "ROLLED_BACK", "ROLLBACK_FAILED", "ABORTED"} :
             journal' = [journal EXCEPT ![u] = [status |-> s, cmd |-> job[p].cmd, backup |-> {}]]
    BY <1>3 DEF Abort, Commit, Settle, RolledBack
  <2>2. t # u
    <3>1. CASE u \in TxId
      <4>1. journal'[u].status # "IN_PROGRESS"
        <5>1. ASSUME NEW s \in {"COMMITTED", "ROLLED_BACK", "ROLLBACK_FAILED", "ABORTED"},
                     journal' = [journal EXCEPT ![u] = [status |-> s, cmd |-> job[p].cmd, backup |-> {}]]
              PROVE  journal'[u].status # "IN_PROGRESS"
          BY <3>1, <5>1 DEF FilesTyped
        <5> QED
          BY <2>1, <5>1
      <4> QED
        BY <1>0, <4>1
    <3>2. CASE u \notin TxId
      BY <1>0, <3>2
    <3> QED
      BY <3>1, <3>2
  <2> HIDE DEF u
  <2>3. journal'[t] = journal[t] /\ bak'[t] = bak[t]
    BY <1>0, <2>1, <2>2 DEF FilesTyped
  <2> QED
    BY <1>1, <2>1, <2>3
<1>4. ASSUME NEW p \in Cli, SettleUnrecorded(p)
      PROVE  Kin
  <2>1. journal'[t].status = journal[t].status
    BY <1>0, <1>4 DEF SettleUnrecorded, FilesTyped, Record
  <2> QED
    BY <1>1, <1>4, <2>1 DEF SettleUnrecorded
<1>5. ASSUME NEW p \in Cli, Mark(p)
      PROVE  Kin
  <2>1. WaitingAt(p)
    BY DEF AllPlaced
  <2>2. UNCHANGED names /\ (UNCHANGED <<journal, bak>>
          \/ (/\ Incomplete' = Incomplete \ {job[p].target}
              /\ \A u \in TxId \ {job[p].target} : journal'[u] = journal[u] /\ bak'[u] = bak[u]))
    BY <1>5, <2>1, MarkWrites
  <2> QED
    BY <1>0, <1>1, <2>2
<1>6. ASSUME NEW p \in Cli, RemoveRoot(p)
      PROVE  Kin
  <2>1. UNCHANGED <<journal, bak, names>>
    BY <1>0, <1>6 DEF RemoveRoot, NoRecord
  <2> QED
    BY <1>1, <2>1
<1>7. ASSUME NEW u \in TxId, LoseBackup(u)
      PROVE  Kin
  <2>1. journal'[t].status = journal[t].status
    BY <1>0, <1>7 DEF LoseBackup, FilesTyped, Record
  <2> QED
    BY <1>1, <1>7, <2>1 DEF LoseBackup
<1>8. ASSUME NEW p \in Cli,
             \/ StartRecovery(p) \/ \E c \in Command : StartCommand(p, c)
             \/ NothingToRecover(p) \/ DoctorFix(p) \/ Kill(p)
             \/ Busy(p) \/ Refuse(p) \/ RecoveryRefused(p) \/ BeginRecovery(p) \/ BeginUninstall(p)
      PROVE  Kin
  <2>1. UNCHANGED <<journal, bak, names>>
    BY <1>8 DEF StartRecovery, StartCommand, NothingToRecover, DoctorFix, Kill, Busy, Refuse,
                RecoveryRefused, BeginRecovery, BeginUninstall, files, vars
  <2> QED
    BY <1>1, <2>1
<1>9. ASSUME NEW p \in Cli,
             \/ Write(p) \/ WriteFails(p) \/ Restart(p) \/ RestartFails(p) \/ CommitFails(p)
             \/ StopServices(p) \/ UndoStep(p) \/ UndoFails(p) \/ UndoRestart(p)
             \/ Restored(p) \/ RecoveryFails(p) \/ RemoveUser(p) \/ UninstallFails(p)
      PROVE  Kin
  <2>1. UNCHANGED <<journal, bak, names>>
    BY <1>9 DEF Write, WriteFails, Restart, RestartFails, CommitFails, StopServices, UndoStep,
                UndoFails, UndoRestart, Restored, RecoveryFails, RemoveUser, UninstallFails, files
  <2> QED
    BY <1>1, <2>1
<1>10. ASSUME Reboot \/ UNCHANGED vars PROVE Kin
  BY <1>1, <1>10 DEF Reboot, vars
<1> DEFINE Fresh == \E p \in Cli : /\ Begin(p) /\ job[p].cmd = "core" /\ Incomplete = {} /\ t = nextTx
                                 /\ bak'[t] = disk /\ UNCHANGED disk
<1>11. ASSUME NEW p \in Cli, Begin(p) PROVE Kin \/ Fresh
  BY <1>2, <1>11
<1> HIDE DEF Fresh
<1>12. Kin \/ Fresh
  BY <1>3, <1>4, <1>5, <1>6, <1>7, <1>8, <1>9, <1>10, <1>11 DEF Next, Proceed
<1> QED
  BY <1>12 DEF Kin, Fresh

LEMMA OneIncompleteNext ==
  ASSUME Shelled, [Next]_vars
  PROVE  OneIncomplete'
<1> SUFFICES ASSUME NEW t \in Incomplete', NEW u \in Incomplete' PROVE t = u
  BY DEF OneIncomplete
<1> QED
  BY RecordsNext DEF Shelled, OneIncomplete

LEMMA NamedNext ==
  ASSUME Shelled, [Next]_vars
  PROVE  Named'
<1> USE DEF Shelled, Safe, Typed
<1> DEFINE Good(r) == /\ r.backup # {} => r.status \in {"IN_PROGRESS", "RECOVERED"}
                      /\ r.status = "RECOVERED" => r.backup \in {{}, {"local"}}
<1>1. \A t \in TxId : Good(journal[t])
  BY DEF Named
<1>2. SUFFICES ASSUME NEW t \in TxId, journal'[t] # journal[t] PROVE Good(journal'[t])
  BY <1>1 DEF Named
<1>3. ASSUME NEW p \in Cli, Begin(p) PROVE Good(journal'[t])
  BY <1>2, <1>3 DEF Begin, Progress, NoRecord, FilesTyped
<1>4. ASSUME NEW p \in Cli, Abort(p) \/ Commit(p) \/ Settle(p) PROVE Good(journal'[t])
  <2>1. journal[t] \in Record
    BY DEF FilesTyped
  <2>2. CASE Abort(p)
    BY <1>2, <2>1, <2>2 DEF Abort, FilesTyped, Record
  <2>3. ASSUME NEW s \in {"COMMITTED", "ROLLED_BACK", "ROLLBACK_FAILED"},
               journal' = [journal EXCEPT ![job[p].tx] = [status |-> s, cmd |-> job[p].cmd, backup |-> {}]]
        PROVE  Good(journal'[t])
    BY <1>2, <2>3 DEF FilesTyped
  <2>4. CASE Commit(p) \/ Settle(p)
    BY <2>3, <2>4 DEF Commit, Settle, RolledBack
  <2> QED
    BY <1>4, <2>2, <2>4
<1>5. ASSUME NEW p \in Cli, SettleUnrecorded(p) PROVE Good(journal'[t])
  <2>1. \/ /\ journal'[t].status = journal[t].status
           /\ journal'[t].backup \subseteq journal[t].backup \ {"local"}
        \/ journal'[t] = journal[t]
    BY <1>5 DEF SettleUnrecorded, FilesTyped, Record
  <2> QED
    BY <1>1, <1>2, <2>1
<1>6. ASSUME NEW p \in Cli, Mark(p) PROVE Good(journal'[t])
  <2>1. WaitingAt(p)
    BY DEF AllPlaced
  <2>2. \/ UNCHANGED journal
        \/ /\ journal'[job[p].target].status = "RECOVERED"
           /\ journal'[job[p].target].backup = (IF job[p].local THEN {"local"} ELSE {})
           /\ \A u \in TxId \ {job[p].target} : journal'[u] = journal[u]
    BY <1>6, <2>1, MarkWrites
  <2>3. t = job[p].target /\ ~UNCHANGED journal
    BY <1>2, <2>2
  <2> QED
    BY <2>2, <2>3
<1>7. ASSUME NEW p \in Cli, RemoveRoot(p) PROVE Good(journal'[t])
  BY <1>2, <1>7 DEF RemoveRoot, NoRecord
<1>8. ASSUME NEW u \in TxId, LoseBackup(u) PROVE Good(journal'[t])
  <2>1. /\ journal'[u].backup = {"local"} /\ journal'[u].status = journal[u].status
        /\ "persistent" \in journal[u].backup /\ t = u
    BY <1>2, <1>8 DEF LoseBackup, FilesTyped, Record
  <2> QED
    BY <1>1, <2>1
<1> HIDE DEF Good
<1>9. ASSUME NEW p \in Cli,
             \/ StartRecovery(p) \/ \E c \in Command : StartCommand(p, c)
             \/ NothingToRecover(p) \/ DoctorFix(p) \/ Kill(p)
             \/ Busy(p) \/ Refuse(p) \/ RecoveryRefused(p) \/ BeginRecovery(p) \/ BeginUninstall(p)
      PROVE  FALSE
  BY <1>2, <1>9 DEF StartRecovery, StartCommand, NothingToRecover, DoctorFix, Kill, Busy, Refuse,
                    RecoveryRefused, BeginRecovery, BeginUninstall, files, vars
<1>10. ASSUME NEW p \in Cli,
              \/ Write(p) \/ WriteFails(p) \/ Restart(p) \/ RestartFails(p) \/ CommitFails(p)
              \/ StopServices(p) \/ UndoStep(p) \/ UndoFails(p) \/ UndoRestart(p)
              \/ Restored(p) \/ RecoveryFails(p) \/ RemoveUser(p) \/ UninstallFails(p)
       PROVE  FALSE
  BY <1>2, <1>10 DEF Write, WriteFails, Restart, RestartFails, CommitFails, StopServices, UndoStep,
                     UndoFails, UndoRestart, Restored, RecoveryFails, RemoveUser, UninstallFails, files
<1>11. ~Reboot /\ ~UNCHANGED vars
  BY <1>2 DEF Reboot, vars
<1> QED
  BY <1>3, <1>4, <1>5, <1>6, <1>7, <1>8, <1>9, <1>10, <1>11 DEF Next, Proceed

LEMMA SparedNext ==
  ASSUME OneShell, Shelled, [Next]_vars
  PROVE  Spared'
<1> USE DEF Shelled, Safe, Typed
<1> SUFFICES ASSUME NEW t \in Incomplete', NEW f \in File \ (Own(t)' \cup CertFiles)
             PROVE  disk'[f] = bak'[t][f]
  BY DEF Spared
<1>1. CASE \E p \in Cli : /\ Begin(p) /\ job[p].cmd = "core" /\ Incomplete = {} /\ t = nextTx
                          /\ bak'[t] = disk /\ UNCHANGED disk
  BY <1>1
<1>2. CASE t \in Incomplete /\ bak'[t] = bak[t] /\ names'[t] = names[t]
  <2>1. f \notin Own(t) \cup CertFiles /\ disk[f] = bak[t][f] /\ t \in TxId
    BY <1>2 DEF Own, Spared, Incomplete
  <2>2. SUFFICES disk'[f] = disk[f] \/ disk'[f] = bak[t][f]
    BY <1>2, <2>1
  <2>3. ASSUME NEW p \in Cli, Moves(p)
        PROVE  disk'[f] = disk[f] \/ disk'[f] = bak[t][f]
    <3>1. WaitingAt(p) /\ PlacedAt(p) /\ BarredAt(p) /\ RestoringAt(p) /\ WorkingAt(p)
      BY DEF AllPlaced, Working
    <3>2. CASE p \in Confined
      <4>1. f \notin CertFiles \cup CoreFiles(FALSE)
        BY <2>1 DEF Own, CoreFiles
      <4> QED
        BY <2>3, <3>1, <3>2, <4>1, ConfinedStep
    <3>3. CASE \/ Write(p) \/ WriteFails(p) \/ Restart(p) \/ RestartFails(p) \/ CommitFails(p)
               \/ StopServices(p) \/ UndoStep(p) \/ UndoFails(p) \/ UndoRestart(p)
      <4> SUFFICES ASSUME p \notin Confined, disk'[f] # disk[f]
                   PROVE  disk'[f] = bak[t][f]
        BY <3>2
      <4>1. /\ pc[p] \in Locked /\ todo # <<>> /\ f \in Touched(todo) /\ f = Head(todo).file
            /\ disk'[f] = Head(todo).to \/ f = "acme"
        BY <3>3, FirstFile, HolderGoes
      <4>2. disk'[f] = Head(todo).to
        BY <2>1, <4>1 DEF CertFiles
      <4>3. pc[p] # "idle" /\ job[p].cmd \notin Installs \cup {"self", "uninstall", "none"}
        BY <1>2, <3>1, <4>1 DEF WaitingAt, WorkingAt, Locked
      <4>4. job[p].cmd # "core"
        <5> SUFFICES ASSUME job[p].cmd = "core" PROVE FALSE
          OBVIOUS
        <5>1. t = job[p].tx
          BY <1>2, <3>1, <4>1 DEF PlacedAt
        <5>2. f \in Scope(p) /\ Scope(p) = CoreFiles(job[p].replaces)
          BY <3>1, <4>1 DEF PlacedAt, Scope, Installs
        <5>3. (names[t]["singbox"] = t) <=> job[p].replaces
          BY <3>1, <4>1, <5>1 DEF PlacedAt
        <5> QED
          BY <2>1, <5>2, <5>3 DEF Own, CoreFiles
      <4>5. job[p].cmd # "cert"
        BY <2>1, <3>1, <4>1 DEF PlacedAt, Scope, Installs
      <4>6. job[p].cmd = "recover"
        BY <4>3, <4>4, <4>5 DEF JobsTyped, Job, Command
      <4>7. t = job[p].target
        BY <1>2, <3>1, <4>6 DEF WaitingAt, OneIncomplete
      <4>8. Head(todo) = todo[1] /\ 1 \in DOMAIN todo
        BY <4>1, TailTouched DEF FilesTyped, HeldTyped
      <4>9. CASE pc[p] \in {"write", "commit"}
        BY <3>1, <4>1, <4>2, <4>6, <4>7, <4>8, <4>9 DEF RestoringAt, Heading
      <4>10. CASE pc[p] = "undo"
        BY <2>1, <3>1, <4>1, <4>2, <4>6, <4>7, <4>8, <4>10 DEF RestoringAt
      <4>11. pc[p] \notin {"local", "localDone"}
        BY <2>1, <3>1, <4>1, <4>6, <4>7 DEF RestoringAt
      <4>12. pc[p] # "stop" /\ pc[p] # "settle"
        BY <3>1, <4>1, <4>6 DEF PlacedAt, Installs, Touched
      <4> QED
        BY <4>1, <4>9, <4>10, <4>11, <4>12 DEF Locked
    <3>4. CASE \/ StartRecovery(p) \/ \E c \in Command : StartCommand(p, c)
               \/ NothingToRecover(p) \/ DoctorFix(p) \/ Kill(p)
               \/ Busy(p) \/ Refuse(p) \/ RecoveryRefused(p) \/ BeginRecovery(p) \/ BeginUninstall(p)
      BY <3>4 DEF StartRecovery, StartCommand, NothingToRecover, DoctorFix, Kill, Busy, Refuse,
                  RecoveryRefused, BeginRecovery, BeginUninstall, files, vars
    <3>5. CASE \/ Begin(p) \/ Abort(p) \/ Commit(p) \/ Settle(p) \/ SettleUnrecorded(p)
               \/ Restored(p) \/ RecoveryFails(p) \/ UninstallFails(p) \/ Mark(p)
      BY <3>5 DEF Begin, Abort, Commit, Settle, SettleUnrecorded, Restored, RecoveryFails,
                  UninstallFails, Mark, files
    <3>6. ~RemoveRoot(p) /\ ~RemoveUser(p)
      <4>1. job[p].cmd = "uninstall" /\ pc[p] # "idle" => Incomplete = {}
        BY <3>1 DEF WaitingAt
      <4> QED
        BY <1>2, <3>1, <4>1 DEF RemoveRoot, RemoveUser, WorkingAt
    <3> QED
      BY <2>3, <3>3, <3>4, <3>5, <3>6 DEF Moves, Proceed
  <2>4. ASSUME Reboot \/ (\E u \in TxId : LoseBackup(u)) \/ UNCHANGED vars
        PROVE  disk'[f] = disk[f]
    BY <2>4 DEF Reboot, LoseBackup, vars
  <2> QED
    BY <2>3, <2>4 DEF Next, Moves
<1> QED
  BY <1>1, <1>2, RecordsNext

LEMMA ShellRemoves == OneShell => RemoverAlone
  BY DEF OneShell, RemoverAlone

LEMMA ShelledInit == Init => Shelled
<1> SUFFICES ASSUME Init PROVE Shelled
  OBVIOUS
<1>1. Safe
  BY SafeInit
<1>2. Incomplete = {} /\ \A t \in TxId : journal[t].backup = {} /\ journal[t].status \in {"NONE", "COMMITTED"}
  BY DEF Init, Incomplete, NoRecord
<1>3. OneIncomplete /\ Spared /\ Named
  BY <1>2 DEF OneIncomplete, Spared, Named
<1>4. \A p \in Cli : pc[p] = "idle" /\ job[p] = NoJob
  BY DEF Init
<1>5. AllPlaced
  <2> SUFFICES ASSUME NEW p \in Cli PROVE WaitingAt(p) /\ PlacedAt(p) /\ BarredAt(p) /\ RestoringAt(p)
    BY DEF AllPlaced
  <2>1. pc[p] \notin Locked /\ pc[p] = "idle" /\ job[p] = NoJob
    BY <1>4 DEF Locked
  <2>2. WaitingAt(p)
    BY <2>1 DEF WaitingAt, NoJob, Installs
  <2> QED
    BY <2>1, <2>2 DEF PlacedAt, BarredAt, RestoringAt
<1>6. Numbered
  <2>1. todo = <<>> /\ snap = Empty /\ nextTx = (IF disk = Empty THEN 1 ELSE 2)
        /\ disk \in {Empty, [f \in File |-> 1]} /\ bak = [t \in TxId |-> Empty]
    BY DEF Init
  <2>2. Empty # [f \in File |-> 1]
    BY DEF Empty, File, Absent
  <2>3. Below(disk) /\ Below(snap) /\ \A t \in TxId : Below(bak[t])
    BY <2>1 DEF Below, Empty, Absent
  <2>4. \A t \in TxId : t >= nextTx => journal[t].status = "NONE"
    BY <2>1 DEF Init, NoRecord, TxId
  <2>5. DOMAIN <<>> = {}
    OBVIOUS
  <2> QED
    BY <1>4, <2>1, <2>3, <2>4, <2>5 DEF Numbered, Locked
<1> QED
  BY <1>1, <1>3, <1>5, <1>6 DEF Shelled

LEMMA ShelledNext ==
  ASSUME OneShell, Shelled, [Next]_vars
  PROVE  Shelled'
<1>1. Safe /\ Safe' /\ Typed /\ Typed'
  BY ShellRemoves, SafeNext DEF Shelled, Safe
<1> QED
  BY <1>1, NumberedNext, NamedNext, OneIncompleteNext, SparedNext, PlacedNext DEF Shelled

\* The files are back, and the services run them, when a recovery is about to
\* be recorded.
LEMMA RecoveryHeads ==
  ASSUME OneShell, Shelled, [Next]_vars, NEW p \in Cli, pc[p] \in {"commit", "localDone"},
         pc'[p] = "mark", NEW f \in {"singbox", "versions", "state", "ownership"}
  PROVE  disk[f] = bak[job[p].target][f] /\ running = Serve(disk)
<1> USE DEF Shelled, Safe, Typed
<1>1. WaitingAt(p) /\ PlacedAt(p) /\ BarredAt(p) /\ RestoringAt(p)
  BY DEF AllPlaced
<1>2. Restored(p)
  <2>1. ~Exit(p) /\ \A l \in Label \ {"mark"} : ~Goto(p, l)
    BY Goes, Exits
  <2>2. ~Reboot /\ (\A t \in TxId : ~LoseBackup(t)) /\ ~UNCHANGED vars
    BY DEF Reboot, LoseBackup, vars
  <2>3. \A q \in Cli \ {p} : ~Moves(q)
    BY OthersStay DEF Moves
  <2>4. ~(\/ StartRecovery(p) \/ \E c \in Command : StartCommand(p, c)
          \/ NothingToRecover(p) \/ DoctorFix(p) \/ Kill(p))
    BY <2>1 DEF StartRecovery, StartCommand, NothingToRecover, DoctorFix, Kill
  <2>5. ~(\/ Busy(p) \/ Refuse(p) \/ RecoveryRefused(p) \/ Abort(p) \/ Commit(p)
          \/ Settle(p) \/ SettleUnrecorded(p) \/ RecoveryFails(p) \/ Mark(p) \/ RemoveUser(p)
          \/ UninstallFails(p))
    BY <2>1 DEF Busy, Refuse, RecoveryRefused, Abort, Commit, Settle, SettleUnrecorded,
                RecoveryFails, Mark, RemoveUser, UninstallFails
  <2>6. ~(\/ Begin(p) \/ BeginRecovery(p) \/ BeginUninstall(p) \/ RemoveRoot(p))
    BY DEF Begin, BeginRecovery, BeginUninstall, RemoveRoot
  <2>7. ~(\/ Write(p) \/ WriteFails(p) \/ Restart(p) \/ RestartFails(p) \/ CommitFails(p)
          \/ StopServices(p) \/ UndoStep(p) \/ UndoFails(p) \/ UndoRestart(p))
    BY HolderGoes DEF Locked
  <2> QED
    BY <2>2, <2>3, <2>4, <2>5, <2>6, <2>7 DEF Next, Moves, Proceed
<1>3. job[p].cmd = "recover" /\ p \notin Confined /\ todo = <<>> /\ pc[p] \in Locked
      /\ (pc[p] = "localDone" => ~job[p].bad)
  BY <1>1, <1>2 DEF Restored, PlacedAt, BarredAt, Locked
<1>4. job[p].target \in Incomplete
  BY <1>1, <1>3 DEF WaitingAt
<1>5. running = Serve(disk)
  BY <1>1, <1>3 DEF RestoringAt
<1>6. f \in File /\ f \in BackedUp /\ f \notin CertFiles
  BY DEF File, StateRoot, BackedUp, CertFiles
<1>7. CASE pc[p] = "commit"
  BY <1>1, <1>3, <1>5, <1>6, <1>7 DEF RestoringAt, Heading, Touched
<1>8. CASE pc[p] = "localDone"
  <2>1. CASE f \in Own(job[p].target)
    BY <1>1, <1>3, <1>5, <1>8, <2>1 DEF RestoringAt, Heading, Touched
  <2>2. CASE f \notin Own(job[p].target)
    BY <1>4, <1>5, <1>6, <2>2 DEF Spared
  <2> QED
    BY <2>1, <2>2
<1> QED
  BY <1>7, <1>8

\* For one operator's shell beside any number of confined renewals, whatever
\* is killed, fails or is lost: a core update recorded as recovered has its
\* files back, and the services run what is installed.
THEOREM RecoveredAsFound == ASSUME OneShell PROVE Spec => RecoveryRestores
<1>1. Shelled /\ [Next]_vars => Shelled'
  BY ShelledNext
<1>2. Shelled /\ [Next]_vars =>
        [\A p \in Cli : pc[p] \in {"commit", "localDone"} /\ pc'[p] = "mark" =>
           /\ \A f \in {"singbox", "versions", "state", "ownership"} :
                disk[f] = bak[job[p].target][f]
           /\ running = Serve(disk)]_vars
  BY RecoveryHeads
<1> QED
  BY <1>1, <1>2, ShelledInit, PTL DEF Spec, RecoveryRestores

-----------------------------------------------------------------------------
(* What is evident, and what the services run.                             *)

\* A recovery from the persistent backup has only to be marked.
Settled(p) == pc[p] = "mark" /\ ~job[p].local

\* A core update in progress has still to be recovered.
Due == Incomplete # {} /\ \A p \in Cli : ~Settled(p)

\* What tells of files that were left behind, beside a record in progress.
Amiss == \/ untold # {}
         \/ \E t \in TxId : \/ journal[t].status = "ROLLBACK_FAILED"
                            \/ journal[t].status = "RECOVERED" /\ journal[t].backup = {"local"}

\* The files d are those of one installation in the table n, or of none.
Installed(d, n) ==
  /\ d["cert"] = d["key"]
  /\ d["state"] = Absent => \A f \in File \ {"cert", "key"} : d[f] = Absent
  /\ d["state"] # Absent =>
       /\ \A f \in File \ CertFiles : d[f] = n[d["state"]][f]
       /\ n[d["state"]]["cert"] # Absent => d["acme"] = d["cert"]
       /\ d["units"] # Absent

\* What the services run where the files are d.
Expected(d) == IF d["state"] = Absent THEN Stopped ELSE Serve(d)

\* The files p's command writes over the files d, and what they come to.
Written(p, d) ==
  CASE job[p].cmd = "install"        -> InstallFiles \cup (IF d["user"] = Absent THEN {"user"} ELSE {})
    [] job[p].cmd = "installReality" -> (InstallFiles \cup (IF d["user"] = Absent THEN {"user"} ELSE {}))
                                          \ {"cert", "key", "acme", "env"}
    [] job[p].cmd = "self"           -> SelfFiles
    [] job[p].cmd = "core"           -> CoreFiles(job[p].replaces)
    [] job[p].cmd = "cert"           -> CertFiles
Over(p, d, t) == [f \in File |-> IF f \in Written(p, d) THEN t ELSE d[f]]
Target(p) == Over(p, snap, job[p].tx)

\* The last step for a file is the one that counts (the lego tree is moved
\* away before it is written).
Final(s, image) ==
  \A i \in DOMAIN s : \/ s[i].to = image[s[i].file]
                      \/ \E j \in DOMAIN s : /\ j > i /\ s[j].file = s[i].file
                                             /\ s[j].to = image[s[j].file]
OnwardAt(p) ==
  pc[p] \in {"write", "commit"} /\ job[p].cmd \in Changes =>
    /\ Final(todo, Target(p))
    /\ \A f \in File : disk[f] = Target(p)[f] \/ f \in Touched(todo)

\* What a command in line has read still holds.
BasedAt(p) ==
  pc[p] = "wait" /\ job[p].cmd \in Changes \ {"cert"} =>
    job[p].base = disk["state"] /\ (job[p].cmd \in Installs => disk["state"] = Absent)

\* A command at work has found, and leads to, the files of one installation,
\* and the services run one or the other.
SteadyAt(p) ==
  pc[p] \in Locked /\ job[p].cmd \in Changes /\ (job[p].cmd = "cert" => ~Due) =>
    /\ Installed(snap, names) /\ (snap["state"] = Absent <=> job[p].cmd \in Installs)
    /\ pc[p] \in {"write", "commit"} => Installed(Target(p), names) /\ Target(p)["state"] # Absent
    /\ pc[p] = "write" \/ (pc[p] = "undo" /\ ~Again(p)) => running = Expected(snap)
    /\ pc[p] = "commit" \/ (pc[p] = "settle" /\ ~job[p].bad) => running = Serve(disk)

\* A confined recovery that comes too late writes what is there.
LateAt(p) ==
  pc[p] = "local" /\ p \in Confined /\ ~Due => \A i \in DOMAIN todo : todo[i].to = disk[todo[i].file]

\* A removal keeps the certificate with its key.
KeepingAt(p) ==
  job[p].cmd = "uninstall" =>
    /\ pc[p] = "write" /\ job[p].keepCert =>
         disk["cert"] = disk["key"] /\ Touched(todo) \cap {"cert", "key"} = {}
    /\ pc[p] = "user" => disk["cert"] = disk["key"]

Quiet ==
  ~Amiss /\ ~Due /\ lock = NoCli /\ (\A p \in Cli : pc[p] # "user") =>
    Installed(disk, names) /\ running = Expected(disk)
Mendable ==
  ~Amiss => \A t \in Incomplete : Installed(bak[t], names) /\ bak[t]["state"] # Absent
Marking ==
  ~Amiss => \A p \in Cli : Settled(p) => \A f \in CoreFiles(TRUE) : disk[f] = bak[job[p].target][f]
Onward == \A p \in Cli : OnwardAt(p)
Steady == ~Amiss => \A p \in Cli : BasedAt(p) /\ SteadyAt(p) /\ LateAt(p) /\ KeepingAt(p)

Calm == Quiet /\ Mendable /\ Marking /\ Onward /\ Steady

\* Only an invocation that has restored the files comes to mark them.
LEMMA ToMark ==
  ASSUME Typed, NEW p \in Cli, Moves(p), pc'[p] = "mark"
  PROVE  Restored(p)
<1> USE DEF Typed
<1>1. ~Exit(p) /\ \A l \in Label \ {"mark"} : ~Goto(p, l)
  BY Goes, Exits
<1>2. ~(\/ StartRecovery(p) \/ \E c \in Command : StartCommand(p, c)
        \/ NothingToRecover(p) \/ DoctorFix(p) \/ Kill(p))
  BY <1>1 DEF StartRecovery, StartCommand, NothingToRecover, DoctorFix, Kill, Label, vars
<1>3. ~(\/ Busy(p) \/ Refuse(p) \/ RecoveryRefused(p) \/ Abort(p) \/ Commit(p)
        \/ Settle(p) \/ SettleUnrecorded(p) \/ RecoveryFails(p) \/ Mark(p) \/ RemoveUser(p)
        \/ UninstallFails(p))
  BY <1>1 DEF Busy, Refuse, RecoveryRefused, Abort, Commit, Settle, SettleUnrecorded,
              RecoveryFails, Mark, RemoveUser, UninstallFails
<1>4. ~(\/ Begin(p) \/ BeginRecovery(p) \/ BeginUninstall(p) \/ RemoveRoot(p))
  BY <1>1 DEF Begin, BeginRecovery, BeginUninstall, RemoveRoot, Label
<1>5. ~(\/ Write(p) \/ WriteFails(p) \/ Restart(p) \/ RestartFails(p) \/ CommitFails(p)
        \/ StopServices(p) \/ UndoStep(p) \/ UndoFails(p) \/ UndoRestart(p))
  BY HolderGoes DEF Locked
<1> QED
  BY <1>2, <1>3, <1>4, <1>5 DEF Moves, Proceed

\* A record that is final stays, until a removal clears the journal.
LEMMA OpenRecords ==
  ASSUME Shelled, [Next]_vars, \A p \in Cli : ~RemoveRoot(p), NEW t \in TxId, journal'[t] # journal[t]
  PROVE  journal[t].status \in {"NONE", "IN_PROGRESS"}
<1> USE DEF Shelled, Safe, Typed
<1>1. ASSUME NEW p \in Cli, Begin(p) PROVE journal[t].status = "NONE"
  <2>1. t = nextTx /\ nextTx \in Nat
    BY <1>1 DEF Begin, FilesTyped, TxId
  <2> QED
    BY <2>1 DEF Numbered
<1>2. ASSUME NEW p \in Cli, Abort(p) \/ Commit(p) \/ Settle(p) \/ SettleUnrecorded(p)
      PROVE  journal[t].status \in {"NONE", "IN_PROGRESS"}
  <2>1. pc[p] \in Locked /\ PlacedAt(p)
    BY <1>2, HolderLeaves DEF AllPlaced
  <2>2. t = job[p].tx
    BY <1>2 DEF Abort, Commit, Settle, SettleUnrecorded, FilesTyped
  <2>3. job[p].cmd \in Changes
    BY <1>2, <2>1 DEF Abort, Commit, Settle, SettleUnrecorded, Undone, Working, WorkingAt, JobsTyped,
                      Job, Changes, Command, Locked
  <2> QED
    BY <2>1, <2>2, <2>3 DEF PlacedAt, Incomplete
<1>3. ASSUME NEW p \in Cli, Mark(p) PROVE journal[t].status = "IN_PROGRESS"
  <2>1. WaitingAt(p)
    BY DEF AllPlaced
  <2>2. job[p].target \in Incomplete /\ t = job[p].target
    BY <1>3, <2>1, MarkWrites
  <2> QED
    BY <2>2 DEF Incomplete
<1>4. ASSUME NEW u \in TxId, LoseBackup(u) PROVE journal[t].status = "IN_PROGRESS"
  <2>1. t = u /\ {"persistent", "local"} \subseteq journal[t].backup
    BY <1>4 DEF LoseBackup, FilesTyped
  <2> QED
    BY <2>1 DEF Named
<1>5. ASSUME NEW p \in Cli,
             \/ StartRecovery(p) \/ \E c \in Command : StartCommand(p, c)
             \/ NothingToRecover(p) \/ DoctorFix(p) \/ Kill(p)
             \/ Busy(p) \/ Refuse(p) \/ RecoveryRefused(p) \/ BeginRecovery(p) \/ BeginUninstall(p)
      PROVE  FALSE
  BY <1>5 DEF StartRecovery, StartCommand, NothingToRecover, DoctorFix, Kill, Busy, Refuse,
              RecoveryRefused, BeginRecovery, BeginUninstall, files, vars
<1>6. ASSUME NEW p \in Cli,
             \/ Write(p) \/ WriteFails(p) \/ Restart(p) \/ RestartFails(p) \/ CommitFails(p)
             \/ StopServices(p) \/ UndoStep(p) \/ UndoFails(p) \/ UndoRestart(p)
             \/ Restored(p) \/ RecoveryFails(p) \/ RemoveUser(p) \/ UninstallFails(p)
      PROVE  FALSE
  BY <1>6 DEF Write, WriteFails, Restart, RestartFails, CommitFails, StopServices, UndoStep,
              UndoFails, UndoRestart, Restored, RecoveryFails, RemoveUser, UninstallFails, files
<1>7. ~Reboot /\ ~UNCHANGED vars
  BY DEF Reboot, vars
<1> QED
  BY <1>1, <1>2, <1>3, <1>4, <1>5, <1>6, <1>7 DEF Next, Proceed

\* What was left behind untold stays so.
LEMMA UntoldGrows ==
  ASSUME [Next]_vars
  PROVE  untold \subseteq untold'
<1>1. ASSUME NEW p \in Cli,
             \/ StartRecovery(p) \/ \E c \in Command : StartCommand(p, c)
             \/ NothingToRecover(p) \/ DoctorFix(p) \/ Kill(p)
             \/ Busy(p) \/ Begin(p) \/ Refuse(p) \/ RecoveryRefused(p) \/ BeginRecovery(p) \/ BeginUninstall(p)
      PROVE  untold \subseteq untold'
  BY <1>1 DEF StartRecovery, StartCommand, NothingToRecover, DoctorFix, Kill, Busy, Begin, Refuse,
              RecoveryRefused, BeginRecovery, BeginUninstall, files, vars
<1>2. ASSUME NEW p \in Cli,
             \/ Write(p) \/ WriteFails(p) \/ Restart(p) \/ RestartFails(p) \/ CommitFails(p)
             \/ StopServices(p) \/ UndoStep(p) \/ UndoFails(p) \/ UndoRestart(p)
      PROVE  untold \subseteq untold'
  BY <1>2 DEF Write, WriteFails, Restart, RestartFails, CommitFails, StopServices, UndoStep,
              UndoFails, UndoRestart, files
<1>3. ASSUME NEW p \in Cli,
             \/ Abort(p) \/ Commit(p) \/ Settle(p) \/ SettleUnrecorded(p) \/ Mark(p) \/ RemoveRoot(p)
             \/ Restored(p) \/ RecoveryFails(p) \/ RemoveUser(p) \/ UninstallFails(p)
      PROVE  untold \subseteq untold'
  BY <1>3 DEF Abort, Commit, Settle, SettleUnrecorded, Mark, RemoveRoot, Restored, RecoveryFails,
              RemoveUser, UninstallFails, files
<1>4. ASSUME Reboot \/ (\E t \in TxId : LoseBackup(t)) \/ UNCHANGED vars
      PROVE  untold \subseteq untold'
  BY <1>4 DEF Reboot, LoseBackup, vars
<1> QED
  BY <1>1, <1>2, <1>3, <1>4 DEF Next, Proceed

LEMMA AmissStays ==
  ASSUME Shelled, [Next]_vars, \A p \in Cli : ~RemoveRoot(p), Amiss
  PROVE  Amiss'
<1>1. CASE untold # {}
  BY <1>1, UntoldGrows DEF Amiss
<1>2. ASSUME NEW t \in TxId,
             \/ journal[t].status = "ROLLBACK_FAILED"
             \/ journal[t].status = "RECOVERED" /\ journal[t].backup = {"local"}
      PROVE  Amiss'
  <2>1. journal'[t] = journal[t]
    BY <1>2, OpenRecords
  <2> QED
    BY <1>2, <2>1 DEF Amiss
<1> QED
  BY <1>1, <1>2 DEF Amiss

\* A core update in progress is to be recovered until its command settles it
\* or its recovery has restored the files.
LEMMA DueStays ==
  ASSUME OneShell, Shelled, NEW p \in Cli, Moves(p), Due, ~Amiss'
  PROVE  Due' \/ Restored(p) \/ (job[p].cmd = "core" /\ (Abort(p) \/ Commit(p) \/ Settle(p)))
<1> USE DEF Shelled, Safe, Typed
<1> SUFFICES ASSUME ~Restored(p), ~(job[p].cmd = "core" /\ (Abort(p) \/ Commit(p) \/ Settle(p)))
             PROVE  Due'
  OBVIOUS
<1>1. WaitingAt(p) /\ PlacedAt(p) /\ WorkingAt(p)
  BY DEF AllPlaced, Working
<1>2. \A q \in Cli : ~Settled(q)'
  <2> SUFFICES ASSUME NEW q \in Cli, Settled(q)' PROVE FALSE
    OBVIOUS
  <2>1. q # p
    BY ToMark DEF Settled
  <2>2. pc'[q] = pc[q] /\ job'[q] = job[q]
    BY <2>1, OthersStay DEF Moves
  <2> QED
    BY <2>2 DEF Settled, Due
<1>3. PICK t \in Incomplete : TRUE
  BY DEF Due
<1>4. t \in TxId /\ journal[t].status = "IN_PROGRESS"
  BY DEF Incomplete
<1>5. SUFFICES journal'[t].status = "IN_PROGRESS"
  BY <1>2, <1>4 DEF Due, Incomplete
<1>6. CASE Begin(p)
  <2>1. t # nextTx
    BY <1>4, <1>6 DEF Numbered, Begin, TxId
  <2> QED
    BY <1>4, <1>6, <2>1 DEF Begin, FilesTyped
<1>7. CASE Abort(p) \/ Commit(p) \/ Settle(p)
  <2>1. pc[p] \in Locked /\ job[p].cmd \in Changes \ {"core"}
    BY <1>1, <1>7, HolderLeaves DEF Abort, Commit, Settle, Undone, WorkingAt, JobsTyped, Job, Changes, Command, Locked
  <2>2. t # job[p].tx
    BY <1>1, <1>4, <2>1 DEF PlacedAt
  <2> QED
    BY <1>4, <1>7, <2>2 DEF Abort, Commit, Settle, FilesTyped
<1>8. CASE SettleUnrecorded(p)
  BY <1>4, <1>8 DEF SettleUnrecorded, FilesTyped, Record
<1>9. CASE Mark(p)
  <2>1. /\ \/ UNCHANGED <<journal, bak>>
           \/ LET u == job[p].target
              IN  /\ journal'[u].status = "RECOVERED"
                  /\ journal'[u].backup = (IF job[p].local THEN {"local"} ELSE {})
                  /\ \A v \in TxId \ {u} : journal'[v] = journal[v]
        /\ job[p].target \in TxId
    BY <1>1, <1>9, MarkWrites DEF Incomplete
  <2>2. CASE UNCHANGED journal
    BY <1>4, <2>2
  <2>3. CASE ~UNCHANGED journal
    <3>1. job[p].local
      BY <1>9 DEF Due, Settled, Mark
    <3>2. journal'[job[p].target].status = "RECOVERED" /\ journal'[job[p].target].backup = {"local"}
      BY <2>1, <2>3, <3>1
    <3> QED
      BY <2>1, <3>2 DEF Amiss
  <2> QED
    BY <2>2, <2>3
<1>10. CASE RemoveRoot(p)
  BY <1>1, <1>4, <1>10 DEF RemoveRoot, WaitingAt, Incomplete
<1>11. CASE \/ StartRecovery(p) \/ \E c \in Command : StartCommand(p, c)
            \/ NothingToRecover(p) \/ DoctorFix(p) \/ Kill(p)
            \/ Busy(p) \/ Refuse(p) \/ RecoveryRefused(p) \/ BeginRecovery(p) \/ BeginUninstall(p)
  BY <1>4, <1>11 DEF StartRecovery, StartCommand, NothingToRecover, DoctorFix, Kill, Busy, Refuse,
                     RecoveryRefused, BeginRecovery, BeginUninstall, files, vars
<1>12. CASE \/ Write(p) \/ WriteFails(p) \/ Restart(p) \/ RestartFails(p) \/ CommitFails(p)
            \/ StopServices(p) \/ UndoStep(p) \/ UndoFails(p) \/ UndoRestart(p)
            \/ RecoveryFails(p) \/ RemoveUser(p) \/ UninstallFails(p)
  BY <1>4, <1>12 DEF Write, WriteFails, Restart, RestartFails, CommitFails, StopServices, UndoStep,
                     UndoFails, UndoRestart, RecoveryFails, RemoveUser, UninstallFails, files
<1> QED
  BY <1>6, <1>7, <1>8, <1>9, <1>10, <1>11, <1>12 DEF Moves, Proceed

\* The names of an earlier transaction stay.
LEMMA NamesKept ==
  ASSUME Typed, [Next]_vars, NEW t \in TxId, t < nextTx
  PROVE  names'[t] = names[t]
<1> USE DEF Typed
<1>1. ASSUME NEW p \in Cli, Begin(p) PROVE names'[t] = names[t]
  BY <1>1 DEF Begin, FilesTyped, TxId
<1>2. ASSUME NEW p \in Cli,
             \/ StartRecovery(p) \/ \E c \in Command : StartCommand(p, c)
             \/ NothingToRecover(p) \/ DoctorFix(p) \/ Kill(p)
             \/ Busy(p) \/ Refuse(p) \/ RecoveryRefused(p) \/ BeginRecovery(p) \/ BeginUninstall(p)
      PROVE  UNCHANGED names
  BY <1>2 DEF StartRecovery, StartCommand, NothingToRecover, DoctorFix, Kill, Busy, Refuse,
              RecoveryRefused, BeginRecovery, BeginUninstall, files, vars
<1>3. ASSUME NEW p \in Cli,
             \/ Write(p) \/ WriteFails(p) \/ Restart(p) \/ RestartFails(p) \/ CommitFails(p)
             \/ StopServices(p) \/ UndoStep(p) \/ UndoFails(p) \/ UndoRestart(p)
      PROVE  UNCHANGED names
  BY <1>3 DEF Write, WriteFails, Restart, RestartFails, CommitFails, StopServices, UndoStep,
              UndoFails, UndoRestart, files
<1>4. ASSUME NEW p \in Cli,
             \/ Abort(p) \/ Commit(p) \/ Settle(p) \/ SettleUnrecorded(p) \/ Mark(p) \/ RemoveRoot(p)
             \/ Restored(p) \/ RecoveryFails(p) \/ RemoveUser(p) \/ UninstallFails(p)
      PROVE  UNCHANGED names
  BY <1>4 DEF Abort, Commit, Settle, SettleUnrecorded, Mark, RemoveRoot, Restored, RecoveryFails,
              RemoveUser, UninstallFails, files
<1>5. ASSUME Reboot \/ (\E u \in TxId : LoseBackup(u)) \/ UNCHANGED vars
      PROVE  UNCHANGED names
  BY <1>5 DEF Reboot, LoseBackup, vars
<1> QED
  BY <1>1, <1>2, <1>3, <1>4, <1>5 DEF Next, Proceed

LEMMA InstalledKept ==
  ASSUME NEW d \in Image, NEW m, NEW n, NEW k \in Nat, d["state"] < k,
         \A t \in TxId : t < k => n[t] = m[t], Installed(d, m)
  PROVE  Installed(d, n)
<1>1. d["state"] \in Version
  BY DEF Image, File, StateRoot
<1>2. d["state"] # Absent => n[d["state"]] = m[d["state"]]
  BY <1>1 DEF Version
<1> QED
  BY <1>2 DEF Installed

LEMMA InstalledStays ==
  ASSUME Typed, Numbered, [Next]_vars, NEW d \in Image, Below(d), Installed(d, names)
  PROVE  Installed(d, names')
<1>1. \A t \in TxId : t < nextTx => names'[t] = names[t]
  BY NamesKept
<1>2. nextTx \in Nat /\ d["state"] < nextTx
  BY DEF Numbered, Below, File, StateRoot
<1> QED
  BY <1>1, <1>2, InstalledKept

\* Only who is at work changes files.
LEMMA DiskKept ==
  ASSUME Typed, NEW p \in Cli, Moves(p), pc[p] \notin Locked \cup {"user"}
  PROVE  UNCHANGED disk
<1> USE DEF Typed
<1>1. CASE \/ StartRecovery(p) \/ \E c \in Command : StartCommand(p, c)
           \/ NothingToRecover(p) \/ DoctorFix(p) \/ Kill(p)
           \/ Busy(p) \/ Begin(p) \/ Refuse(p) \/ RecoveryRefused(p) \/ BeginRecovery(p)
           \/ BeginUninstall(p) \/ Mark(p)
  BY <1>1 DEF StartRecovery, StartCommand, NothingToRecover, DoctorFix, Kill, Busy, Begin, Refuse,
              RecoveryRefused, BeginRecovery, BeginUninstall, Mark, files, vars
<1>2. ~(\/ Write(p) \/ WriteFails(p) \/ Restart(p) \/ RestartFails(p) \/ CommitFails(p)
        \/ StopServices(p) \/ UndoStep(p) \/ UndoFails(p) \/ UndoRestart(p))
  BY HolderGoes
<1>3. ~(\/ Abort(p) \/ Commit(p) \/ Settle(p) \/ SettleUnrecorded(p) \/ RecoveryFails(p))
  BY HolderLeaves
<1>4. ~(Restored(p) \/ RemoveRoot(p) \/ RemoveUser(p) \/ UninstallFails(p))
  BY DEF Restored, RemoveRoot, RemoveUser, UninstallFails, Locked
<1> QED
  BY <1>1, <1>2, <1>3, <1>4 DEF Moves, Proceed

\* Where nothing is amiss or due a confined invocation changes the certificate
\* and nothing else.
LEMMA ConfinedSpares ==
  ASSUME OneShell, Shelled, Calm, ~Amiss, ~Due, NEW p \in Confined, p \in Cli, Moves(p),
         NEW f \in File \ CertFiles
  PROVE  disk'[f] = disk[f]
<1> USE DEF Shelled, Safe, Typed
<1>1. WaitingAt(p) /\ PlacedAt(p) /\ BarredAt(p) /\ WorkingAt(p)
  BY DEF AllPlaced, Working
<1>2. job[p].cmd \in {"cert", "recover", "none"}
  BY DEF OneShell, Used
<1>3. CASE \/ Write(p) \/ WriteFails(p) \/ Restart(p) \/ RestartFails(p) \/ CommitFails(p)
           \/ StopServices(p) \/ UndoStep(p) \/ UndoFails(p) \/ UndoRestart(p)
  <2> SUFFICES ASSUME disk'[f] # disk[f] PROVE FALSE
    OBVIOUS
  <2>1. /\ pc[p] \in Locked /\ todo # <<>> /\ f \in Touched(todo) /\ f = Head(todo).file /\ ~Blocked(p)
        /\ disk'[f] = Head(todo).to \/ f = "acme"
    BY <1>3, FirstFile, HolderGoes
  <2>2. disk'[f] = Head(todo).to /\ Head(todo) = todo[1] /\ 1 \in DOMAIN todo
    BY <2>1, TailTouched, FirstWritten DEF CertFiles, FilesTyped, HeldTyped
  <2>3. job[p].cmd = "recover"
    BY <1>1, <1>2, <2>1 DEF PlacedAt, Scope, Installs, WorkingAt, Locked
  <2>4. pc[p] = "local"
    BY <1>1, <2>1, <2>3 DEF BarredAt, PlacedAt
  <2>5. LateAt(p)
    BY DEF Calm, Steady
  <2> QED
    BY <2>1, <2>2, <2>4, <2>5 DEF LateAt
<1>4. CASE pc[p] \notin Locked \cup {"user"}
  BY <1>4, DiskKept
<1>5. pc[p] # "user"
  BY <1>1, <1>2 DEF WorkingAt
<1>6. CASE Abort(p) \/ Commit(p) \/ Settle(p) \/ SettleUnrecorded(p) \/ RecoveryFails(p)
  BY <1>6, HolderLeaves
<1>7. CASE Restored(p) \/ Kill(p)
  BY <1>7 DEF Restored, Kill, files
<1>8. ~RemoveRoot(p) /\ ~RemoveUser(p) /\ ~UninstallFails(p)
  BY <1>2, <1>5 DEF RemoveRoot, RemoveUser, UninstallFails
<1>9. CASE \/ StartRecovery(p) \/ \E c \in Command : StartCommand(p, c)
           \/ NothingToRecover(p) \/ DoctorFix(p)
           \/ Busy(p) \/ Begin(p) \/ Refuse(p) \/ RecoveryRefused(p) \/ BeginRecovery(p)
           \/ BeginUninstall(p) \/ Mark(p)
  BY <1>4, <1>9 DEF StartRecovery, StartCommand, NothingToRecover, DoctorFix, Busy, Begin, Refuse,
              RecoveryRefused, BeginRecovery, BeginUninstall, Mark, Locked
<1> QED
  BY <1>3, <1>6, <1>7, <1>8, <1>9 DEF Moves, Proceed

\* What a command finds when it begins.
LEMMA BeginsQuiet ==
  ASSUME OneShell, Shelled, Calm, ~Amiss, NEW p \in Cli, Begin(p), job[p].cmd = "cert" => ~Due
  PROVE  /\ Installed(disk, names) /\ running = Expected(disk) /\ ~Due
         /\ disk["state"] = Absent <=> job[p].cmd \in Installs
<1> USE DEF Shelled, Safe, Typed
<1>1. /\ pc[p] = "wait" /\ lock = NoCli /\ Ready(p) /\ job[p].cmd \in Changes
      /\ WaitingAt(p)
  BY Begun DEF Begin, AllPlaced
<1>2. ~Due
  BY <1>1 DEF WaitingAt, Due, Changes
<1>3. BasedAt(p)
  BY DEF Calm, Steady
<1>4. \A q \in Cli : pc[q] # "user"
  <2> SUFFICES ASSUME NEW q \in Cli, pc[q] = "user" PROVE FALSE
    OBVIOUS
  <2>1. RootGone /\ job[q].cmd = "uninstall"
    BY <1>1, HostAssumption DEF Removing, Working, WorkingAt
  <2>2. q \notin Confined
    BY <2>1 DEF OneShell, Used
  <2>3. p \in Confined
    BY <1>1, <2>2 DEF OneShell
  <2>4. job[p].cmd = "cert"
    BY <1>1, <2>3 DEF OneShell, Used, Changes, Installs
  <2> QED
    BY <1>1, <2>1, <2>4 DEF Ready, RootGone, StateRoot
<1>5. Installed(disk, names) /\ running = Expected(disk)
  BY <1>1, <1>2, <1>4 DEF Calm, Quiet
<1>6. job[p].cmd \in Installs => disk["state"] = Absent
  BY <1>1, <1>3 DEF BasedAt, Changes, Installs
<1>7. job[p].cmd \in {"self", "core"} => disk["state"] # Absent
  BY <1>1 DEF Ready
<1>8. job[p].cmd = "cert" => disk["acme"] # Absent
  BY <1>1 DEF Ready
<1>9. job[p].cmd = "cert" => disk["state"] # Absent
  BY <1>5, <1>8 DEF Installed, File, StateRoot
<1> QED
  BY <1>1, <1>2, <1>5, <1>6, <1>7, <1>9 DEF Changes, Installs

LEMMA MendableNext ==
  ASSUME OneShell, Shelled, Calm, [Next]_vars
  PROVE  Mendable'
<1> USE DEF Shelled, Safe, Typed
<1> SUFFICES ASSUME ~Amiss', NEW t \in Incomplete'
             PROVE  Installed(bak'[t], names') /\ bak'[t]["state"] # Absent
  BY DEF Mendable
<1>1. \A p \in Cli : ~RemoveRoot(p)
  <2> SUFFICES ASSUME NEW p \in Cli, RemoveRoot(p) PROVE FALSE
    OBVIOUS
  <2>1. pc[p] = "write" /\ job[p].cmd = "uninstall" /\ lock = p /\ WaitingAt(p)
    BY DEF RemoveRoot, Holding, Locked, AllPlaced
  <2>2. Incomplete = {}
    BY <2>1 DEF WaitingAt
  <2>3. \A q \in Cli : ~Begin(q)
    BY <2>1, HostAssumption DEF Begin
  <2> QED
    BY <2>2, <2>3, RecordsNext
<1>2. ~Amiss
  BY <1>1, AmissStays
<1>3. CASE t \in Incomplete /\ bak'[t] = bak[t] /\ names'[t] = names[t]
  <2>1. t \in TxId /\ bak[t] \in Image /\ Below(bak[t])
    BY <1>3 DEF Incomplete, FilesTyped, Numbered
  <2>2. Installed(bak[t], names) /\ bak[t]["state"] # Absent
    BY <1>2, <1>3 DEF Calm, Mendable
  <2> QED
    BY <1>3, <2>1, <2>2, InstalledStays
<1>4. ASSUME NEW p \in Cli, Begin(p), job[p].cmd = "core", bak'[t] = disk
      PROVE  Installed(bak'[t], names') /\ bak'[t]["state"] # Absent
  <2>1. Installed(disk, names) /\ disk["state"] # Absent
    BY <1>2, <1>4, BeginsQuiet DEF Installs
  <2>2. disk \in Image /\ Below(disk)
    BY DEF FilesTyped, Numbered
  <2> QED
    BY <1>4, <2>1, <2>2, InstalledStays
<1> QED
  BY <1>3, <1>4, RecordsNext

\* Where a recovery has restored the files.
LEMMA RestoredFinds ==
  ASSUME OneShell, Shelled, NEW p \in Cli, Restored(p)
  PROVE  /\ p \notin Confined /\ job[p].target \in Incomplete /\ lock = p /\ pc'[p] = "mark"
         /\ UNCHANGED <<files, job>>
         /\ \/ ~job[p].local /\ disk = bak[job[p].target] /\ running = Serve(disk)
            \/ job[p].local
<1> USE DEF Shelled, Safe, Typed
<1>1. WaitingAt(p) /\ PlacedAt(p) /\ BarredAt(p) /\ RestoringAt(p)
  BY DEF AllPlaced
<1>2. /\ pc[p] \in {"commit", "localDone"}
      /\ pc[p] = "commit" => job[p].cmd = "recover"
      /\ pc[p] = "localDone" => ~job[p].bad
      /\ Goto(p, "mark") /\ UNCHANGED <<files, job>>
  BY DEF Restored
<1>3. pc[p] \in Locked /\ lock = p /\ pc'[p] = "mark"
  BY <1>2, Goes DEF Locked, Holding, Label
<1>4. p \notin Confined /\ job[p].cmd = "recover" /\ todo = <<>>
  BY <1>1, <1>2, <1>3 DEF PlacedAt, BarredAt
<1>5. job[p].target \in Incomplete
  BY <1>1, <1>4 DEF WaitingAt
<1>6. CASE pc[p] = "commit"
  <2> DEFINE t == job[p].target
  <2>1. t \in TxId /\ bak[t] \in Image /\ disk \in Image
    BY <1>5 DEF Incomplete, FilesTyped
  <2>2. \A f \in BackedUp : disk[f] = bak[t][f]
    BY <1>1, <1>3, <1>4, <1>6 DEF RestoringAt, Heading, Touched
  <2>3. \A f \in {"env", "user"} : disk[f] = bak[t][f]
    <3>1. \A f \in {"env", "user"} : f \in File \ (Own(t) \cup CertFiles)
      BY DEF File, StateRoot, Own, CoreFiles, CertFiles
    <3> QED
      BY <1>5, <3>1 DEF Spared
  <2>4. \A f \in File : disk[f] = bak[t][f]
    BY <2>2, <2>3 DEF BackedUp
  <2>5. disk = bak[t]
    BY <2>1, <2>4 DEF Image
  <2>6. running = Serve(disk) /\ ~job[p].local
    BY <1>1, <1>3, <1>4, <1>6 DEF RestoringAt, PlacedAt
  <2> QED
    BY <1>2, <1>3, <1>4, <1>5, <2>5, <2>6
<1>7. CASE pc[p] = "localDone"
  BY <1>1, <1>2, <1>3, <1>4, <1>5, <1>7 DEF PlacedAt
<1> QED
  BY <1>2, <1>6, <1>7

LEMMA MarkingNext ==
  ASSUME OneShell, Shelled, Calm, [Next]_vars
  PROVE  Marking'
<1> USE DEF Shelled, Safe, Typed
<1> SUFFICES ASSUME ~Amiss', NEW q \in Cli, Settled(q)', NEW f \in CoreFiles(TRUE)
             PROVE  disk'[f] = bak'[job'[q].target][f]
  BY DEF Marking
<1>1. ASSUME NEW p \in Cli \ {q}, Moves(p)
      PROVE  /\ Settled(q) /\ q \notin Confined /\ p \in Confined /\ job'[q] = job[q]
             /\ job[q].target \in Incomplete
  <2>1. pc'[q] = pc[q] /\ job'[q] = job[q]
    BY <1>1, OthersStay DEF Moves
  <2>2. pc[q] = "mark" /\ WaitingAt(q)
    BY <2>1 DEF Settled, AllPlaced
  <2> QED
    BY <1>1, <2>1, <2>2 DEF Settled, WaitingAt, OneShell
<1>2. \A p \in Cli : ~RemoveRoot(p)
  <2> SUFFICES ASSUME NEW p \in Cli, RemoveRoot(p) PROVE FALSE
    OBVIOUS
  <2>1. p \notin Confined /\ Moves(p) /\ pc'[p] = "user"
    BY Goes DEF RemoveRoot, OneShell, Used, Moves, Proceed, Label
  <2> QED
    BY <1>1, <2>1 DEF Settled
<1>3. ~Amiss
  BY <1>2, AmissStays
<1>4. CASE Moves(q)
  <2>1. Restored(q)
    BY <1>4, ToMark DEF Settled
  <2>2. UNCHANGED <<disk, bak, job>> /\ disk = bak[job[q].target]
    BY <2>1, RestoredFinds DEF Settled, files
  <2> QED
    BY <2>2
<1>5. ASSUME NEW p \in Cli \ {q}, Moves(p)
      PROVE  disk'[f] = bak'[job'[q].target][f]
  <2>1. WaitingAt(p) /\ PlacedAt(p) /\ BarredAt(p)
    BY DEF AllPlaced
  <2>2. ~Due
    BY <1>1, <1>5 DEF Due
  <2>3. f \in File \ CertFiles
    BY DEF CoreFiles, File, StateRoot, CertFiles
  <2>4. disk'[f] = disk[f]
    BY <1>1, <1>3, <1>5, <2>2, <2>3, ConfinedSpares
  <2>5. bak'[job[q].target] = bak[job[q].target]
    BY <1>1, <1>5, <2>1, ConfinedStep
  <2> QED
    BY <1>1, <1>3, <1>5, <2>4, <2>5 DEF Calm, Marking
<1>6. ASSUME (\E t \in TxId : LoseBackup(t)) \/ UNCHANGED vars
      PROVE  disk'[f] = bak'[job'[q].target][f]
  <2>1. UNCHANGED <<disk, bak, pc, job>>
    BY <1>6 DEF LoseBackup, vars
  <2> QED
    BY <1>3, <2>1 DEF Calm, Marking, Settled
<1>7. ~Reboot
  BY DEF Reboot, Settled
<1> QED
  BY <1>4, <1>5, <1>6, <1>7 DEF Next, Moves

\* Who is cut short while at work leaves word of it, or a core update to be
\* recovered.
LEMMA LeavesWord ==
  ASSUME OneShell, Shelled, NEW p \in Cli, lock = p \/ pc[p] = "user", Leaves(p) = {}
  PROVE  Incomplete # {} /\ \A q \in Cli : pc[q] # "mark"
<1> USE DEF Shelled, Safe, Typed
<1>1. \/ job[p].cmd = "core"
      \/ /\ job[p].cmd = "recover" /\ journal[job[p].target].status = "IN_PROGRESS"
         /\ \A q \in Cli : pc[q] # "mark"
  BY DEF Leaves
<1>2. pc[p] # "user" /\ pc[p] \in Locked
  BY <1>1 DEF Working, WorkingAt, Holding
<1>3. CASE job[p].cmd = "core"
  <2>1. Incomplete = {job[p].tx} /\ p \notin Confined
    BY <1>2, <1>3 DEF AllPlaced, PlacedAt, OneShell, Used
  <2>2. ASSUME NEW q \in Cli, pc[q] = "mark" PROVE FALSE
    <3>1. q \notin Confined
      BY <2>2 DEF AllPlaced, WaitingAt
    <3>2. q = p
      BY <2>1, <3>1 DEF OneShell
    <3> QED
      BY <1>2, <2>2, <3>2 DEF Locked
  <2> QED
    BY <2>1, <2>2
<1>4. CASE job[p].cmd # "core"
  BY <1>1, <1>4 DEF Working, WorkingAt, Incomplete
<1> QED
  BY <1>3, <1>4

\* A core update in progress that nobody has to mark is due.
LEMMA DueNow ==
  ASSUME UNCHANGED journal, Incomplete # {}, \A q \in Cli : pc'[q] # "mark"
  PROVE  Due'
  BY DEF Due, Incomplete, Settled

\* What a command leaves that ends with the lock in its hands.
LEMMA CommandEnds ==
  ASSUME OneShell, Shelled, Calm, ~Amiss, ~Amiss', ~Due', NEW p \in Cli,
         Abort(p) \/ Commit(p) \/ Settle(p)
  PROVE  Installed(disk, names) /\ running = Expected(disk)
<1> USE DEF Shelled, Safe, Typed
<1>1. pc[p] \in Locked /\ Moves(p)
  BY HolderLeaves DEF Moves, Proceed
<1>2. job[p].cmd \in Changes /\ WorkingAt(p) /\ PlacedAt(p)
  BY <1>1 DEF Abort, Commit, Settle, Undone, Working, WorkingAt, JobsTyped, Job, Changes, Command,
              Locked, AllPlaced
<1>3. job[p].cmd = "cert" => ~Due
  <2>1. ~Restored(p)
    BY <1>2 DEF Restored, Abort, Commit, Settle, Undone, PlacedAt, Locked, Changes, Installs
  <2> QED
    BY <1>1, <2>1, DueStays
<1>4. /\ Installed(snap, names) /\ (snap["state"] = Absent <=> job[p].cmd \in Installs)
      /\ pc[p] \in {"write", "commit"} => Installed(Target(p), names) /\ Target(p)["state"] # Absent
      /\ pc[p] = "write" \/ (pc[p] = "undo" /\ ~Again(p)) => running = Expected(snap)
      /\ pc[p] = "commit" \/ (pc[p] = "settle" /\ ~job[p].bad) => running = Serve(disk)
  BY <1>1, <1>2, <1>3 DEF Calm, Steady, SteadyAt
<1>5. CASE Abort(p)
  <2>1. disk = snap /\ pc[p] = "write"
    BY <1>5 DEF Abort, Unwritten
  <2> QED
    BY <1>4, <2>1
<1>6. CASE Commit(p)
  <2>1. pc[p] = "commit" /\ todo = <<>>
    BY <1>1, <1>2, <1>6 DEF Commit, PlacedAt
  <2>2. \A f \in File : disk[f] = Target(p)[f]
    BY <1>2, <2>1 DEF Calm, Onward, OnwardAt, Touched
  <2>3. disk = Target(p)
    BY <2>2 DEF FilesTyped, Image, Target, Over
  <2> QED
    BY <1>4, <2>1, <2>3 DEF Expected
<1>7. CASE Settle(p)
  <2>1. /\ Undone(p) /\ pc[p] \in {"undo", "settle"} /\ todo = <<>>
        /\ pc[p] = "undo" => ~Again(p)
    BY <1>1, <1>2, <1>7 DEF Settle, Undone, PlacedAt
  <2>2. ~job[p].bad
    <3> SUFFICES ASSUME job[p].bad PROVE FALSE
      OBVIOUS
    <3>1. job[p].tx \in TxId
      BY <1>1, <1>2 DEF WorkingAt
    <3>2. journal'[job[p].tx].status = "ROLLBACK_FAILED"
      BY <1>7, <3>1 DEF Settle, RolledBack, FilesTyped
    <3> QED
      BY <3>1, <3>2 DEF Amiss
  <2>3. Returning(p)
    BY <1>2, <2>1, <2>2 DEF Tracked, TrackedAt, Excused, Amiss
  <2>4. \A f \in File : disk[f] = Goal(p)[f]
    BY <2>1, <2>3 DEF Returning, Touched
  <2>5. running = Expected(snap) \/ running = Serve(disk)
    BY <1>4, <2>1, <2>2
  <2>6. CASE job[p].cmd \in Installs
    <3>1. snap["user"] = Absent /\ snap["state"] = Absent
      BY <1>4, <2>6 DEF Installed, File
    <3>2. \A f \in File : disk[f] = Absent
      BY <2>4, <2>6, <3>1 DEF Goal, Bare, Empty
    <3>3. disk = Empty
      BY <3>2 DEF FilesTyped, Image, Empty
    <3>4. Expected(disk) = Stopped /\ Expected(snap) = Stopped /\ Serve(disk) = Stopped
      BY <3>1, <3>3 DEF Expected, Stopped, Empty, File, StateRoot
    <3>5. "state" \in File /\ "cert" \in File /\ "key" \in File
      BY DEF File, StateRoot
    <3> QED
      BY <2>5, <3>2, <3>4, <3>5 DEF Installed
  <2>7. CASE job[p].cmd \notin Installs
    <3>1. disk = snap
      BY <2>4, <2>7 DEF Goal, FilesTyped, HeldTyped, Image
    <3> QED
      BY <1>4, <2>5, <2>7, <3>1 DEF Expected
  <2> QED
    BY <2>6, <2>7
<1> QED
  BY <1>5, <1>6, <1>7

LEMMA QuietEnds ==
  ASSUME OneShell, Shelled, Calm, ~Amiss, ~Amiss', ~Due', NEW p \in Cli,
         \/ Abort(p) \/ Commit(p) \/ Settle(p) \/ SettleUnrecorded(p)
         \/ RecoveryFails(p) \/ Restored(p)
  PROVE  Installed(disk, names) /\ running = Expected(disk)
<1> USE DEF Shelled, Safe, Typed
<1>1. CASE Abort(p) \/ Commit(p) \/ Settle(p)
  BY <1>1, CommandEnds
<1>2. Moves(p) /\ \A q \in Cli \ {p} : pc'[q] = pc[q] /\ job'[q] = job[q]
  BY OthersStay DEF Moves, Proceed
<1>3. ASSUME NEW q \in Cli \ {p}, pc[q] = "mark", p \notin Confined PROVE FALSE
  BY <1>3 DEF AllPlaced, WaitingAt, OneShell
<1>4. CASE SettleUnrecorded(p)
  <2>1. job[p].cmd = "core"
    BY <1>4 DEF SettleUnrecorded, Amiss
  <2>2. pc[p] \in Locked /\ pc'[p] = "idle"
    BY <1>4, HolderLeaves
  <2>3. Incomplete = {job[p].tx} /\ p \notin Confined
    BY <2>1, <2>2 DEF AllPlaced, PlacedAt, OneShell, Used
  <2>4. Incomplete' = Incomplete
    BY <1>4 DEF SettleUnrecorded, FilesTyped, Record, Incomplete
  <2>5. \A q \in Cli : pc'[q] # "mark"
    BY <1>2, <1>3, <2>2, <2>3
  <2> QED
    BY <2>3, <2>4, <2>5 DEF Due, Settled
<1>5. CASE RecoveryFails(p)
  <2>1. lock = p /\ pc[p] \in Locked /\ pc'[p] = "idle" /\ UNCHANGED journal
    BY <1>5, HolderLeaves DEF RecoveryFails
  <2>2. Incomplete # {} /\ \A q \in Cli : pc[q] # "mark"
    <3>1. CASE job[p].bad
      BY <1>5, <2>1, <3>1, LeavesWord DEF RecoveryFails, Amiss
    <3>2. CASE ~job[p].bad
      <4>1. Undone(p) /\ job[p].cmd = "recover" /\ WaitingAt(p) /\ BarredAt(p)
        BY <1>5, <3>2 DEF RecoveryFails, AllPlaced
      <4>2. p \notin Confined
        BY <2>1, <3>2, <4>1 DEF BarredAt, Undone, Blocked
      <4> QED
        BY <1>3, <2>1, <4>1, <4>2 DEF WaitingAt, Locked
    <3> QED
      BY <3>1, <3>2
  <2> QED
    BY <1>2, <2>1, <2>2, DueNow
<1>6. CASE Restored(p)
  <2> DEFINE t == job[p].target
  <2>1. /\ p \notin Confined /\ t \in Incomplete /\ pc'[p] = "mark"
        /\ UNCHANGED journal /\ job' = job
        /\ (~job[p].local /\ disk = bak[t] /\ running = Serve(disk)) \/ job[p].local
    BY <1>6, RestoredFinds DEF files
  <2>2. CASE job[p].local
    <3>1. \A q \in Cli : ~Settled(q)'
      BY <1>2, <1>3, <2>1, <2>2 DEF Settled
    <3> QED
      BY <2>1, <3>1 DEF Due, Incomplete
  <2>3. CASE ~job[p].local
    BY <2>1, <2>3 DEF Calm, Mendable, Expected
  <2> QED
    BY <2>2, <2>3
<1> QED
  BY <1>1, <1>4, <1>5, <1>6

LEMMA QuietNext ==
  ASSUME OneShell, Shelled, Cleared, Calm, [Next]_vars
  PROVE  Quiet'
<1> USE DEF Shelled, Safe, Typed
<1> SUFFICES ASSUME ~Amiss', ~Due', lock' = NoCli, \A q \in Cli : pc'[q] # "user"
             PROVE  Installed(disk', names') /\ running' = Expected(disk')
  BY DEF Quiet, Expected, Serve
<1>1. \A p \in Cli : ~RemoveRoot(p)
  BY Goes DEF RemoveRoot, Label
<1>2. ~Amiss
  BY <1>1, AmissStays
<1>3. ASSUME NEW p \in Cli,
             \/ Abort(p) \/ Commit(p) \/ Settle(p) \/ SettleUnrecorded(p)
             \/ RecoveryFails(p) \/ Restored(p)
      PROVE  Installed(disk', names') /\ running' = Expected(disk')
  <2>1. UNCHANGED <<disk, names, running>>
    BY <1>3, HolderLeaves, RestoredFinds DEF files
  <2> QED
    BY <1>2, <1>3, <2>1, QuietEnds
<1>4. ASSUME NEW p \in Cli, RemoveUser(p)
      PROVE  Installed(disk', names') /\ running' = Expected(disk')
  <2>1. pc[p] = "user" /\ job[p].cmd = "uninstall" /\ KeepingAt(p) /\ ClearedAt(p)
        /\ disk' = [disk EXCEPT !["user"] = Absent] /\ UNCHANGED running
    BY <1>2, <1>4 DEF RemoveUser, Working, WorkingAt, Calm, Steady, Cleared
  <2>2. running = Stopped /\ \A f \in InstallFiles \ {"cert", "key"} : disk[f] = Absent
    BY <2>1 DEF ClearedAt
  <2>3. disk["cert"] = disk["key"]
    BY <2>1 DEF KeepingAt
  <2>4. disk'["cert"] = disk'["key"] /\ \A f \in File \ {"cert", "key"} : disk'[f] = Absent
    BY <2>1, <2>2, <2>3 DEF InstallFiles, FilesTyped, Image, File, StateRoot
  <2>5. "state" \in File \ {"cert", "key"}
    BY DEF File, StateRoot
  <2> QED
    BY <2>1, <2>2, <2>4, <2>5 DEF Installed, Expected
<1>5. ASSUME lock = NoCli, ~Due, \A q \in Cli : pc[q] # "user", UNCHANGED <<disk, names>>,
             \/ UNCHANGED running \/ \E p \in Cli : DoctorFix(p)
             \/ running' = IF disk["units"] = Absent THEN Stopped ELSE Serve(disk)
      PROVE  Installed(disk', names') /\ running' = Expected(disk')
  <2>1. Installed(disk, names) /\ running = Expected(disk)
    BY <1>2, <1>5 DEF Calm, Quiet
  <2>2. disk["state"] = Absent => disk["units"] = Absent
    BY <2>1 DEF Installed, File
  <2>3. disk["state"] # Absent => disk["units"] # Absent
    BY <2>1 DEF Installed
  <2> QED
    BY <1>5, <2>1, <2>2, <2>3 DEF Expected, DoctorFix, Trusted
<1>6. ASSUME NEW p \in Cli,
             \/ StartRecovery(p) \/ \E c \in Command : StartCommand(p, c)
             \/ NothingToRecover(p) \/ DoctorFix(p)
             \/ Busy(p) \/ Refuse(p) \/ RecoveryRefused(p) \/ Mark(p)
      PROVE  Installed(disk', names') /\ running' = Expected(disk')
  <2>1. /\ UNCHANGED <<disk, names, lock>> /\ (UNCHANGED running \/ DoctorFix(p))
        /\ pc[p] \in {"idle", "wait", "mark"}
    BY <1>6 DEF StartRecovery, StartCommand, NothingToRecover, DoctorFix, Busy, Refuse,
                RecoveryRefused, Mark, files, held, vars
  <2>2. Moves(p) /\ \A q \in Cli \ {p} : pc'[q] = pc[q]
    BY <1>6, OthersStay DEF Moves, Proceed
  <2>3. ~Restored(p) /\ ~Abort(p) /\ ~Commit(p) /\ ~Settle(p)
    BY <2>1 DEF Restored, Abort, Commit, Settle, Undone
  <2>4. ~Due
    BY <2>2, <2>3, DueStays
  <2>5. \A q \in Cli : pc[q] # "user"
    BY <2>1, <2>2
  <2> QED
    BY <1>5, <2>1, <2>4, <2>5
<1>7. ASSUME NEW p \in Cli, Kill(p)
      PROVE  Installed(disk', names') /\ running' = Expected(disk')
  <2>1. /\ Moves(p) /\ pc'[p] = "idle" /\ UNCHANGED <<disk, running, names, journal>> /\ Release(p)
        /\ untold' = untold \cup Leaves(p) /\ \A q \in Cli \ {p} : pc'[q] = pc[q]
    BY <1>7, Exits DEF Kill, Moves
  <2>2. lock # p /\ pc[p] # "user"
    <3> SUFFICES ASSUME lock = p \/ pc[p] = "user" PROVE FALSE
      OBVIOUS
    <3>1. Leaves(p) = {}
      BY <2>1 DEF Amiss
    <3>2. Incomplete # {} /\ \A q \in Cli : pc[q] # "mark"
      BY <3>1, LeavesWord
    <3> QED
      BY <2>1, <3>2, DueNow
  <2>3. lock = NoCli /\ \A q \in Cli : pc[q] # "user"
    BY <2>1, <2>2, Releases
  <2>4. pc[p] \notin Locked
    BY <2>2 DEF Holding
  <2>5. ~Restored(p) /\ ~Abort(p) /\ ~Commit(p) /\ ~Settle(p)
    BY <2>4 DEF Restored, Abort, Commit, Settle, Undone, Locked
  <2>6. ~Due
    BY <2>1, <2>5, DueStays
  <2> QED
    BY <1>5, <2>1, <2>3, <2>6
<1>8. ASSUME Reboot
      PROVE  Installed(disk', names') /\ running' = Expected(disk')
  <2>1. /\ UNCHANGED <<disk, names, journal>> /\ \A q \in Cli : pc'[q] = "idle"
        /\ running' = IF disk["units"] = Absent THEN Stopped ELSE Serve(disk)
        /\ \A q \in Cli : Leaves(q) \subseteq untold'
    BY <1>8 DEF Reboot
  <2>2. Incomplete = {}
    BY <2>1, DueNow
  <2>3. ASSUME NEW p \in Cli, lock = p \/ pc[p] = "user" PROVE FALSE
    <3>1. Leaves(p) = {}
      BY <2>1 DEF Amiss
    <3> QED
      BY <2>2, <2>3, <3>1, LeavesWord
  <2>4. lock = NoCli /\ \A q \in Cli : pc[q] # "user"
    BY <2>3 DEF HeldTyped
  <2> QED
    BY <1>5, <2>1, <2>2, <2>4 DEF Due
<1>9. ASSUME NEW t \in TxId, LoseBackup(t)
      PROVE  Installed(disk', names') /\ running' = Expected(disk')
  <2>1. UNCHANGED <<disk, running, names, lock, pc, job>>
    BY <1>9 DEF LoseBackup, held
  <2>2. Incomplete' = Incomplete
    BY <1>9 DEF LoseBackup, Incomplete, FilesTyped, Record
  <2>3. ~Due
    BY <2>1, <2>2 DEF Due, Settled
  <2> QED
    BY <1>5, <2>1, <2>3
<1>10. ASSUME UNCHANGED vars
       PROVE  Installed(disk', names') /\ running' = Expected(disk')
  <2>1. UNCHANGED <<disk, running, names, lock, pc, job, journal>>
    BY <1>10 DEF vars
  <2>2. ~Due
    BY <2>1 DEF Due, Settled, Incomplete
  <2> QED
    BY <1>5, <2>1, <2>2
<1>11. ASSUME NEW p \in Cli, Begin(p) \/ BeginRecovery(p) \/ BeginUninstall(p) PROVE FALSE
  BY <1>11, HostAssumption DEF Begin, BeginRecovery, BeginUninstall
<1>12. ASSUME NEW p \in Cli,
              \/ Write(p) \/ WriteFails(p) \/ Restart(p) \/ RestartFails(p) \/ CommitFails(p)
              \/ StopServices(p) \/ UndoStep(p) \/ UndoFails(p) \/ UndoRestart(p)
       PROVE  FALSE
  <2>1. lock' = p
    BY <1>12, HolderGoes
  <2> QED
    BY <2>1, HostAssumption
<1>13. \A p \in Cli : ~UninstallFails(p)
  BY DEF UninstallFails, Amiss
<1> QED
  BY <1>1, <1>3, <1>4, <1>6, <1>7, <1>8, <1>9, <1>10, <1>11, <1>12, <1>13 DEF Next, Proceed

LEMMA FinalJoined ==
  ASSUME NEW image, NEW s \in Seq(OneStep), NEW u \in Seq(OneStep),
         \A i \in DOMAIN u : u[i].to = image[u[i].file],
         \A i \in DOMAIN s : s[i].to = image[s[i].file] \/ s[i].file \in Touched(u)
  PROVE  Final(s \o u, image)
<1>1. /\ Len(s \o u) = Len(s) + Len(u)
      /\ \A i \in 1..Len(s) + Len(u) :
           (s \o u)[i] = IF i <= Len(s) THEN s[i] ELSE u[i - Len(s)]
  BY ConcatProperties
<1>2. /\ Len(s) \in Nat /\ Len(u) \in Nat /\ DOMAIN s = 1..Len(s) /\ DOMAIN u = 1..Len(u)
      /\ DOMAIN (s \o u) = 1..Len(s) + Len(u)
  BY <1>1, ConcatProperties
<1>3. SUFFICES ASSUME NEW i \in DOMAIN (s \o u)
               PROVE  \/ (s \o u)[i].to = image[(s \o u)[i].file]
                      \/ \E j \in DOMAIN (s \o u) : /\ j > i /\ (s \o u)[j].file = (s \o u)[i].file
                                                    /\ (s \o u)[j].to = image[(s \o u)[j].file]
  BY DEF Final
<1>4. CASE i <= Len(s)
  <2>1. i \in DOMAIN s /\ (s \o u)[i] = s[i]
    BY <1>1, <1>2, <1>4
  <2>2. ASSUME s[i].file \in Touched(u)
        PROVE  \E j \in DOMAIN (s \o u) : /\ j > i /\ (s \o u)[j].file = s[i].file
                                          /\ (s \o u)[j].to = image[(s \o u)[j].file]
    <3>1. PICK k \in DOMAIN u : u[k].file = s[i].file
      BY <2>2 DEF Touched
    <3>2. /\ Len(s) + k \in DOMAIN (s \o u) /\ Len(s) + k > i
          /\ (s \o u)[Len(s) + k] = u[k]
      BY <1>1, <1>2, <1>4, <2>1
    <3> QED
      BY <3>1, <3>2
  <2> QED
    BY <2>1, <2>2
<1>5. CASE ~(i <= Len(s))
  BY <1>1, <1>2, <1>5
<1> QED
  BY <1>4, <1>5

LEMMA FinalTail ==
  ASSUME disk \in Image, todo \in Seq(OneStep), todo # <<>>, NEW image,
         Final(todo, image), \A f \in File : disk[f] = image[f] \/ f \in Touched(todo)
  PROVE  /\ Final(Tail(todo), image)
         /\ \A f \in File : After(disk, Head(todo))[f] = image[f] \/ f \in Touched(Tail(todo))
<1>1. /\ Len(todo) \in Nat /\ Len(todo) > 0 /\ DOMAIN todo = 1..Len(todo)
      /\ DOMAIN Tail(todo) = 1..(Len(todo) - 1)
      /\ \A i \in 1..(Len(todo) - 1) : Tail(todo)[i] = todo[i + 1]
  OBVIOUS
<1>2. Final(Tail(todo), image)
  <2> SUFFICES ASSUME NEW i \in DOMAIN Tail(todo)
               PROVE  \/ Tail(todo)[i].to = image[Tail(todo)[i].file]
                      \/ \E j \in DOMAIN Tail(todo) : /\ j > i /\ Tail(todo)[j].file = Tail(todo)[i].file
                                                      /\ Tail(todo)[j].to = image[Tail(todo)[j].file]
    BY DEF Final
  <2>1. i \in Nat /\ i + 1 \in DOMAIN todo /\ Tail(todo)[i] = todo[i + 1]
    BY <1>1
  <2>2. ASSUME NEW j \in DOMAIN todo, j > i + 1, todo[j].file = todo[i + 1].file,
               todo[j].to = image[todo[j].file]
        PROVE  \E k \in DOMAIN Tail(todo) : /\ k > i /\ Tail(todo)[k].file = Tail(todo)[i].file
                                            /\ Tail(todo)[k].to = image[Tail(todo)[k].file]
    <3>1. j - 1 \in DOMAIN Tail(todo) /\ j - 1 > i /\ Tail(todo)[j - 1] = todo[j]
      BY <1>1, <2>1, <2>2
    <3> QED
      BY <2>1, <2>2, <3>1
  <2> QED
    BY <2>1, <2>2 DEF Final
<1>3. ASSUME NEW f \in File
      PROVE  After(disk, Head(todo))[f] = image[f] \/ f \in Touched(Tail(todo))
  <2>1. After(disk, Head(todo))[f] = IF f = todo[1].file THEN todo[1].to ELSE disk[f]
    BY FirstWritten
  <2>2. CASE f = todo[1].file
    <3>1. ASSUME NEW j \in DOMAIN todo, j > 1, todo[j].file = todo[1].file
          PROVE  f \in Touched(Tail(todo))
      <4>1. j - 1 \in DOMAIN Tail(todo) /\ Tail(todo)[j - 1] = todo[j]
        BY <1>1, <3>1
      <4> QED
        BY <2>2, <3>1, <4>1 DEF Touched
    <3>2. 1 \in DOMAIN todo
      BY <1>1
    <3> QED
      BY <2>1, <2>2, <3>1, <3>2 DEF Final
  <2>3. CASE f # todo[1].file
    BY <2>1, <2>3, FirstWritten
  <2> QED
    BY <2>2, <2>3
<1> QED
  BY <1>2, <1>3

\* What a command's sequence touches, and comes to.
LEMMA ForwardLeads ==
  ASSUME disk \in Image, NEW p \in Cli, job[p] \in Job, job[p].cmd \in Changes, NEW t \in TxId
  PROVE  /\ Touched(Forward(p, t)) =
              Written(p, disk) \cup (IF job[p].cmd \in Installs THEN {"user"} ELSE {})
         /\ Final(Forward(p, t), Over(p, disk, t))
<1> DEFINE image == Over(p, disk, t)
           v == IF disk["user"] # Absent THEN disk["user"] ELSE t
           own == <<Step("user", v)>>
           Straight(s) == \A i \in DOMAIN s : s[i].to = image[s[i].file]
<1>1. t \in Version /\ Absent \in Version /\ v \in Version /\ "user" \in File
  BY DEF Version, Image, File
<1>2. ASSUME NEW fs \in Seq(File), Elements(fs) \subseteq Written(p, disk)
      PROVE  Straight(New(fs, t))
  <2>1. \A i \in DOMAIN New(fs, t) : New(fs, t)[i].to = t /\ New(fs, t)[i].file \in Written(p, disk)
    BY <1>1, <1>2, NewSteps DEF Touched
  <2>2. \A i \in DOMAIN New(fs, t) : New(fs, t)[i].file \in File
    BY <1>1, NewSteps, StepsTyped
  <2> QED
    BY <2>1, <2>2 DEF Over
<1>3. ASSUME NEW s \in Seq(OneStep), NEW u \in Seq(OneStep), Straight(s), Straight(u)
      PROVE  Straight(s \o u)
  BY <1>3, Joined
<1>4. ASSUME NEW s \in Seq(OneStep), Straight(s)
      PROVE  Final(s, image)
  BY <1>4 DEF Final
<1>5. /\ own \in Seq(OneStep) /\ Touched(own) = {"user"}
      /\ job[p].cmd \in Installs => Straight(own)
  <2>1. job[p].cmd \in Installs => image["user"] = v
    BY DEF Over, Written, Installs, InstallFiles, File
  <2> HIDE DEF v, image
  <2>2. /\ own \in Seq(OneStep) /\ Touched(own) = {"user"}
        /\ \A i \in DOMAIN own : own[i] = Step("user", v)
    BY <1>1, SingleStep
  <2> HIDE DEF own
  <2> QED
    BY <2>1, <2>2 DEF Step
<1> HIDE DEF image, own, v
<1>6. CASE job[p].cmd = "install"
  <2> DEFINE first == <<"vpskit", "singbox", "cores", "versions", "cert", "key">>
             rest  == <<"acme", "config", "exports", "secrets", "env", "state", "ownership", "units">>
  <2>1. /\ first \in Seq(File) /\ rest \in Seq(File) /\ <<"acme">> \in Seq(File)
        /\ Elements(first) \subseteq InstallFiles /\ Elements(rest) \subseteq InstallFiles
        /\ {"user"} \cup Elements(first) \cup Elements(<<"acme">>) \cup Elements(rest) = InstallFiles \cup {"user"}
        /\ Elements(<<"acme">>) = {"acme"} /\ "acme" \in Elements(rest)
    BY DEF File, StateRoot, Elements, InstallFiles
  <2>2. Forward(p, t) = own \o New(first, t) \o New(<<"acme">>, Absent) \o New(rest, t)
    BY <1>6 DEF Forward, Install, Gone, own, v
  <2>3. InstallFiles \subseteq Written(p, disk) /\ Written(p, disk) \subseteq InstallFiles \cup {"user"}
    BY <1>6 DEF Written
  <2> HIDE DEF first, rest
  <2>4. /\ New(first, t) \in Seq(OneStep) /\ Touched(New(first, t)) = Elements(first)
        /\ New(<<"acme">>, Absent) \in Seq(OneStep) /\ Touched(New(<<"acme">>, Absent)) = {"acme"}
        /\ New(rest, t) \in Seq(OneStep) /\ Touched(New(rest, t)) = Elements(rest)
    BY <1>1, <2>1, NewSteps
  <2> DEFINE a == own \o New(first, t)
             b == a \o New(<<"acme">>, Absent)
  <2>5. a \in Seq(OneStep) /\ Touched(a) = {"user"} \cup Elements(first)
    BY <1>5, <2>4, Joined
  <2>6. Straight(a)
    <3>1. Straight(New(first, t))
      BY <1>2, <2>1, <2>3
    <3>2. Straight(own)
      BY <1>5, <1>6 DEF Installs
    <3> HIDE DEF Straight
    <3> QED
      BY <1>3, <1>5, <2>4, <3>1, <3>2
  <2> HIDE DEF a
  <2>7. b \in Seq(OneStep) /\ Touched(b) = {"user"} \cup Elements(first) \cup {"acme"}
    BY <2>4, <2>5, Joined
  <2>8. \A i \in DOMAIN b : b[i].to = image[b[i].file] \/ b[i].file \in Touched(New(rest, t))
    <3>1. \A i \in DOMAIN New(<<"acme">>, Absent) : New(<<"acme">>, Absent)[i].file = "acme"
      BY <2>4 DEF Touched
    <3> QED
      BY <2>1, <2>4, <2>5, <2>6, <3>1, Joined
  <2>9. Forward(p, t) = b \o New(rest, t)
    BY <2>2 DEF a
  <2> HIDE DEF b
  <2>10. Straight(New(rest, t))
    BY <1>2, <2>1, <2>3
  <2>11. Final(Forward(p, t), image)
    <3> DEFINE c == New(rest, t)
    <3>1. /\ c \in Seq(OneStep) /\ \A i \in DOMAIN c : c[i].to = image[c[i].file]
          /\ \A i \in DOMAIN b : b[i].to = image[b[i].file] \/ b[i].file \in Touched(c)
          /\ Forward(p, t) = b \o c
      BY <2>4, <2>8, <2>9, <2>10
    <3>2. b \in Seq(OneStep) /\ c \in Seq(OneStep)
      BY <2>7, <3>1
    <3>3. \A i \in DOMAIN c : c[i].to = image[c[i].file]
      BY <3>1
    <3>4. \A i \in DOMAIN b : b[i].to = image[b[i].file] \/ b[i].file \in Touched(c)
      BY <3>1
    <3> HIDE DEF c
    <3>5. Final(b \o c, image)
      BY <3>2, <3>3, <3>4, FinalJoined
    <3> QED
      BY <3>1, <3>5
  <2>12. Touched(Forward(p, t)) = InstallFiles \cup {"user"}
    BY <2>1, <2>4, <2>7, <2>9, Joined
  <2> QED
    BY <1>6, <2>3, <2>11, <2>12 DEF Installs, image
<1>7. CASE job[p].cmd = "installReality"
  <2> DEFINE plain == <<"vpskit", "singbox", "cores", "versions", "config", "exports", "secrets",
                        "state", "ownership", "units">>
  <2>1. plain \in Seq(File) /\ Elements(plain) = InstallFiles \ {"cert", "key", "acme", "env"}
    BY DEF File, StateRoot, Elements, InstallFiles
  <2>2. Forward(p, t) = own \o New(plain, t)
    BY <1>7 DEF Forward, InstallReality, own, v
  <2>3. Elements(plain) \subseteq Written(p, disk) /\ Written(p, disk) \subseteq Elements(plain) \cup {"user"}
    BY <1>7, <2>1 DEF Written
  <2> HIDE DEF plain
  <2>4. /\ New(plain, t) \in Seq(OneStep) /\ Touched(New(plain, t)) = Elements(plain)
    BY <1>1, <2>1, NewSteps
  <2>5. Straight(Forward(p, t)) /\ Forward(p, t) \in Seq(OneStep)
    BY <1>2, <1>3, <1>5, <1>7, <2>1, <2>2, <2>3, <2>4, Joined DEF Installs
  <2>6. Touched(Forward(p, t)) = {"user"} \cup Elements(plain)
    BY <1>5, <2>2, <2>4, Joined
  <2> QED
    BY <1>4, <1>7, <2>3, <2>5, <2>6 DEF Installs, image
<1>8. CASE job[p].cmd = "self"
  <2> DEFINE fs == <<"vpskit", "singbox", "cores", "versions", "units", "config", "exports",
                     "secrets", "state", "ownership">>
  <2>1. fs \in Seq(File) /\ Elements(fs) = SelfFiles /\ Forward(p, t) = New(fs, t)
    BY <1>8 DEF File, StateRoot, Elements, SelfFiles, Forward, Self
  <2>2. Written(p, disk) = SelfFiles
    BY <1>8 DEF Written
  <2> HIDE DEF fs
  <2> QED
    BY <1>1, <1>2, <1>4, <1>8, <2>1, <2>2, NewSteps DEF Installs, image
<1>9. CASE job[p].cmd = "core"
  <2> DEFINE fs == Replaced(job[p].replaces) \o <<"versions", "state", "ownership">>
  <2>1. fs \in Seq(File) /\ Elements(fs) = CoreFiles(job[p].replaces)
    <3> DEFINE rest == <<"versions", "state", "ownership">>
    <3>1. rest \in Seq(File) /\ Elements(rest) = {"versions", "state", "ownership"}
      BY DEF File, StateRoot, Elements
    <3> HIDE DEF rest
    <3>2. job[p].replaces \in BOOLEAN
      BY DEF Job
    <3>3. Replaced(job[p].replaces) \o rest \in Seq(File)
          /\ Elements(Replaced(job[p].replaces) \o rest) = CoreFiles(job[p].replaces)
      BY <3>1, <3>2, ReplacedFiles, JoinedFiles DEF CoreFiles
    <3> QED
      BY <3>3 DEF rest
  <2>2. Forward(p, t) = New(fs, t)
    BY <1>9 DEF Forward, Core, Replaced
  <2>3. Written(p, disk) = CoreFiles(job[p].replaces)
    BY <1>9 DEF Written
  <2> HIDE DEF fs
  <2> QED
    BY <1>1, <1>2, <1>4, <1>9, <2>1, <2>2, <2>3, NewSteps DEF Installs, image
<1>10. CASE job[p].cmd = "cert"
  <2> DEFINE a == New(<<"cert", "key">>, t)
             b == a \o New(<<"acme">>, Absent)
             c == New(<<"acme">>, t)
  <2>1. Forward(p, t) = b \o c
    BY <1>10 DEF Forward, Cert, Gone
  <2>2. Written(p, disk) = CertFiles
    BY <1>10 DEF Written
  <2>3. /\ a \in Seq(OneStep) /\ Touched(a) = {"cert", "key"} /\ Straight(a)
        /\ c \in Seq(OneStep) /\ Touched(c) = {"acme"} /\ Straight(c)
        /\ New(<<"acme">>, Absent) \in Seq(OneStep) /\ Touched(New(<<"acme">>, Absent)) = {"acme"}
    BY <1>1, <1>2, <2>2, NewSteps, CertificateFiles DEF CertFiles
  <2> HIDE DEF a, c
  <2>4. b \in Seq(OneStep) /\ Touched(b) = CertFiles
    BY <2>3, Joined DEF CertFiles
  <2>5. \A i \in DOMAIN b : b[i].to = image[b[i].file] \/ b[i].file \in Touched(c)
    <3>1. \A i \in DOMAIN New(<<"acme">>, Absent) : New(<<"acme">>, Absent)[i].file = "acme"
      BY <2>3 DEF Touched
    <3> QED
      BY <2>3, <3>1, Joined
  <2> HIDE DEF b
  <2>6. Final(Forward(p, t), image)
    BY <2>1, <2>3, <2>4, <2>5, FinalJoined
  <2>7. Touched(Forward(p, t)) = CertFiles
    BY <2>1, <2>3, <2>4, Joined DEF CertFiles
  <2> QED
    BY <1>10, <2>2, <2>6, <2>7 DEF Installs, image
<1> QED
  BY <1>6, <1>7, <1>8, <1>9, <1>10 DEF Changes, Installs

LEMMA TargetKept ==
  ASSUME NEW p \in Cli, snap' = snap, job'[p].cmd = job[p].cmd, job'[p].tx = job[p].tx,
         job'[p].replaces = job[p].replaces
  PROVE  Target(p)' = Target(p)
  BY DEF Target, Over, Written

LEMMA TargetBegun ==
  ASSUME Typed, NEW p \in Cli, Begin(p)
  PROVE  Target(p)' = Over(p, disk, nextTx)
<1>1. snap' = disk /\ job'[p].cmd = job[p].cmd /\ job'[p].tx = nextTx /\ job'[p].replaces = job[p].replaces
  BY Begun DEF Begin
<1> QED
  BY <1>1 DEF Target, Over, Written

\* The files a command leads to are those of one installation.
LEMMA TargetInstalled ==
  ASSUME OneShell, Shelled, Calm, ~Amiss, NEW p \in Cli, Begin(p), job[p].cmd = "cert" => ~Due
  PROVE  LET image == Over(p, disk, nextTx)
         IN  Installed(image, names') /\ image["state"] # Absent
<1> USE DEF Shelled, Safe, Typed
<1> DEFINE t == nextTx
           image == Over(p, disk, t)
           base == IF job[p].cmd = "core" THEN disk["state"] ELSE job[p].base
<1>1. /\ Installed(disk, names) /\ (disk["state"] = Absent <=> job[p].cmd \in Installs)
      /\ job[p].cmd \in Changes /\ t \in TxId /\ t # Absent
  <2>1. t \in TxId /\ job[p].cmd \in Changes
    BY Begun DEF Begin
  <2>2. t # Absent
    BY <2>1 DEF TxId, Absent
  <2> QED
    BY <2>1, <2>2, BeginsQuiet
<1>2. \A f \in File : image[f] = IF f \in Written(p, disk) THEN t ELSE disk[f]
  BY DEF Over
<1>3. job[p].cmd # "cert" => base = disk["state"]
  <2>1. BasedAt(p) /\ pc[p] = "wait"
    BY DEF Calm, Steady, Begin
  <2> QED
    BY <1>1, <2>1 DEF BasedAt
<1>4. ASSUME job[p].cmd # "cert"
      PROVE  \A f \in File :
               names'[t][f] = IF f \in Written(p, disk) \/ (f = "user" /\ job[p].cmd \in Installs) THEN t
                              ELSE IF base = Absent THEN Absent ELSE names[base][f]
  <2>1. names' = [names EXCEPT ![t] = Rendered(p, base, t)]
    BY <1>4 DEF Begin
  <2>2. names'[t] = Rendered(p, base, t)
    BY <1>1, <2>1 DEF FilesTyped
  <2>3. Touched(Forward(p, t)) =
          Written(p, disk) \cup (IF job[p].cmd \in Installs THEN {"user"} ELSE {})
    BY <1>1, ForwardLeads DEF FilesTyped, JobsTyped
  <2>4. Touched(Forward(p, t)) = {Forward(p, t)[i].file : i \in DOMAIN Forward(p, t)}
    BY DEF Touched
  <2> QED
    BY <2>2, <2>3, <2>4 DEF Rendered
<1> HIDE DEF image, base
<1>5. /\ {"cert", "key", "acme", "state", "units", "user", "env"} \subseteq File
      /\ CertFiles = {"cert", "key", "acme"}
  BY DEF File, StateRoot, CertFiles
<1>6. CASE job[p].cmd \in Installs
  <2>1. /\ disk["state"] = Absent /\ base = Absent
        /\ \A f \in File \ {"cert", "key"} : disk[f] = Absent
        /\ disk["cert"] = disk["key"]
    BY <1>1, <1>3, <1>6 DEF Installed, Installs
  <2>2. CASE job[p].cmd = "install"
    <3>1. Written(p, disk) = File
      BY <1>5, <2>1, <2>2 DEF Written, InstallFiles
    <3>2. \A f \in File : image[f] = t /\ names'[t][f] = t
      BY <1>2, <1>4, <2>2, <3>1
    <3> QED
      BY <1>1, <1>5, <3>2 DEF Installed, image
  <2>3. CASE job[p].cmd = "installReality"
    <3>1. Written(p, disk) = File \ {"cert", "key", "acme", "env"}
      BY <1>5, <2>1, <2>3 DEF Written, InstallFiles
    <3>2. \A f \in File \ {"cert", "key"} : /\ image[f] = IF f \in {"acme", "env"} THEN Absent ELSE t
                                            /\ names'[t][f] = image[f]
      BY <1>2, <1>4, <1>6, <2>1, <2>3, <3>1
    <3>3. image["cert"] = image["key"]
      BY <1>2, <1>5, <2>1, <3>1
    <3>4. names'[t]["cert"] = Absent
      BY <1>4, <1>5, <2>1, <2>3, <3>1
    <3>5. image["state"] = t /\ image["units"] = t
      BY <1>5, <3>2
    <3>6. \A f \in File \ CertFiles : names'[t][f] = image[f]
      BY <1>5, <3>2
    <3> QED
      BY <1>1, <3>3, <3>4, <3>5, <3>6 DEF Installed, image
  <2> QED
    BY <1>6, <2>2, <2>3 DEF Installs
<1>7. CASE job[p].cmd \in {"self", "core"}
  <2> DEFINE b == disk["state"]
  <2>1. /\ b # Absent /\ base = b /\ disk["cert"] = disk["key"] /\ disk["units"] # Absent
        /\ \A f \in File \ CertFiles : disk[f] = names[b][f]
        /\ names[b]["cert"] # Absent => disk["acme"] = disk["cert"]
    BY <1>1, <1>3, <1>7 DEF Installed, Installs
  <2>2. "state" \in Written(p, disk) /\ Written(p, disk) \cap CertFiles = {}
    BY <1>7 DEF Written, SelfFiles, CoreFiles, CertFiles
  <2>3. image["state"] = t
    BY <1>2, <1>5, <2>2
  <2>4. \A f \in File \ CertFiles : image[f] = names'[t][f]
    BY <1>2, <1>4, <1>7, <2>1 DEF Installs
  <2>5. \A f \in CertFiles : image[f] = disk[f]
    BY <1>2, <1>5, <2>2
  <2>6. names'[t]["cert"] = names[b]["cert"]
    BY <1>4, <1>5, <1>7, <2>1, <2>2
  <2>7. image["units"] # Absent
    BY <1>1, <1>2, <1>5, <2>1
  <2> QED
    BY <1>1, <1>5, <2>1, <2>3, <2>4, <2>5, <2>6, <2>7 DEF Installed, image
<1>8. CASE job[p].cmd = "cert"
  <2> DEFINE b == disk["state"]
  <2>1. Written(p, disk) = CertFiles /\ names' = names
    BY <1>8 DEF Written, Begin
  <2>2. b # Absent
    BY <1>1, <1>8 DEF Installs
  <2>3. \A f \in File : image[f] = IF f \in CertFiles THEN t ELSE disk[f]
    BY <1>2, <2>1
  <2>4. image["cert"] = t /\ image["key"] = t /\ image["acme"] = t /\ image["state"] = b
        /\ image["units"] = disk["units"]
    BY <1>5, <2>3
  <2>5. \A f \in File \ CertFiles : image[f] = disk[f]
    BY <2>3
  <2> QED
    BY <1>1, <2>1, <2>2, <2>4, <2>5 DEF Installed, image
<1> QED
  BY <1>1, <1>6, <1>7, <1>8 DEF Changes, Installs

\* How an invocation comes to write, or to the end of its writes.
LEMMA ToWork ==
  ASSUME Typed, NEW p \in Cli, Moves(p), pc'[p] \in {"write", "commit"}
  PROVE  Begin(p) \/ BeginRecovery(p) \/ BeginUninstall(p) \/ Write(p) \/ Restart(p)
<1> USE DEF Typed
<1>1. ~Exit(p) /\ \A l \in Label \ {"write", "commit"} : ~Goto(p, l)
  BY Goes, Exits
<1>2. ~(\/ StartRecovery(p) \/ \E c \in Command : StartCommand(p, c)
        \/ NothingToRecover(p) \/ DoctorFix(p) \/ Kill(p))
  BY <1>1 DEF StartRecovery, StartCommand, NothingToRecover, DoctorFix, Kill, Label, vars
<1>3. ~(\/ Busy(p) \/ Refuse(p) \/ RecoveryRefused(p) \/ Abort(p) \/ Commit(p)
        \/ Settle(p) \/ SettleUnrecorded(p) \/ RecoveryFails(p) \/ Mark(p) \/ RemoveUser(p)
        \/ UninstallFails(p))
  BY <1>1 DEF Busy, Refuse, RecoveryRefused, Abort, Commit, Settle, SettleUnrecorded,
              RecoveryFails, Mark, RemoveUser, UninstallFails
<1>4. ~(UndoStep(p) \/ UndoFails(p))
  BY DEF UndoStep, UndoFails
<1>5. ~(\/ WriteFails(p) \/ RestartFails(p) \/ CommitFails(p)
        \/ StopServices(p) \/ UndoRestart(p) \/ Restored(p) \/ RemoveRoot(p))
  BY <1>1 DEF WriteFails, RestartFails, CommitFails, StopServices, UndoRestart,
              Restored, RemoveRoot, Abandon, Label
<1> QED
  BY <1>2, <1>3, <1>4, <1>5 DEF Moves, Proceed

LEMMA OnwardNext ==
  ASSUME Shelled, Calm, [Next]_vars
  PROVE  Onward'
<1> USE DEF Shelled, Safe, Typed
<1> SUFFICES ASSUME NEW q \in Cli, pc'[q] \in {"write", "commit"}, job'[q].cmd \in Changes
             PROVE  /\ Final(todo', Target(q)')
                    /\ \A f \in File : disk'[f] = Target(q)'[f] \/ f \in Touched(todo')
  BY DEF Onward, OnwardAt, Final, Touched
<1>1. OnwardAt(q)
  BY DEF Calm, Onward
<1>2. ASSUME UNCHANGED <<disk, todo, snap>>, pc[q] \in {"write", "commit"},
             job'[q].cmd = job[q].cmd, job'[q].tx = job[q].tx, job'[q].replaces = job[q].replaces
      PROVE  /\ Final(todo', Target(q)')
             /\ \A f \in File : disk'[f] = Target(q)'[f] \/ f \in Touched(todo')
  <2>1. Target(q)' = Target(q)
    BY <1>2, TargetKept
  <2> QED
    BY <1>1, <1>2, <2>1 DEF OnwardAt
<1>3. CASE Moves(q)
  <2>1. CASE Begin(q)
    <3>1. /\ todo' = Forward(q, nextTx) /\ UNCHANGED disk /\ nextTx \in TxId
          /\ Target(q)' = Over(q, disk, nextTx) /\ job[q].cmd \in Changes
      BY <2>1, TargetBegun, Begun DEF Begin
    <3>2. /\ Final(Forward(q, nextTx), Over(q, disk, nextTx))
          /\ Written(q, disk) \subseteq Touched(Forward(q, nextTx))
      BY <3>1, ForwardLeads DEF FilesTyped, JobsTyped
    <3>3. \A f \in File : f \notin Written(q, disk) => disk[f] = Over(q, disk, nextTx)[f]
      BY DEF Over
    <3> QED
      BY <3>1, <3>2, <3>3
  <2>2. CASE BeginRecovery(q)
    BY <2>2, RecoveryBegun DEF Changes, Installs
  <2>3. CASE BeginUninstall(q)
    <3>1. PICK k \in BOOLEAN : job' = [job EXCEPT ![q].keepCert = k]
      BY <2>3 DEF BeginUninstall
    <3>2. job'[q].cmd = "uninstall"
      BY <2>3, <3>1 DEF BeginUninstall, JobsTyped, Job
    <3> QED
      BY <3>2 DEF Changes, Installs
  <2>4. CASE Write(q)
    <3>1. /\ Kept(q) /\ snap' = snap /\ pc[q] = "write" /\ todo # <<>>
          /\ disk' = After(disk, Head(todo)) /\ todo' = Tail(todo)
      BY <2>4, HolderGoes DEF Write
    <3>2. Target(q)' = Target(q) /\ job[q].cmd \in Changes
      BY <3>1, TargetKept DEF Kept
    <3>3. Final(todo, Target(q)) /\ \A f \in File : disk[f] = Target(q)[f] \/ f \in Touched(todo)
      BY <1>1, <3>1, <3>2 DEF OnwardAt
    <3> QED
      BY <3>1, <3>2, <3>3, FinalTail DEF FilesTyped, HeldTyped
  <2>5. CASE Restart(q)
    <3>1. Kept(q) /\ UNCHANGED <<disk, todo, snap>> /\ pc[q] = "write"
      BY <2>5, HolderGoes DEF Restart, held
    <3> QED
      BY <1>2, <3>1 DEF Kept
  <2> QED
    BY <1>3, <2>1, <2>2, <2>3, <2>4, <2>5, ToWork
<1>4. ASSUME NEW p \in Cli \ {q}, Moves(p)
      PROVE  /\ Final(todo', Target(q)')
             /\ \A f \in File : disk'[f] = Target(q)'[f] \/ f \in Touched(todo')
  <2>1. pc'[q] = pc[q] /\ job'[q] = job[q]
    BY <1>4, OthersStay DEF Moves
  <2>2. lock = q
    BY <2>1 DEF Holding, Locked
  <2>3. UNCHANGED <<disk, todo, snap>>
    BY <1>4, <2>2, HostAssumption, Bystander
  <2> QED
    BY <1>2, <2>1, <2>3
<1>5. ASSUME (\E t \in TxId : LoseBackup(t)) \/ UNCHANGED vars
      PROVE  /\ Final(todo', Target(q)')
             /\ \A f \in File : disk'[f] = Target(q)'[f] \/ f \in Touched(todo')
  <2>1. UNCHANGED <<disk, todo, snap, pc, job>>
    BY <1>5 DEF LoseBackup, held, vars
  <2> QED
    BY <1>2, <2>1
<1>6. ~Reboot
  BY DEF Reboot
<1> QED
  BY <1>3, <1>4, <1>5, <1>6 DEF Next, Moves

\* A removal of what vpskit keeps is the shell's, and holds the lock.
LEMMA RemoverMoves ==
  ASSUME OneShell, Shelled, NEW p \in Cli, RemoveRoot(p)
  PROVE  /\ p \notin Confined /\ lock = p /\ pc'[p] = "user" /\ job' = job /\ Moves(p)
         /\ \A q \in Cli \ {p} : pc'[q] = pc[q] /\ q \in Confined /\ pc[q] \notin Locked
<1> USE DEF Shelled, Safe, Typed
<1>1. p \notin Confined
  BY DEF RemoveRoot, OneShell, Used
<1>2. lock = p /\ pc'[p] = "user" /\ job' = job /\ Moves(p)
  BY Goes DEF RemoveRoot, Holding, Locked, Label, Moves, Proceed
<1>3. ASSUME NEW q \in Cli \ {p}
      PROVE  pc'[q] = pc[q] /\ q \in Confined /\ pc[q] \notin Locked
  <2>1. pc'[q] = pc[q]
    BY <1>2, <1>3, OthersStay DEF Moves
  <2>2. q \in Confined
    BY <1>1, <1>3 DEF OneShell
  <2>3. pc[q] \notin Locked
    BY <1>2, <1>3 DEF Holding
  <2> QED
    BY <2>1, <2>2, <2>3
<1> QED
  BY <1>1, <1>2, <1>3

LEMMA BasedNext ==
  ASSUME OneShell, Shelled, Shelled', Calm, [Next]_vars, ~Amiss', NEW q \in Cli
  PROVE  BasedAt(q)'
<1> USE DEF Shelled, Safe, Typed
<1> SUFFICES ASSUME pc'[q] = "wait", job'[q].cmd \in Changes \ {"cert"}
             PROVE  /\ job'[q].base = disk'["state"]
                    /\ job'[q].cmd \in Installs => disk'["state"] = Absent
  BY DEF BasedAt
<1>1. q \notin Confined
  BY DEF OneShell, Used, Changes, Installs
<1>2. \A p \in Cli : ~RemoveRoot(p)
  BY <1>1, RemoverMoves
<1>3. ~Amiss
  BY <1>2, AmissStays
<1>4. BasedAt(q) /\ WaitingAt(q)
  BY <1>3 DEF Calm, Steady, AllPlaced
<1>5. CASE Moves(q)
  <2>1. ~Exit(q) /\ \A l \in Label \ {"wait"} : ~Goto(q, l)
    BY Goes, Exits
  <2>2. ~(\/ NothingToRecover(q) \/ DoctorFix(q) \/ Kill(q))
    BY <2>1 DEF NothingToRecover, DoctorFix, Kill, vars
  <2>3. ~(\/ Busy(q) \/ Refuse(q) \/ RecoveryRefused(q) \/ Abort(q) \/ Commit(q)
          \/ Settle(q) \/ SettleUnrecorded(q) \/ RecoveryFails(q) \/ Mark(q) \/ RemoveUser(q)
          \/ UninstallFails(q))
    BY <2>1 DEF Busy, Refuse, RecoveryRefused, Abort, Commit, Settle, SettleUnrecorded,
                RecoveryFails, Mark, RemoveUser, UninstallFails
  <2>4. ~(\/ Begin(q) \/ BeginRecovery(q) \/ BeginUninstall(q) \/ Restored(q))
    BY <2>1 DEF Begin, BeginRecovery, BeginUninstall, Restored, Label
  <2>5. ~(\/ Write(q) \/ WriteFails(q) \/ Restart(q) \/ RestartFails(q) \/ CommitFails(q)
          \/ StopServices(q) \/ UndoStep(q) \/ UndoFails(q) \/ UndoRestart(q))
    BY HolderGoes DEF Locked
  <2>6. StartRecovery(q) \/ \E c \in Command : StartCommand(q, c)
    BY <1>2, <1>5, <2>2, <2>3, <2>4, <2>5 DEF Moves, Proceed
  <2>7. ~StartRecovery(q)
    <3> SUFFICES ASSUME StartRecovery(q) PROVE FALSE
      OBVIOUS
    <3>1. PICK t \in TxId : job' = [job EXCEPT ![q].cmd = "recover", ![q].target = t]
      BY DEF StartRecovery
    <3>2. job'[q].cmd = "recover"
      BY <3>1 DEF JobsTyped, Job
    <3> QED
      BY <3>2 DEF Changes, Installs
  <2>8. ASSUME NEW c \in Command, StartCommand(q, c)
        PROVE  /\ job'[q].base = disk'["state"]
               /\ job'[q].cmd \in Installs => disk'["state"] = Absent
    <3>1. PICK replaces \in BOOLEAN :
            job' = [job EXCEPT ![q].cmd = c, ![q].base = disk["state"], ![q].replaces = replaces]
      BY <2>8 DEF StartCommand
    <3>2. job'[q].cmd = c /\ job'[q].base = disk["state"]
      BY <3>1 DEF JobsTyped, Job
    <3> QED
      BY <2>8, <3>2 DEF StartCommand, Admits, files
  <2> QED
    BY <2>6, <2>7, <2>8
<1>6. ASSUME NEW p \in Cli \ {q}, Moves(p)
      PROVE  /\ job'[q].base = disk'["state"]
             /\ job'[q].cmd \in Installs => disk'["state"] = Absent
  <2>1. pc'[q] = pc[q] /\ job'[q] = job[q] /\ p \in Confined
    BY <1>1, <1>6, OthersStay DEF Moves, OneShell
  <2>2. Incomplete = {}
    BY <1>4, <2>1 DEF WaitingAt, Changes
  <2>3. ~Due /\ "state" \in File \ CertFiles
    BY <2>2 DEF Due, File, StateRoot, CertFiles
  <2>4. disk'["state"] = disk["state"]
    BY <1>3, <1>6, <2>1, <2>3, ConfinedSpares
  <2> QED
    BY <1>4, <2>1, <2>4 DEF BasedAt
<1>7. ASSUME (\E t \in TxId : LoseBackup(t)) \/ UNCHANGED vars
      PROVE  /\ job'[q].base = disk'["state"]
             /\ job'[q].cmd \in Installs => disk'["state"] = Absent
  <2>1. UNCHANGED <<disk, pc, job>>
    BY <1>7 DEF LoseBackup, vars
  <2> QED
    BY <1>4, <2>1 DEF BasedAt
<1>8. ~Reboot
  BY DEF Reboot
<1> QED
  BY <1>5, <1>6, <1>7, <1>8 DEF Next, Moves

\* Nobody but the holder of the lock makes a core update no longer due.
LEMMA BystanderDue ==
  ASSUME OneShell, Shelled, NEW p \in Cli, Moves(p), lock # p, ~Amiss', ~Due'
  PROVE  ~Due
<1> USE DEF Shelled, Safe, Typed
<1>1. pc[p] \notin Locked
  BY DEF Holding
<1>2. ~Restored(p) /\ ~Abort(p) /\ ~Commit(p) /\ ~Settle(p)
  BY <1>1 DEF Restored, Abort, Commit, Settle, Undone, Locked
<1> QED
  BY <1>2, DueStays

LEMMA HolderDue ==
  ASSUME OneShell, Shelled, NEW p \in Cli, ~Amiss', ~Due',
         \/ Write(p) \/ WriteFails(p) \/ Restart(p) \/ RestartFails(p) \/ CommitFails(p)
         \/ StopServices(p) \/ UndoStep(p) \/ UndoFails(p) \/ UndoRestart(p)
  PROVE  ~Due
<1> USE DEF Shelled, Safe, Typed
<1>1. Moves(p) /\ UNCHANGED journal /\ pc'[p] \in Locked /\ pc[p] \in Locked
  BY HolderGoes DEF Moves, Proceed
<1>2. \A q \in Cli \ {p} : pc'[q] = pc[q] /\ job'[q] = job[q]
  BY <1>1, OthersStay DEF Moves
<1>3. \A q \in Cli : Settled(q)' => Settled(q)
  BY <1>1, <1>2 DEF Settled, Locked
<1> QED
  BY <1>1, <1>3 DEF Due, Incomplete

LEMMA LateNext ==
  ASSUME OneShell, Shelled, Calm, [Next]_vars, ~Amiss', NEW q \in Cli
  PROVE  LateAt(q)'
<1> USE DEF Shelled, Safe, Typed
<1> SUFFICES ASSUME pc'[q] = "local", q \in Confined, ~Due', NEW i \in DOMAIN todo'
             PROVE  todo'[i].to = disk'[todo'[i].file]
  BY DEF LateAt
<1>1. \A p \in Cli : ~RemoveRoot(p)
  BY RemoverMoves DEF Locked
<1>2. ~Amiss
  BY <1>1, AmissStays
<1>3. LateAt(q) /\ PlacedAt(q) /\ BarredAt(q)
  BY <1>2 DEF Calm, Steady, AllPlaced
<1>4. CASE Moves(q)
  <2>1. ~Exit(q) /\ \A l \in Label \ {"local"} : ~Goto(q, l)
    BY Goes, Exits
  <2>2. ~(\/ StartRecovery(q) \/ \E c \in Command : StartCommand(q, c)
          \/ NothingToRecover(q) \/ DoctorFix(q) \/ Kill(q))
    BY <2>1 DEF StartRecovery, StartCommand, NothingToRecover, DoctorFix, Kill, Label, vars
  <2>3. ~(\/ Busy(q) \/ Refuse(q) \/ RecoveryRefused(q) \/ Abort(q) \/ Commit(q)
          \/ Settle(q) \/ SettleUnrecorded(q) \/ RecoveryFails(q) \/ Mark(q) \/ RemoveUser(q)
          \/ UninstallFails(q))
    BY <2>1 DEF Busy, Refuse, RecoveryRefused, Abort, Commit, Settle, SettleUnrecorded,
                RecoveryFails, Mark, RemoveUser, UninstallFails
  <2>4. ~(\/ Begin(q) \/ BeginUninstall(q) \/ Restored(q))
    BY <2>1 DEF Begin, BeginUninstall, Restored, Label
  <2>5. ~(\/ WriteFails(q) \/ Restart(q) \/ RestartFails(q) \/ CommitFails(q)
          \/ StopServices(q) \/ UndoRestart(q))
    BY <2>1 DEF WriteFails, Restart, RestartFails, CommitFails, StopServices, UndoRestart, Abandon, Label
  <2>6. CASE UndoStep(q) \/ UndoFails(q)
    <3>1. /\ pc[q] = "local" /\ todo # <<>> /\ todo' = Tail(todo)
          /\ Moves(q)
      BY <2>6 DEF UndoStep, UndoFails, Moves, Proceed
    <3>2. ~Due /\ pc[q] \in Locked
      BY <2>6, <3>1, HolderDue DEF Locked
    <3>3. \A k \in DOMAIN todo : todo[k].to = disk[todo[k].file]
      BY <1>3, <3>1, <3>2 DEF LateAt
    <3>4. \A k \in DOMAIN todo : todo[k].file \in File
      BY StepsTyped DEF HeldTyped
    <3>5. i + 1 \in DOMAIN todo /\ todo'[i] = todo[i + 1] /\ Head(todo) = todo[1] /\ 1 \in DOMAIN todo
      BY <3>1, TailTouched DEF FilesTyped, HeldTyped
    <3>6. Touched(todo) \subseteq CoreFiles(TRUE)
      BY <1>3, <3>1, <3>2 DEF BarredAt, PlacedAt
    <3>7. disk'[todo'[i].file] = disk[todo'[i].file]
      <4> SUFFICES ASSUME disk'[todo'[i].file] # disk[todo'[i].file] PROVE FALSE
        OBVIOUS
      <4>1. /\ todo'[i].file = Head(todo).file
            /\ disk'[todo'[i].file] = Head(todo).to \/ todo'[i].file = "acme"
        BY <2>6, <3>4, <3>5, FirstFile
      <4>2. todo'[i].file # "acme"
        BY <3>5, <3>6 DEF Touched, CoreFiles
      <4> QED
        BY <3>3, <3>5, <4>1, <4>2
    <3> QED
      BY <3>3, <3>5, <3>7
  <2>7. CASE BeginRecovery(q)
    <3> DEFINE t == job[q].target
               r == names[t]["singbox"] = t
    <3>1. /\ t \in TxId /\ "local" \in journal[t].backup /\ todo' = UndoCore(bak[t], r)
          /\ lock = NoCli /\ pc[q] = "wait" /\ UNCHANGED <<disk, journal>>
      BY <2>7, RecoveryBegun DEF BeginRecovery, files
    <3>2. ~Due
      BY <1>4, <2>7, <3>1, HostAssumption, BystanderDue
    <3>3. journal[t].status = "IN_PROGRESS"
      <4>1. journal[t].backup # {} /\ (journal[t].status = "RECOVERED" => journal[t].backup = {"local"})
        BY <3>1 DEF Named
      <4> QED
        BY <1>2, <3>1, <4>1 DEF Named, Amiss
    <3>4. PICK u \in Cli : Settled(u)
      BY <3>1, <3>2, <3>3 DEF Due, Incomplete
    <3>5. job[u].target = t
      <4>1. job[u].target \in Incomplete /\ t \in Incomplete
        BY <3>1, <3>3, <3>4 DEF Settled, AllPlaced, WaitingAt, Incomplete
      <4> QED
        BY <4>1 DEF OneIncomplete
    <3>6. \A f \in CoreFiles(TRUE) : disk[f] = bak[t][f]
      BY <1>2, <3>4, <3>5 DEF Calm, Marking
    <3>7. Leads(UndoCore(bak[t], r), CoreFiles(r), bak[t])
      BY <3>1, CoreReturns DEF FilesTyped
    <3> HIDE DEF r
    <3>8. CoreFiles(r) \subseteq CoreFiles(TRUE)
      BY DEF CoreFiles
    <3>9. todo'[i].file \in CoreFiles(r) /\ todo'[i].to = bak[t][todo'[i].file]
      BY <3>1, <3>7 DEF Leads, Touched
    <3> QED
      BY <3>1, <3>6, <3>8, <3>9
  <2>8. ~Write(q)
    BY DEF Write
  <2> QED
    BY <1>1, <1>4, <2>2, <2>3, <2>4, <2>5, <2>6, <2>7, <2>8 DEF Moves, Proceed
<1>5. ASSUME NEW p \in Cli \ {q}, Moves(p)
      PROVE  todo'[i].to = disk'[todo'[i].file]
  <2>1. pc[q] = "local" /\ lock = q
    BY <1>5, OthersStay DEF Moves, Holding, Locked
  <2>2. UNCHANGED <<disk, todo>>
    BY <1>5, <2>1, HostAssumption, Bystander
  <2>3. ~Due
    BY <1>5, <2>1, BystanderDue
  <2> QED
    BY <1>3, <2>1, <2>2, <2>3 DEF LateAt
<1>6. ASSUME (\E t \in TxId : LoseBackup(t)) \/ UNCHANGED vars
      PROVE  todo'[i].to = disk'[todo'[i].file]
  <2>1. UNCHANGED <<disk, pc, job, todo>> /\ Incomplete' = Incomplete
    <3>1. CASE UNCHANGED vars
      BY <3>1 DEF vars, Incomplete
    <3>2. CASE \E t \in TxId : LoseBackup(t)
      BY <3>2 DEF LoseBackup, held, Incomplete, FilesTyped, Record
    <3> QED
      BY <1>6, <3>1, <3>2
  <2>2. ~Due
    BY <2>1 DEF Due, Settled
  <2> QED
    BY <1>3, <2>1, <2>2 DEF LateAt
<1>7. ~Reboot
  BY DEF Reboot
<1> QED
  BY <1>4, <1>5, <1>6, <1>7 DEF Next, Moves

LEMMA ToLocked ==
  ASSUME Typed, NEW p \in Cli, Moves(p), pc'[p] \in Locked
  PROVE  \/ Begin(p) \/ BeginRecovery(p) \/ BeginUninstall(p)
         \/ Write(p) \/ WriteFails(p) \/ Restart(p) \/ RestartFails(p) \/ CommitFails(p)
         \/ StopServices(p) \/ UndoStep(p) \/ UndoFails(p) \/ UndoRestart(p)
<1> USE DEF Typed
<1>1. ~Exit(p) /\ \A l \in {"idle", "wait", "mark", "user"} : ~Goto(p, l)
  BY Goes, Exits DEF Locked, Label
<1>2. ~(\/ StartRecovery(p) \/ \E c \in Command : StartCommand(p, c)
        \/ Kill(p) \/ Busy(p) \/ Refuse(p) \/ RecoveryRefused(p) \/ Abort(p) \/ Commit(p)
        \/ Settle(p) \/ SettleUnrecorded(p) \/ RecoveryFails(p) \/ Mark(p) \/ RemoveUser(p)
        \/ UninstallFails(p) \/ Restored(p) \/ RemoveRoot(p))
  BY <1>1 DEF StartRecovery, StartCommand, Kill, Busy, Refuse, RecoveryRefused, Abort, Commit, Settle,
              SettleUnrecorded, RecoveryFails, Mark, RemoveUser, UninstallFails, Restored, RemoveRoot
<1>3. ~(NothingToRecover(p) \/ DoctorFix(p))
  <2> SUFFICES ASSUME NothingToRecover(p) \/ DoctorFix(p) PROVE FALSE
    OBVIOUS
  <2>1. pc[p] = "idle" /\ pc' = pc
    BY DEF NothingToRecover, DoctorFix, vars
  <2> QED
    BY <2>1 DEF Locked
<1> QED
  BY <1>2, <1>3 DEF Moves, Proceed

\* What the services read is not what such an update of the core writes.
LEMMA ServedKept ==
  ASSUME \A f \in File \ CoreFiles(FALSE) : disk[f] = snap[f]
  PROVE  Serve(disk) = Serve(snap)
<1>1. Serving \subseteq File \ CoreFiles(FALSE)
  BY DEF Serving, File, StateRoot, CoreFiles
<1> QED
  BY <1>1 DEF Serve

LEMMA SteadyBegins ==
  ASSUME OneShell, Shelled, Calm, [Next]_vars, ~Amiss, ~Amiss', NEW q \in Cli, Begin(q)
  PROVE  SteadyAt(q)'
<1> USE DEF Shelled, Safe, Typed
<1> SUFFICES ASSUME job'[q].cmd = "cert" => ~Due'
             PROVE  SteadyAt(q)'
  BY DEF SteadyAt
<1>1. /\ job[q].cmd \in Changes /\ job'[q].cmd = job[q].cmd /\ pc'[q] = "write"
      /\ snap' = disk /\ running' = running /\ lock = NoCli /\ Moves(q)
  BY Begun DEF Begin, Moves, Proceed
<1>2. job[q].cmd = "cert" => ~Due
  BY <1>1, HostAssumption, BystanderDue
<1>3. /\ Installed(disk, names) /\ running = Expected(disk)
      /\ disk["state"] = Absent <=> job[q].cmd \in Installs
  BY <1>2, BeginsQuiet
<1>4. Installed(disk, names')
  BY <1>3, InstalledStays DEF FilesTyped, Numbered
<1>5. /\ Target(q)' = Over(q, disk, nextTx)
      /\ Installed(Over(q, disk, nextTx), names') /\ Over(q, disk, nextTx)["state"] # Absent
  BY <1>2, TargetBegun, TargetInstalled
<1> HIDE DEF Shelled, Safe, Typed
<1>6. Expected(snap)' = Expected(disk)
  BY <1>1 DEF Expected, Serve
<1>7. Installed(snap, names)'
  <2>1. Installed(snap', names') = Installed(snap, names)'
    BY DEF Installed
  <2> QED
    BY <1>1, <1>4, <2>1
<1>8. Installed(Target(q), names)' /\ Target(q)'["state"] # Absent
  <2> DEFINE image == Over(q, disk, nextTx)
  <2>1. Installed(image, names')
    BY <1>5
  <2>2. Target(q)' = image
    BY <1>5
  <2> HIDE DEF image
  <2>3. Installed(Target(q), names)'
    BY <2>1, <2>2 DEF Installed
  <2> QED
    BY <1>5, <2>3
<1> QED
  BY <1>1, <1>3, <1>6, <1>7, <1>8 DEF SteadyAt

LEMMA SteadyHolder ==
  ASSUME OneShell, Shelled, Calm, [Next]_vars, ~Amiss, ~Amiss', NEW q \in Cli,
         \/ Write(q) \/ WriteFails(q) \/ Restart(q) \/ RestartFails(q) \/ CommitFails(q)
         \/ StopServices(q) \/ UndoStep(q) \/ UndoFails(q) \/ UndoRestart(q)
  PROVE  SteadyAt(q)'
<1> USE DEF Shelled, Safe, Typed
<1>1. /\ lock = q /\ pc[q] \in Locked /\ pc'[q] \in Locked /\ Kept(q) /\ Moves(q)
      /\ UNCHANGED <<journal, bak, names, snap>>
  BY HolderGoes DEF Moves, Proceed
<1> SUFFICES ASSUME job[q].cmd \in Changes, job'[q].cmd = "cert" => ~Due'
             PROVE  SteadyAt(q)'
  BY <1>1 DEF SteadyAt, Kept
<1>2. job[q].cmd = "cert" => ~Due
  BY <1>1, HolderDue DEF Kept
<1>3. /\ Installed(snap, names) /\ (snap["state"] = Absent <=> job[q].cmd \in Installs)
      /\ pc[q] \in {"write", "commit"} => Installed(Target(q), names) /\ Target(q)["state"] # Absent
      /\ pc[q] = "write" \/ (pc[q] = "undo" /\ ~Again(q)) => running = Expected(snap)
      /\ pc[q] = "commit" \/ (pc[q] = "settle" /\ ~job[q].bad) => running = Serve(disk)
  BY <1>1, <1>2 DEF Calm, Steady, SteadyAt
<1>4. PlacedAt(q)
  BY DEF AllPlaced
<1>5. ~StopServices(q) \/ running' = Stopped
  BY DEF StopServices, Amiss
<1>6. Target(q)' = Target(q)
  BY <1>1, TargetKept DEF Kept
<1>7. ASSUME pc'[q] \in {"write", "commit"}
      PROVE  pc[q] = "write"
  <2>1. ~(Begin(q) \/ BeginRecovery(q) \/ BeginUninstall(q))
    BY <1>1 DEF Begin, BeginRecovery, BeginUninstall, Locked
  <2>2. Write(q) \/ Restart(q)
    BY <1>1, <1>7, <2>1, ToWork
  <2> QED
    BY <2>2 DEF Write, Restart
<1>8. ASSUME job[q].cmd = "core", ~job[q].replaces
      PROVE  Serve(disk) = Serve(snap)
  <2>1. job[q].replaces = FALSE
    BY <1>8 DEF JobsTyped, Job
  <2>2. Scope(q) = CoreFiles(FALSE)
    BY <1>8, <2>1 DEF Scope, Installs
  <2>3. \A f \in File \ Scope(q) : disk[f] = snap[f]
    BY <1>1, <1>4, <1>8 DEF PlacedAt
  <2> QED
    BY <2>2, <2>3, ServedKept
<1>9. job[q].cmd \notin Installs => Expected(snap) = Serve(snap)
  BY <1>3 DEF Expected
<1>10. ASSUME pc'[q] = "write" \/ (pc'[q] = "undo" /\ ~Again(q)')
       PROVE  running' = Expected(snap)
  <2>1. CASE Write(q)
    BY <1>3, <2>1 DEF Write
  <2>2. CASE WriteFails(q)
    BY <1>3, <2>2 DEF WriteFails
  <2>3. CASE Restart(q)
    BY <1>10, <2>3, Goes DEF Restart, Label
  <2>4. CASE RestartFails(q)
    <3>1. job'[q].restarted /\ job'[q].cmd = job[q].cmd
      <4>1. job' = [job EXCEPT ![q].restarted = TRUE]
        BY <2>4 DEF RestartFails, Attempted
      <4> QED
        BY <4>1, Noted DEF Kept
    <3>2. pc'[q] = "undo" /\ job[q].cmd \notin Installs
      <4>1. pc'[q] = (IF job[q].cmd \in Installs THEN "stop" ELSE "undo")
        BY <2>4, Undoes
      <4> QED
        BY <1>10, <4>1
    <3> QED
      BY <1>10, <3>1, <3>2 DEF Again
  <2>5. CASE CommitFails(q)
    <3>1. pc[q] = "commit" /\ job' = job /\ running' = running
      BY <2>5 DEF CommitFails, files
    <3>2. pc'[q] = "undo" /\ job[q].cmd \notin Installs
      <4>1. pc'[q] = (IF job[q].cmd \in Installs THEN "stop" ELSE "undo")
        BY <2>5, Undoes
      <4> QED
        BY <1>10, <4>1
    <3>3. ~job[q].restarted
      BY <1>10, <3>1, <3>2 DEF Again
    <3>4. job[q].cmd = "core" /\ ~job[q].replaces
      BY <1>4, <3>1, <3>3 DEF PlacedAt, Restarts, Locked
    <3> QED
      BY <1>3, <1>8, <1>9, <3>1, <3>2, <3>4
  <2>6. CASE StopServices(q)
    <3>1. job[q].cmd \in Installs
      BY <1>1, <1>4, <2>6 DEF PlacedAt, StopServices
    <3> QED
      BY <1>3, <1>5, <2>6, <3>1 DEF Expected
  <2>7. CASE UndoStep(q) \/ UndoFails(q)
    <3>1. pc[q] \in {"undo", "local"} /\ pc' = pc /\ running' = running
      BY <2>7 DEF UndoStep, UndoFails
    <3>2. pc[q] = "undo"
      BY <1>1, <1>4, <3>1 DEF PlacedAt, Changes, Installs
    <3>3. job'[q].restarted = job[q].restarted
      <4>1. job' = job \/ job' = [job EXCEPT ![q].bad = TRUE]
        BY <2>7 DEF UndoStep, UndoFails
      <4> QED
        BY <4>1, Noted
    <3>4. ~Again(q)
      BY <1>1, <1>10, <3>1, <3>2, <3>3 DEF Again, Kept
    <3> QED
      BY <1>3, <3>1, <3>2, <3>4
  <2>8. CASE UndoRestart(q)
    <3>1. pc'[q] \in {"settle", "localDone"}
      BY <2>8, Goes DEF UndoRestart, Label
    <3> QED
      BY <1>10, <3>1
  <2> QED
    BY <2>1, <2>2, <2>3, <2>4, <2>5, <2>6, <2>7, <2>8
<1>11. ASSUME pc'[q] = "commit" \/ (pc'[q] = "settle" /\ ~job'[q].bad)
       PROVE  running' = Serve(disk)'
  <2>1. CASE Write(q)
    BY <1>11, <2>1 DEF Write
  <2>2. CASE WriteFails(q) \/ RestartFails(q) \/ CommitFails(q)
    BY <1>11, <2>2, Undoes
  <2>3. CASE Restart(q)
    <3>1. /\ disk' = disk /\ pc[q] = "write"
          /\ running' = IF Restarts(q) THEN Serve(disk) ELSE running
      BY <2>3 DEF Restart
    <3>2. CASE Restarts(q)
      BY <3>1, <3>2 DEF Serve
    <3>3. CASE ~Restarts(q)
      <4>1. job[q].cmd = "core" /\ ~job[q].replaces
        BY <3>3 DEF Restarts
      <4>2. running' = Serve(disk)
        BY <1>3, <1>8, <1>9, <3>1, <3>3, <4>1 DEF Installs
      <4> QED
        BY <3>1, <4>2 DEF Serve
    <3> QED
      BY <3>2, <3>3
  <2>4. CASE StopServices(q)
    <3>1. pc'[q] = "undo"
      BY <2>4, Goes DEF StopServices, Label
    <3> QED
      BY <1>11, <3>1
  <2>5. CASE UndoStep(q) \/ UndoFails(q)
    BY <1>11, <2>5 DEF UndoStep, UndoFails
  <2>6. CASE UndoRestart(q)
    <3>1. pc'[q] \in {"settle", "localDone"} /\ disk' = disk
      BY <2>6, Goes DEF UndoRestart, Label
    <3>2. ~job'[q].bad
      BY <1>11, <3>1
    <3>3. running' = Serve(disk)
      <4>1. job' # [job EXCEPT ![q].bad = TRUE]
        BY <3>2, Noted
      <4> QED
        BY <2>6, <4>1 DEF UndoRestart
    <3> QED
      BY <3>1, <3>3 DEF Serve
  <2> QED
    BY <2>1, <2>2, <2>3, <2>4, <2>5, <2>6
<1>12. Installed(snap, names)' /\ Expected(snap)' = Expected(snap)
  BY <1>1, <1>3 DEF Installed, Expected, Serve
<1>13. pc'[q] \in {"write", "commit"} => Installed(Target(q), names)' /\ Target(q)'["state"] # Absent
  <2> SUFFICES ASSUME pc'[q] \in {"write", "commit"}
               PROVE  Installed(Target(q), names)' /\ Target(q)'["state"] # Absent
    OBVIOUS
  <2> DEFINE image == Target(q)
  <2>1. Installed(image, names) /\ image' = image /\ image["state"] # Absent
    BY <1>3, <1>6, <1>7
  <2> HIDE DEF image
  <2>2. Installed(image, names)' /\ image'["state"] # Absent
    BY <1>1, <2>1 DEF Installed
  <2> QED
    BY <2>2 DEF image
<1>14. snap'["state"] = Absent <=> job'[q].cmd \in Installs
  BY <1>1, <1>3 DEF Kept
<1> QED
  BY <1>10, <1>11, <1>12, <1>13, <1>14 DEF SteadyAt

LEMMA SteadyOthers ==
  ASSUME OneShell, Shelled, Calm, [Next]_vars, ~Amiss, ~Amiss', NEW q \in Cli,
         NEW p \in Cli \ {q}, Moves(p)
  PROVE  SteadyAt(q)'
<1> USE DEF Shelled, Safe, Typed
<1>1. pc'[q] = pc[q] /\ job'[q] = job[q]
  BY OthersStay DEF Moves
<1> SUFFICES ASSUME pc[q] \in Locked, job[q].cmd \in Changes, job[q].cmd = "cert" => ~Due'
             PROVE  SteadyAt(q)'
  BY <1>1 DEF SteadyAt
<1>2. lock = q
  BY DEF Holding
<1>3. UNCHANGED <<disk, snap, todo, names>> /\ (DoctorFix(p) \/ UNCHANGED running)
  BY <1>2, HostAssumption, Bystander
<1>4. job[q].cmd = "cert" => ~Due
  BY <1>2, BystanderDue
<1>5. /\ Installed(snap, names) /\ (snap["state"] = Absent <=> job[q].cmd \in Installs)
      /\ pc[q] \in {"write", "commit"} => Installed(Target(q), names) /\ Target(q)["state"] # Absent
      /\ pc[q] = "write" \/ (pc[q] = "undo" /\ ~Again(q)) => running = Expected(snap)
      /\ pc[q] = "commit" \/ (pc[q] = "settle" /\ ~job[q].bad) => running = Serve(disk)
  BY <1>4 DEF Calm, Steady, SteadyAt
<1>6. ASSUME DoctorFix(p)
      PROVE  /\ running = Expected(snap) => running' = running
             /\ running = Serve(disk) => running' = Serve(disk)
  <2>1. p \notin Confined
    BY <1>6 DEF DoctorFix, OneShell
  <2>2. q \in Confined
    BY <2>1 DEF OneShell
  <2>3. job[q].cmd = "cert"
    BY <2>2 DEF OneShell, Used, Changes, Installs
  <2>4. "singbox" \in File \ CertFiles /\ "singbox" \in Serving
    BY DEF File, StateRoot, CertFiles, Serving
  <2>5. snap["singbox"] = disk["singbox"] /\ snap["state"] # Absent
    BY <1>5, <2>3, <2>4 DEF AllPlaced, PlacedAt, Scope, Installs
  <2>6. disk["singbox"] # Absent
    BY <1>6 DEF DoctorFix, Trusted
  <2>7. Stopped["singbox"] = Absent
    BY <2>4 DEF Stopped, Serve, Empty
  <2>8. Expected(snap)["singbox"] = snap["singbox"]
    BY <2>4, <2>5 DEF Expected, Serve
  <2>9. running' = IF running = Stopped THEN Serve(disk) ELSE running
    BY <1>6 DEF DoctorFix
  <2>10. running = Expected(snap) => running # Stopped
    BY <2>5, <2>6, <2>7, <2>8
  <2> QED
    BY <2>9, <2>10
<1>7. /\ running = Expected(snap) => running' = running
      /\ running = Serve(disk) => running' = Serve(disk)
  BY <1>3, <1>6
<1>8. Target(q)' = Target(q)
  BY <1>1, <1>3, TargetKept
<1>9. Installed(snap, names)' /\ Expected(snap)' = Expected(snap) /\ Serve(disk)' = Serve(disk)
  BY <1>3, <1>5 DEF Installed, Expected, Serve
<1>10. pc[q] \in {"write", "commit"} => Installed(Target(q), names)' /\ Target(q)'["state"] # Absent
  <2> SUFFICES ASSUME pc[q] \in {"write", "commit"}
               PROVE  Installed(Target(q), names)' /\ Target(q)'["state"] # Absent
    OBVIOUS
  <2> DEFINE image == Target(q)
  <2>1. Installed(image, names) /\ image' = image /\ image["state"] # Absent
    BY <1>5, <1>8
  <2> HIDE DEF image
  <2>2. Installed(image, names)' /\ image'["state"] # Absent
    BY <1>3, <2>1 DEF Installed
  <2> QED
    BY <2>2 DEF image
<1>11. Again(q)' <=> Again(q)
  BY <1>1 DEF Again
<1> QED
  BY <1>1, <1>3, <1>5, <1>7, <1>9, <1>10, <1>11 DEF SteadyAt

LEMMA KeepingNext ==
  ASSUME OneShell, Shelled, Shelled', Calm, [Next]_vars, ~Amiss', NEW q \in Cli
  PROVE  KeepingAt(q)'
<1> USE DEF Shelled, Safe, Typed
<1> DEFINE Kin == /\ pc'[q] = "write" /\ job'[q].keepCert =>
                       disk'["cert"] = disk'["key"] /\ Touched(todo)' \cap {"cert", "key"} = {}
                  /\ pc'[q] = "user" => disk'["cert"] = disk'["key"]
<1> SUFFICES ASSUME job'[q].cmd = "uninstall"
             PROVE  Kin
  BY DEF KeepingAt
<1>1. q \notin Confined
  BY DEF OneShell, Used
<1>2. {"cert", "key"} \subseteq StateRoot /\ {"cert", "key"} \subseteq File
  BY DEF File, StateRoot
<1>3. CASE RemoveRoot(q)
  <2>1. pc'[q] = "user" /\ pc[q] = "write" /\ job[q].cmd = "uninstall"
    BY <1>3, RemoverMoves DEF RemoveRoot
  <2>2. CASE job[q].keepCert
    <3>1. UNCHANGED <<disk, journal, untold>>
      BY <1>3, <2>2 DEF RemoveRoot
    <3>2. ~Amiss
      BY <3>1 DEF Amiss
    <3>3. disk["cert"] = disk["key"]
      BY <2>1, <2>2, <3>2 DEF Calm, Steady, KeepingAt
    <3> QED
      BY <2>1, <3>1, <3>3
  <2>3. CASE ~job[q].keepCert
    <3>1. disk' = [f \in File |-> IF f \in StateRoot THEN Absent ELSE disk[f]]
      BY <1>3, <2>3 DEF RemoveRoot
    <3> QED
      BY <1>2, <2>1, <3>1
  <2> QED
    BY <2>2, <2>3
<1>4. ASSUME \A p \in Cli : ~RemoveRoot(p)
      PROVE  Kin
  <2>1. ~Amiss
    BY <1>4, AmissStays
  <2>2. KeepingAt(q) /\ WaitingAt(q)
    BY <2>1 DEF Calm, Steady, AllPlaced
  <2>3. ASSUME Moves(q)
        PROVE  Kin
    <3>1. pc'[q] # "user"
      BY <1>4, <2>3, ToUser DEF Moves
    <3> SUFFICES ASSUME pc'[q] = "write", job'[q].keepCert
                 PROVE  disk'["cert"] = disk'["key"] /\ Touched(todo)' \cap {"cert", "key"} = {}
      BY <3>1
    <3>2. ~Begin(q) /\ ~BeginRecovery(q)
      BY Begun, RecoveryBegun DEF Changes, Installs
    <3>3. ~Restart(q)
      BY Goes DEF Restart, Label
    <3>4. CASE BeginUninstall(q)
      <4>1. pc[q] = "wait" /\ lock = NoCli /\ disk' = disk /\ job[q].cmd = "uninstall"
        BY <3>4 DEF BeginUninstall
      <4>2. \A p \in Cli : pc[p] # "user"
        <5> SUFFICES ASSUME NEW p \in Cli, pc[p] = "user" PROVE FALSE
          OBVIOUS
        <5>1. job[p].cmd = "uninstall" /\ p # q
          BY <4>1 DEF Working, WorkingAt
        <5>2. p \in Confined
          BY <1>1, <5>1 DEF OneShell
        <5> QED
          BY <5>1, <5>2 DEF OneShell, Used
      <4>3. Incomplete = {}
        BY <2>2, <4>1 DEF WaitingAt
      <4>4. disk["cert"] = disk["key"]
        BY <2>1, <4>1, <4>2, <4>3 DEF Calm, Quiet, Due, Installed
      <4>5. todo' = Uninstall(TRUE)
        <5>1. PICK keepCert \in BOOLEAN : /\ todo' = Uninstall(keepCert)
                                          /\ job' = [job EXCEPT ![q].keepCert = keepCert]
          BY <3>4 DEF BeginUninstall
        <5>2. job'[q].keepCert = keepCert
          BY <5>1 DEF JobsTyped, Job
        <5> QED
          BY <5>1, <5>2
      <4>6. Touched(todo)' = Owned(TRUE)
        BY <4>5, UninstallSteps DEF Touched
      <4> QED
        BY <4>1, <4>4, <4>6 DEF Owned
    <3>5. CASE Write(q)
      <4>1. pc[q] = "write" /\ job' = job /\ todo # <<>> /\ todo' = Tail(todo)
        BY <3>5 DEF Write
      <4>2. disk["cert"] = disk["key"] /\ Touched(todo) \cap {"cert", "key"} = {}
        BY <2>2, <4>1 DEF KeepingAt
      <4>3. Touched(todo)' \subseteq Touched(todo)
        <5>1. Touched(Tail(todo)) \subseteq Touched(todo)
          BY <4>1, TailTouched DEF FilesTyped, HeldTyped
        <5> QED
          BY <4>1, <5>1 DEF Touched
      <4>4. \A f \in {"cert", "key"} : disk'[f] = disk[f]
        BY <1>2, <3>5, <4>2, FirstFile
      <4> QED
        BY <4>2, <4>3, <4>4
    <3> QED
      BY <2>3, <3>2, <3>3, <3>4, <3>5, ToWork
  <2>4. ASSUME NEW p \in Cli \ {q}, Moves(p)
        PROVE  Kin
    <3>1. pc'[q] = pc[q] /\ job'[q] = job[q]
      BY <2>4, OthersStay DEF Moves
    <3> SUFFICES ASSUME pc[q] \in {"write", "user"}
                 PROVE  Kin
      BY <3>1
    <3>2. (lock = q \/ RootGone) /\ (pc[q] = "write" => lock = q)
      BY DEF Removing, Holding, Locked
    <3>3. UNCHANGED disk /\ (lock = q => UNCHANGED todo)
      BY <2>4, <3>1, <3>2, ShellRemoves, NobodyElse DEF Moves
    <3> QED
      BY <2>2, <3>1, <3>2, <3>3 DEF KeepingAt, Touched
  <2>5. ASSUME (\E t \in TxId : LoseBackup(t)) \/ UNCHANGED vars
        PROVE  Kin
    <3>1. UNCHANGED <<disk, pc, job, todo>>
      BY <2>5 DEF LoseBackup, held, vars
    <3> QED
      BY <2>2, <3>1 DEF KeepingAt, Touched
  <2>6. ~Reboot
    BY DEF Reboot, NoJob
  <2> QED
    BY <2>3, <2>4, <2>5, <2>6 DEF Next, Moves
<1> HIDE DEF Kin
<1>5. ASSUME NEW p \in Cli, RemoveRoot(p)
      PROVE  p = q
  BY <1>1, <1>5, RemoverMoves DEF OneShell
<1> QED
  BY <1>3, <1>4, <1>5

LEMMA SteadyNext ==
  ASSUME OneShell, Shelled, Shelled', Calm, [Next]_vars
  PROVE  Steady'
<1> USE DEF Shelled, Safe, Typed
<1> SUFFICES ASSUME ~Amiss', NEW q \in Cli
             PROVE  BasedAt(q)' /\ SteadyAt(q)' /\ LateAt(q)' /\ KeepingAt(q)'
  BY DEF Steady
<1>1. SteadyAt(q)'
  <2> SUFFICES ASSUME pc'[q] \in Locked, job'[q].cmd \in Changes
               PROVE  SteadyAt(q)'
    BY DEF SteadyAt
  <2>1. \A p \in Cli : ~RemoveRoot(p)
    <3> SUFFICES ASSUME NEW p \in Cli, RemoveRoot(p) PROVE FALSE
      OBVIOUS
    <3>1. lock = p /\ pc'[p] = "user" /\ \A k \in Cli \ {p} : pc'[k] = pc[k] /\ pc[k] \notin Locked
      BY RemoverMoves
    <3> QED
      BY <3>1 DEF Locked
  <2>2. ~Amiss
    BY <2>1, AmissStays
  <2>3. CASE Moves(q)
    <3>1. ~BeginRecovery(q) /\ ~BeginUninstall(q)
      <4>1. BeginUninstall(q) => job'[q].cmd = "uninstall"
        <5> SUFFICES ASSUME BeginUninstall(q) PROVE job'[q].cmd = "uninstall"
          OBVIOUS
        <5>1. PICK keepCert \in BOOLEAN : job' = [job EXCEPT ![q].keepCert = keepCert]
          BY DEF BeginUninstall
        <5> QED
          BY <5>1 DEF BeginUninstall, JobsTyped, Job
      <4> QED
        BY <4>1, RecoveryBegun DEF Changes, Installs
    <3> QED
      BY <2>2, <2>3, <3>1, ToLocked, SteadyBegins, SteadyHolder
  <2>4. ASSUME NEW p \in Cli \ {q}, Moves(p)
        PROVE  SteadyAt(q)'
    BY <2>2, <2>4, SteadyOthers
  <2>5. CASE (\E t \in TxId : LoseBackup(t)) \/ UNCHANGED vars
    <3>1. UNCHANGED <<disk, running, names, snap, pc, job>> /\ Incomplete' = Incomplete
      <4>1. CASE UNCHANGED vars
        BY <4>1 DEF vars, Incomplete
      <4>2. CASE \E t \in TxId : LoseBackup(t)
        BY <4>2 DEF LoseBackup, held, Incomplete, FilesTyped, Record
      <4> QED
        BY <2>5, <4>1, <4>2
    <3>2. Due' <=> Due
      BY <3>1 DEF Due, Settled
    <3>3. SteadyAt(q)
      BY <2>2 DEF Calm, Steady
    <3> QED
      BY <3>1, <3>2, <3>3 DEF SteadyAt, Installed, Expected, Serve, Target, Over, Written, Again
  <2>6. ~Reboot
    BY DEF Reboot, Locked
  <2> QED
    BY <2>3, <2>4, <2>5, <2>6 DEF Next, Moves
<1> QED
  BY <1>1, BasedNext, LateNext, KeepingNext

LEMMA CalmInit == Init => Calm
<1> SUFFICES ASSUME Init PROVE Calm
  OBVIOUS
<1>1. 1 \in TxId
  BY HostAssumption DEF TxId
<1>2. /\ disk \in {Empty, [f \in File |-> 1]} /\ running = Serve(disk) /\ names[1] = disk
      /\ \A p \in Cli : pc[p] = "idle" /\ job[p] = NoJob
  BY <1>1 DEF Init
<1>3. Incomplete = {}
  <2>1. \A t \in TxId : journal[t].status \in {"COMMITTED", "NONE"}
    BY DEF Init, NoRecord
  <2> QED
    BY <2>1 DEF Incomplete
<1>4. Installed(disk, names) /\ running = Expected(disk)
  <2>1. {"cert", "key", "acme", "state", "units"} \subseteq File
    BY DEF File, StateRoot
  <2>2. CASE disk = Empty
    BY <1>2, <2>1, <2>2 DEF Installed, Expected, Empty, Stopped
  <2>3. CASE disk = [f \in File |-> 1]
    <3>1. \A f \in File : disk[f] = 1
      BY <2>3
    <3>2. disk["state"] # Absent /\ names[disk["state"]] = disk
      BY <1>2, <2>1, <3>1 DEF Absent
    <3> QED
      BY <1>2, <2>1, <3>1, <3>2 DEF Installed, Expected, Absent
  <2> QED
    BY <1>2, <2>2, <2>3
<1>5. Quiet /\ Mendable
  BY <1>3, <1>4 DEF Quiet, Mendable
<1>6. Marking /\ Onward
  BY <1>2 DEF Marking, Onward, OnwardAt, Settled
<1>7. Steady
  BY <1>2 DEF Steady, BasedAt, SteadyAt, LateAt, KeepingAt, Locked, NoJob
<1> QED
  BY <1>5, <1>6, <1>7 DEF Calm

LEMMA CalmNext ==
  ASSUME OneShell, Shelled, Shelled', Cleared, Calm, [Next]_vars
  PROVE  Calm'
<1>1. Quiet'
  BY QuietNext
<1>2. Mendable'
  BY MendableNext
<1>3. Marking'
  BY MarkingNext
<1>4. Onward'
  BY OnwardNext
<1>5. Steady'
  BY SteadyNext
<1> QED
  BY <1>1, <1>2, <1>3, <1>4, <1>5 DEF Calm

\* Where nobody is at work and nothing tells of files left behind, the files
\* are those of one installation, or none, and the services run them.
LEMMA CalmTells ==
  ASSUME Shelled, Cleared, Calm, lock = NoCli, ~Marked, untold = {}
  PROVE  Whole /\ running = IF disk["state"] = Absent THEN Stopped ELSE Serve(disk)
<1> USE DEF Shelled, Safe, Typed
<1>1. Incomplete = {} /\ ~Amiss
  BY DEF Marked, Amiss, Incomplete
<1>2. CASE \A p \in Cli : pc[p] # "user"
  <2>1. Installed(disk, names) /\ running = Expected(disk)
    BY <1>1, <1>2 DEF Calm, Quiet, Due
  <2>2. Whole
    BY <2>1 DEF Installed, Whole, CertFiles
  <2> QED
    BY <2>1, <2>2 DEF Expected
<1>3. ASSUME NEW p \in Cli, pc[p] = "user"
      PROVE  Whole /\ running = IF disk["state"] = Absent THEN Stopped ELSE Serve(disk)
  <2>1. RootGone
    BY <1>3, HostAssumption DEF Removing
  <2>2. job[p].cmd = "uninstall"
    BY <1>3 DEF Working, WorkingAt
  <2>3. \A f \in StateRoot : disk[f] = Absent
    BY <2>1 DEF RootGone
  <2>4. {"cert", "key", "state"} \subseteq StateRoot
    BY DEF StateRoot
  <2>5. running = Stopped /\ \A f \in InstallFiles \ {"cert", "key"} : disk[f] = Absent
    BY <1>3, <2>2 DEF Cleared, ClearedAt
  <2>6. \A f \in File \ {"cert", "key", "user"} : disk[f] = Absent
    BY <2>5 DEF InstallFiles
  <2> QED
    BY <2>3, <2>4, <2>5, <2>6 DEF Whole
<1> QED
  BY <1>2, <1>3

Tidy == Shelled /\ Cleared /\ Calm

LEMMA TidyInit == Init => Tidy
<1>1. Init => Cleared
  BY DEF Init, Cleared, ClearedAt
<1> QED
  BY <1>1, ShelledInit, CalmInit DEF Tidy

LEMMA TidyNext ==
  ASSUME OneShell, Tidy, [Next]_vars
  PROVE  Tidy'
<1> USE DEF Tidy
<1>1. Shelled'
  BY ShelledNext
<1>2. Cleared'
  BY ShellRemoves, ClearedNext DEF Shelled
<1> QED
  BY <1>1, <1>2, CalmNext

\* For one operator's shell beside any number of confined renewals: whenever
\* nobody is at work, files of two installations are mixed only if a record
\* says so, or a command that keeps no record of its beginning was cut short.
THEOREM MixtureHasARecord == ASSUME OneShell PROVE Spec => []MixtureIsEvident
<1>1. Tidy /\ [Next]_vars => Tidy'
  BY TidyNext
<1>2. Tidy => MixtureIsEvident
  BY CalmTells DEF Tidy, MixtureIsEvident
<1> QED
  BY <1>1, <1>2, TidyInit, PTL DEF Spec

\* And whenever nobody is at work and nothing is amiss, the services run the
\* files that are installed, whichever paths back or forth led there.
THEOREM ServicesFollowFiles == ASSUME OneShell PROVE Spec => []ServicesRunInstalled
<1>1. Tidy /\ [Next]_vars => Tidy'
  BY TidyNext
<1>2. Tidy => ServicesRunInstalled
  BY CalmTells DEF Tidy, ServicesRunInstalled
<1> QED
  BY <1>1, <1>2, TidyInit, PTL DEF Spec

\* What a change finds is what its rollback goes back to.
LEMMA TidyCloses ==
  ASSUME Tidy, [Next]_vars, NEW t \in TxId,
         journal'[t].status \in {"ROLLED_BACK", "ABORTED"}, journal'[t] # journal[t]
  PROVE  IF journal'[t].cmd \in Installs
         THEN \/ Marked \/ untold # {}
              \/ \A f \in File : disk'[f] = snap[f] \/ (f \in {"cert", "key"} /\ disk'[f] = Absent)
         ELSE disk' = snap
<1> USE DEF Tidy, Shelled
<1>1. PICK p \in Cli :
        /\ pc[p] \in Locked /\ job[p].cmd \in Changes /\ journal'[t].cmd = job[p].cmd
        /\ \/ disk' = snap
           \/ job[p].cmd \in Installs /\ (job[p].cmd \in untold \/ disk' = Bare)
  BY SafeCloses
<1>2. CASE disk' = snap
  BY <1>2
<1>3. ASSUME job[p].cmd \in Installs, disk' = Bare, ~Marked, untold = {}
      PROVE  \A f \in File : disk'[f] = snap[f] \/ (f \in {"cert", "key"} /\ disk'[f] = Absent)
  <2>1. ~Amiss
    BY <1>3 DEF Marked, Amiss
  <2>2. SteadyAt(p)
    BY <2>1 DEF Calm, Steady
  <2>3. Installed(snap, names) /\ snap["state"] = Absent
    BY <1>1, <1>3, <2>2 DEF SteadyAt, Installs
  <2>4. \A f \in File \ {"cert", "key"} : snap[f] = Absent
    BY <2>3 DEF Installed
  <2>5. \A f \in File : Bare[f] = IF f = "user" THEN snap["user"] ELSE Absent
    BY DEF Bare, Empty
  <2> QED
    BY <1>3, <2>4, <2>5
<1> QED
  BY <1>1, <1>2, <1>3

\* For one operator's shell beside any number of confined renewals, kills and
\* failures: a change recorded as rolled back or aborted has left every file as
\* it found it.  A first installation that was rolled back has, unless an
\* earlier failure or kill had left files behind; a certificate that a removal
\* had kept may be gone.
THEOREM RollbacksRestore == ASSUME OneShell PROVE Spec => RollbackRestores
<1>1. Tidy /\ [Next]_vars => Tidy'
  BY TidyNext
<1>2. Tidy /\ [Next]_vars =>
        [\A t \in TxId :
           (journal'[t].status \in {"ROLLED_BACK", "ABORTED"} /\ journal'[t] # journal[t]) =>
           IF journal'[t].cmd \in Installs
           THEN \/ Marked \/ untold # {}
                \/ \A f \in File : disk'[f] = snap[f] \/ (f \in {"cert", "key"} /\ disk'[f] = Absent)
           ELSE disk' = snap]_vars
  BY TidyCloses
<1> QED
  BY <1>1, <1>2, TidyInit, PTL DEF Spec, RollbackRestores
=============================================================================
