------------------------ MODULE WorkerPublishProofs ------------------------
(***************************************************************************)
(* Proofs about WorkerPublish, for any number of requests, revisions,      *)
(* contents and targets, with failing store operations and evictions: the  *)
(* types for any isolates, what is promised to subscribers for one.        *)
(***************************************************************************)
EXTENDS WorkerPublish, TLAPS

\* A publication that has passed its first check.
Advanced == Publishing \ {"check"}

NoIsolate == CHOOSE i \in Isolate : TRUE
Request   == [pc : Publishing \cup Activating \cup {"idle"}, iso : Isolate \cup {NoIsolate},
              rev : 0..MaxRev, body : Body \cup {"none"}, todo : SUBSET Target,
              missing : Target \cup {""}, got : [Target -> Record]]

\* What a request in flight has to say.
Filled(x) == /\ x.pc # "idle" => x.iso \in Isolate /\ x.rev \in Rev
             /\ x.pc \in Publishing => x.body \in Body

StoreTyped ==
  /\ revision \in [Rev -> [Target -> Record]]
  /\ candidate \in [Rev -> SUBSET Target]
  /\ current \in [Target -> Record]
  /\ publication \in [rev : 0..MaxRev, targets : SUBSET Target]
ReqTyped == req \in [Req -> Request] /\ \A r \in Req : Filled(req[r])

\* Every publication is in its isolate's queue, and in front of it once it has
\* passed its first check.
Waits(r) == \E k \in 1..Len(queue[req[r].iso]) : queue[req[r].iso][k] = r
Lined == /\ queue \in [Isolate -> Seq(Req)]
         /\ \A r \in Req : /\ req[r].pc \in Publishing => Waits(r)
                           /\ req[r].pc \in Advanced => Head(queue[req[r].iso]) = r

Lines == ReqTyped /\ Lined

-----------------------------------------------------------------------------
(* Types and queues.                                                       *)

\* The targets every publication has.
LEMMA EveryContent == /\ Required \subseteq Target /\ "manifest" \in Required
                  /\ \A b \in Body : Carries[b] \subseteq Target /\ Required \subseteq Carries[b]
  BY BodyAssumption DEF Target, Required

\* A record is one; it says which revision it belongs to.
LEMMA Recorded ==
  ASSUME NEW v \in Rev, NEW b \in Body, NEW t
  PROVE  /\ ArtifactRecord(v, b, t) \in Record /\ ArtifactRecord(v, b, t) # NoRecord
         /\ ArtifactRecord(v, b, t).rev = v
         /\ t \notin Shared => ArtifactRecord(v, b, t).sum = b
  BY BodyAssumption, RequestAssumption DEF ArtifactRecord, Record, NoRecord, Rev

\* The record never stored and the request not in flight have their types.
LEMMA EmptyTyped ==
  /\ NoRecord \in Record /\ NoRequest \in Request /\ NoRequest.pc = "idle"
  /\ NoRequest.iso = NoIsolate
  BY RequestAssumption DEF NoRecord, Record, NoRequest, Request, NoIsolate

\* The next target is one that is left; the manifest comes last.
LEMMA NextIsLeft ==
  ASSUME NEW r, NEW t, NextTarget(r, t)
  PROVE  t \in req[r].todo /\ (t = "manifest" => req[r].todo = {"manifest"})
<1>1. \E x \in req[r].todo : x = "manifest" => req[r].todo = {"manifest"}
  BY DEF NextTarget
<1> QED
  BY <1>1 DEF NextTarget

\* An answer lets the next publication run.
LEMMA AnswerKeeps ==
  ASSUME Lines, NEW r \in Req, NEW pc \in Publishing \cup Activating, Runs(r, pc),
         NEW a, Answer(r, a)
  PROVE  Lines'
<1> DEFINE i == req[r].iso
<1>0. /\ req \in [Req -> Request] /\ queue \in [Isolate -> Seq(Req)] /\ i \in Isolate
      /\ req[r].pc = pc /\ (\A q \in Req : Filled(req[q]))
  BY DEF Lines, ReqTyped, Lined, Filled, Runs, Publishing, Activating
<1>1. req' = [req EXCEPT ![r] = NoRequest] /\ NoRequest \in Request /\ NoRequest.pc = "idle"
  BY EmptyTyped DEF Answer
<1>2. ReqTyped'
  BY <1>0, <1>1 DEF ReqTyped, Filled, Publishing
<1>3. req'[r].pc = "idle" /\ \A q \in Req \ {r} : req'[q] = req[q]
  BY <1>0, <1>1
<1>4. CASE pc \in Activating
  <2>1. queue' = queue
    BY <1>0, <1>4 DEF Answer, Publishing, Activating
  <2>2. Lined'
    BY <1>0, <1>3, <2>1 DEF Lines, Lined, Waits, Publishing, Advanced
  <2> QED
    BY <1>2, <2>2 DEF Lines
<1>5. CASE pc \in Publishing
  <2>1. queue' = [queue EXCEPT ![i] = Tail(@)] /\ Head(queue[i]) = r
    BY <1>0, <1>5 DEF Answer, Runs
  <2>2. PICK k \in 1..Len(queue[i]) : queue[i][k] = r
    BY <1>0, <1>5 DEF Lines, Lined, Waits
  <2>3. queue[i] \in Seq(Req) /\ queue[i] # <<>>
    BY <1>0, <2>2
  <2>4. Tail(queue[i]) \in Seq(Req)
    BY <2>3
  <2>5. queue' \in [Isolate -> Seq(Req)]
    BY <1>0, <2>1, <2>4
  <2>6. ASSUME NEW q \in Req, req'[q].pc \in Publishing
        PROVE  Waits(q)' /\ (req'[q].pc \in Advanced => Head(queue'[req'[q].iso]) = q)
    <3>1. q # r /\ req'[q] = req[q]
      BY <1>3, <2>6 DEF Publishing
    <3>2. req[q].iso \in Isolate /\ Waits(q) /\ (req[q].pc \in Advanced => Head(queue[req[q].iso]) = q)
      BY <1>0, <2>6, <3>1 DEF Lines, Lined, Filled, Publishing
    <3>3. CASE req[q].iso # i
      BY <1>0, <2>1, <3>1, <3>2, <3>3 DEF Waits
    <3>4. CASE req[q].iso = i
      <4>1. PICK m \in 1..Len(queue[i]) : queue[i][m] = q
        BY <3>2, <3>4 DEF Waits
      <4>2. m # 1
        BY <2>1, <2>3, <3>1, <4>1
      <4>3. m - 1 \in 1..Len(Tail(queue[i])) /\ Tail(queue[i])[m - 1] = q
        BY <2>3, <4>1, <4>2
      <4>4. queue'[i] = Tail(queue[i])
        BY <1>0, <2>1
      <4>5. Waits(q)'
        BY <3>1, <3>4, <4>3, <4>4 DEF Waits
      <4>6. req'[q].pc \notin Advanced
        BY <2>1, <3>1, <3>2, <3>4
      <4> QED
        BY <4>5, <4>6
    <3> QED
      BY <3>3, <3>4
  <2>7. Lined'
    BY <2>5, <2>6 DEF Lined, Advanced
  <2> QED
    BY <1>2, <2>7 DEF Lines
<1> QED
  BY <1>4, <1>5

\* A request that goes on keeps its place.
LEMMA SetKeeps ==
  ASSUME Lines, NEW r \in Req, NEW pc \in Publishing \cup Activating, Runs(r, pc),
         NEW x \in Request, Filled(x), x.iso = req[r].iso,
         x.pc \in Publishing => pc \in Publishing, Set(r, x)
  PROVE  Lines'
<1>0. req \in [Req -> Request] /\ (\A q \in Req : Filled(req[q])) /\ req[r].pc = pc
  BY DEF Lines, ReqTyped, Runs
<1>1. req' = [req EXCEPT ![r] = x] /\ queue' = queue
  BY DEF Set
<1>2. ReqTyped'
  BY <1>0, <1>1 DEF ReqTyped
<1>3. req'[r] = x /\ \A q \in Req \ {r} : req'[q] = req[q]
  BY <1>0, <1>1
<1>4. Lined'
  <2>1. ASSUME NEW q \in Req PROVE /\ req'[q].pc \in Publishing => Waits(q)'
                                   /\ req'[q].pc \in Advanced => Head(queue[req'[q].iso]) = q
    <3>1. CASE q = r
      BY <1>0, <1>1, <1>3, <3>1 DEF Lines, Lined, Waits, Runs, Advanced
    <3>2. CASE q # r
      BY <1>1, <1>3, <3>2 DEF Lines, Lined, Waits
    <3> QED
      BY <3>1, <3>2
  <2> QED
    BY <1>1, <2>1 DEF Lines, Lined
<1> QED
  BY <1>2, <1>4 DEF Lines

\* A request that arrives goes to the end of the queue.
LEMMA ArrivalKeeps ==
  ASSUME Lines, NEW r \in Req, Arrives(r)
  PROVE  Lines'
<1>0. req \in [Req -> Request] /\ (\A q \in Req : Filled(req[q])) /\ queue \in [Isolate -> Seq(Req)]
  BY DEF Lines, ReqTyped, Lined
<1>1. PICK i \in Isolate, v \in Rev :
        ActivateArrives(r, i, v) \/ \E b \in Body : PublishArrives(r, i, v, b)
  BY DEF Arrives
<1>2. CASE ActivateArrives(r, i, v)
  <2> DEFINE x == [NoRequest EXCEPT !.pc = "resolve", !.iso = i, !.rev = v]
  <2>1. req' = [req EXCEPT ![r] = x] /\ queue' = queue
    BY <1>2 DEF ActivateArrives
  <2>2. x \in Request /\ x.pc = "resolve" /\ x.iso = i /\ x.rev = v
    <3>1. v \in 0..MaxRev
      BY RequestAssumption DEF Rev
    <3> QED
      BY <3>1, EmptyTyped DEF Request, Activating
  <2> HIDE DEF x
  <2>3. ReqTyped'
    BY <1>0, <2>1, <2>2 DEF ReqTyped, Filled, Publishing
  <2>4. req'[r].pc = "resolve" /\ \A q \in Req \ {r} : req'[q] = req[q]
    BY <1>0, <2>1, <2>2
  <2>5. Lined'
    BY <2>1, <2>4 DEF Lines, Lined, Waits, Publishing, Advanced
  <2> QED
    BY <2>3, <2>5 DEF Lines
<1>3. ASSUME NEW b \in Body, PublishArrives(r, i, v, b) PROVE Lines'
  <2> DEFINE x == [NoRequest EXCEPT !.pc = "check", !.iso = i, !.rev = v, !.body = b]
  <2>1. req' = [req EXCEPT ![r] = x] /\ queue' = [queue EXCEPT ![i] = Append(@, r)]
    BY <1>3 DEF PublishArrives, Enqueue
  <2>2. x \in Request /\ x.pc = "check" /\ x.iso = i /\ x.rev = v /\ x.body = b
    <3>1. v \in 0..MaxRev
      BY RequestAssumption DEF Rev
    <3> QED
      BY <3>1, EmptyTyped DEF Request, Publishing
  <2> HIDE DEF x
  <2>3. ReqTyped'
    BY <1>0, <2>1, <2>2 DEF ReqTyped, Filled
  <2>4. req'[r] = x /\ \A q \in Req \ {r} : req'[q] = req[q]
    BY <1>0, <2>1
  <2>5. queue[i] \in Seq(Req) /\ queue'[i] = Append(queue[i], r)
    BY <1>0, <2>1
  <2>6. queue' \in [Isolate -> Seq(Req)]
    BY <1>0, <2>1, <2>5
  <2>7. Waits(r)'
    BY <2>2, <2>4, <2>5 DEF Waits
  <2>8. ASSUME NEW q \in Req, q # r, req'[q].pc \in Publishing
        PROVE  Waits(q)' /\ (req'[q].pc \in Advanced => Head(queue'[req'[q].iso]) = q)
    <3>1. req'[q] = req[q] /\ req[q].iso \in Isolate
      BY <1>0, <2>4, <2>8 DEF Filled, Publishing
    <3>2. Waits(q) /\ (req[q].pc \in Advanced => Head(queue[req[q].iso]) = q)
      BY <2>8, <3>1 DEF Lines, Lined
    <3>3. CASE req[q].iso # i
      BY <1>0, <2>1, <3>1, <3>2, <3>3 DEF Waits
    <3>4. CASE req[q].iso = i
      <4>1. PICK m \in 1..Len(queue[i]) : queue[i][m] = q
        BY <3>2, <3>4 DEF Waits
      <4>2. /\ m \in 1..Len(Append(queue[i], r)) /\ Append(queue[i], r)[m] = q
            /\ Head(Append(queue[i], r)) = Head(queue[i])
        BY <2>5, <4>1
      <4> QED
        BY <2>5, <3>1, <3>2, <3>4, <4>2 DEF Waits
    <3> QED
      BY <3>3, <3>4
  <2>9. Lined'
    BY <2>2, <2>4, <2>6, <2>7, <2>8 DEF Lined, Advanced
  <2> QED
    BY <2>3, <2>9 DEF Lines
<1> QED
  BY <1>1, <1>2, <1>3

\* An evicted isolate takes its requests and its queue with it.
LEMMA EvictionKeeps ==
  ASSUME Lines, NEW i \in Isolate, Evict(i)
  PROVE  Lines'
<1>0. req \in [Req -> Request] /\ (\A q \in Req : Filled(req[q])) /\ queue \in [Isolate -> Seq(Req)]
  BY DEF Lines, ReqTyped, Lined
<1>1. /\ req' = [r \in Req |-> IF req[r].iso = i THEN NoRequest ELSE req[r]]
      /\ queue' = [queue EXCEPT ![i] = <<>>]
  BY DEF Evict
<1>2. ReqTyped'
  BY <1>0, <1>1, EmptyTyped DEF ReqTyped, Filled, Publishing
<1>3. queue' \in [Isolate -> Seq(Req)]
  BY <1>0, <1>1
<1>4. ASSUME NEW q \in Req, req'[q].pc \in Publishing
      PROVE  Waits(q)' /\ (req'[q].pc \in Advanced => Head(queue'[req'[q].iso]) = q)
  <2>1. req'[q] = req[q] /\ req[q].iso # i
    BY <1>1, <1>4, EmptyTyped DEF Publishing
  <2>2. req[q].iso \in Isolate
    BY <1>0, <1>4, <2>1 DEF Filled, Publishing
  <2>3. queue'[req[q].iso] = queue[req[q].iso]
    BY <1>0, <1>1, <2>1, <2>2
  <2> QED
    BY <1>4, <2>1, <2>3 DEF Lines, Lined, Waits
<1> QED
  BY <1>2, <1>3, <1>4 DEF Lines, Lined, Advanced
\* What every action of a request comes down to: it is answered, or it goes on
\* as x.
Goes(r, x) == x \in Request /\ Filled(x) /\ x.iso = req[r].iso
              /\ (x.pc \in Publishing <=> req[r].pc \in Publishing) /\ Set(r, x)
Acts(r) == /\ \E pc \in Publishing \cup Activating : Runs(r, pc)
           /\ (\E a : Answer(r, a)) \/ (\E x : Goes(r, x))

\* Such an action keeps types and queues.
LEMMA ActsKeep == ASSUME Lines, NEW r \in Req, Acts(r) PROVE Lines'
<1>1. PICK pc \in Publishing \cup Activating : Runs(r, pc)
  BY DEF Acts
<1>2. ASSUME NEW a, Answer(r, a) PROVE Lines'
  BY <1>1, <1>2, AnswerKeeps
<1>3. ASSUME NEW x, Goes(r, x) PROVE Lines'
  <2>1. req[r].pc = pc
    BY <1>1 DEF Runs
  <2>2. /\ x \in Request /\ Filled(x) /\ x.iso = req[r].iso
        /\ (x.pc \in Publishing => pc \in Publishing) /\ Set(r, x)
    BY <1>3, <2>1 DEF Goes
  <2> QED
    BY <1>1, <2>2, SetKeeps
<1> QED
  BY <1>2, <1>3 DEF Acts

\* A request that goes on as x, of the same publication or activation.
LEMMA Onward ==
  ASSUME Lines, NEW r \in Req, NEW pc \in Publishing \cup Activating, Runs(r, pc),
         NEW x \in Request, x.pc \in Publishing \cup Activating,
         x.pc \in Publishing <=> pc \in Publishing,
         x.iso = req[r].iso, x.rev = req[r].rev, x.body = req[r].body, Set(r, x)
  PROVE  Acts(r)
<1>1. Filled(req[r]) /\ req[r].pc = pc /\ pc # "idle"
  BY DEF Lines, ReqTyped, Publishing, Activating, Runs
<1>2. Filled(x)
  BY <1>1 DEF Filled
<1>3. Goes(r, x)
  BY <1>1, <1>2 DEF Goes
<1> QED
  BY <1>3 DEF Acts

\* The requests that publications and activations go on as.
Following(y, pc, todo, t, got) ==
  {[y EXCEPT !.pc = pc], [y EXCEPT !.pc = pc, !.todo = todo], [y EXCEPT !.todo = @ \ {t}],
   [y EXCEPT !.pc = pc, !.missing = t],
   [y EXCEPT !.pc = pc, !.missing = "", !.todo = @ \ {y.missing}],
   [y EXCEPT !.pc = pc, !.todo = todo, !.got = got]}

\* Each of them is a request of the same publication or activation.
LEMMA Onwards ==
  ASSUME NEW y \in Request, NEW pc \in Publishing \cup Activating, NEW todo \in SUBSET Target,
         NEW t \in Target, NEW got \in [Target -> Record], NEW x,
         x \in Following(y, pc, todo, t, got)
  PROVE  /\ x \in Request /\ x.iso = y.iso /\ x.rev = y.rev /\ x.body = y.body
         /\ x.pc = pc \/ x.pc = y.pc
<1>1. /\ y.pc \in Publishing \cup Activating \cup {"idle"} /\ y.iso \in Isolate \cup {NoIsolate}
      /\ y.rev \in 0..MaxRev /\ y.body \in Body \cup {"none"} /\ y.todo \in SUBSET Target
      /\ y.missing \in Target \cup {""} /\ y.got \in [Target -> Record]
      /\ y = [pc |-> y.pc, iso |-> y.iso, rev |-> y.rev, body |-> y.body, todo |-> y.todo,
              missing |-> y.missing, got |-> y.got]
  BY DEF Request
<1>2. y.todo \ {t} \in SUBSET Target /\ y.todo \ {y.missing} \in SUBSET Target
  BY <1>1
<1>3. CASE x = [y EXCEPT !.pc = pc]
  BY <1>3 DEF Request
<1>4. CASE x = [y EXCEPT !.pc = pc, !.todo = todo]
  BY <1>4 DEF Request
<1>5. CASE x = [y EXCEPT !.todo = @ \ {t}]
  BY <1>2, <1>5 DEF Request
<1>6. CASE x = [y EXCEPT !.pc = pc, !.missing = t]
  BY <1>6 DEF Request
<1>7. CASE x = [y EXCEPT !.pc = pc, !.missing = "", !.todo = @ \ {y.missing}]
  BY <1>2, <1>7 DEF Request
<1>8. CASE x = [y EXCEPT !.pc = pc, !.todo = todo, !.got = got]
  BY <1>8 DEF Request
<1> QED
  BY <1>3, <1>4, <1>5, <1>6, <1>7, <1>8 DEF Following

\* Every step of a request is such an action.
LEMMA StepActs ==
  ASSUME Lines, StoreTyped, NEW r \in Req, Step(r)
  PROVE  Acts(r)
<1> DEFINE y == req[r]
<1>0. y \in Request /\ Filled(y) /\ (y.pc \in Publishing => Targets(r) \in SUBSET Target)
  BY EveryContent DEF Lines, ReqTyped, Filled, Targets
<1>m. "manifest" \in Target
  BY EveryContent
<1>g. y.got \in [Target -> Record] /\ y.todo \in SUBSET Target
  BY <1>0 DEF Request
<1>1. ASSUME NEW pc \in Publishing \cup Activating, Runs(r, pc), NEW a, Answer(r, a)
      PROVE  Acts(r)
  BY <1>1 DEF Acts
<1>2. ASSUME NEW pc \in Publishing \cup Activating, Runs(r, pc),
             NEW new \in Publishing \cup Activating, new \in Publishing <=> pc \in Publishing,
             NEW todo \in SUBSET Target, NEW t \in Target, NEW got \in [Target -> Record], NEW x,
             x \in Following(y, new, todo, t, got), Set(r, x)
      PROVE  Acts(r)
  <2>1. /\ x \in Request /\ x.iso = y.iso /\ x.rev = y.rev /\ x.body = y.body
        /\ x.pc = new \/ x.pc = y.pc
    <3>1. y \in Request
      BY <1>0
    <3> HIDE DEF y
    <3> QED
      BY <1>2, <3>1, Onwards
  <2>2. y.pc = pc
    BY <1>2 DEF Runs
  <2> QED
    BY <1>2, <2>1, <2>2, Onward
<1>3. ASSUME NEW pc \in Publishing \cup Activating, Runs(r, pc),
             NEW new \in Publishing \cup Activating, new \in Publishing <=> pc \in Publishing,
             Set(r, [y EXCEPT !.pc = new])
      PROVE  Acts(r)
  BY <1>2, <1>3, <1>m, <1>g DEF Following
<1>4. ASSUME NEW pc \in Publishing \cup Activating, Runs(r, pc),
             NEW new \in Publishing \cup Activating, new \in Publishing <=> pc \in Publishing,
             NEW todo \in SUBSET Target, Set(r, [y EXCEPT !.pc = new, !.todo = todo])
      PROVE  Acts(r)
  BY <1>2, <1>4, <1>m, <1>g DEF Following
<1>5. ASSUME NEW pc \in Publishing \cup Activating, Runs(r, pc), NEW t \in Target,
             Set(r, [y EXCEPT !.todo = @ \ {t}])
      PROVE  Acts(r)
  BY <1>2, <1>5, <1>g DEF Following
<1>p. /\ "check" \in Publishing /\ "store" \in Publishing /\ "put" \in Publishing
      /\ "candidate" \in Publishing /\ "recheck" \in Publishing /\ "switch" \in Publishing
      /\ "active" \in Publishing /\ "resolve" \in Activating /\ "activate" \in Activating
      /\ "resolve" \notin Publishing /\ "activate" \notin Publishing
  BY DEF Publishing, Activating
<1>6. CASE Check(r)
  <2>1. Runs(r, "check") /\ (\/ \E a : Answer(r, a)
                             \/ Set(r, [y EXCEPT !.pc = "store", !.todo = Targets(r)]))
    BY <1>6 DEF Check, NotNewer
  <2>2. Targets(r) \in SUBSET Target
    BY <1>0, <1>p, <2>1 DEF Runs
  <2> QED
    BY <1>1, <1>4, <1>p, <2>1, <2>2
<1>7. ASSUME NEW t \in Target, Probe(r, t) PROVE Acts(r)
  <2>1. Runs(r, "store") /\ (\/ \E a : Answer(r, a)
                             \/ Set(r, [y EXCEPT !.pc = "put", !.missing = t])
                             \/ Set(r, [y EXCEPT !.todo = @ \ {t}]))
    BY <1>7 DEF Probe
  <2>2. CASE Set(r, [y EXCEPT !.pc = "put", !.missing = t])
    BY <1>2, <1>g, <1>p, <2>1, <2>2 DEF Following
  <2> QED
    BY <1>1, <1>5, <1>p, <2>1, <2>2
<1>8. CASE Put(r)
  <2>1. Runs(r, "put") /\ Set(r, [y EXCEPT !.pc = "store", !.missing = "", !.todo = @ \ {y.missing}])
    BY <1>8 DEF Put
  <2> QED
    BY <1>2, <1>g, <1>m, <1>p, <2>1 DEF Following
<1>9. CASE ReadBack(r)
  <2>1. Runs(r, "store") /\ ((\E a : Answer(r, a)) \/ Set(r, [y EXCEPT !.pc = "candidate"]))
    BY <1>9 DEF ReadBack
  <2> QED
    BY <1>1, <1>3, <1>p, <2>1
<1>10. CASE Candidate(r)
  <2>1. Runs(r, "candidate") /\ Set(r, [y EXCEPT !.pc = "recheck"])
    BY <1>10 DEF Candidate
  <2> QED
    BY <1>3, <1>p, <2>1
<1>11. CASE Recheck(r)
  <2>1. Runs(r, "recheck") /\ (\/ \E a : Answer(r, a)
                               \/ Set(r, [y EXCEPT !.pc = "switch", !.todo = Targets(r)]))
    BY <1>11 DEF Recheck, NotNewer
  <2>2. Targets(r) \in SUBSET Target
    BY <1>0, <1>p, <2>1 DEF Runs
  <2> QED
    BY <1>1, <1>4, <1>p, <2>1, <2>2
<1>12. ASSUME NEW t \in Target, Switch(r, t) \/ ActivateTarget(r, t) PROVE Acts(r)
  <2>1. (Runs(r, "switch") \/ Runs(r, "activate")) /\ Set(r, [y EXCEPT !.todo = @ \ {t}])
    BY <1>12 DEF Switch, ActivateTarget
  <2> QED
    BY <1>5, <1>p, <2>1
<1>13. CASE Commit(r)
  <2>1. Runs(r, "switch") /\ Set(r, [y EXCEPT !.pc = "active"])
    BY <1>13 DEF Commit
  <2> QED
    BY <1>3, <1>p, <2>1
<1>14. CASE Finish(r) \/ Activate(r)
  <2>1. (Runs(r, "active") \/ Runs(r, "activate")) /\ \E a : Answer(r, a)
    BY <1>14 DEF Finish, Activate
  <2> QED
    BY <1>1, <1>p, <2>1
<1>15. CASE Resolve(r)
  <2> DEFINE v == y.rev
             got == [t \in Target |-> IF t \in Resolved(v) THEN revision[v][t] ELSE NoRecord]
  <2>1. Runs(r, "resolve") /\ (\/ \E a : Answer(r, a)
                               \/ Set(r, [y EXCEPT !.pc = "activate", !.todo = Resolved(v),
                                                   !.got = got]))
    BY <1>15 DEF Resolve
  <2>2. v \in Rev
    BY <1>0, <2>1 DEF Runs, Filled
  <2>3. Resolved(v) \in SUBSET Target
    BY <2>2, EveryContent DEF Resolved, StoreTyped
  <2>4. got \in [Target -> Record]
    BY <2>2, EmptyTyped DEF StoreTyped
  <2> HIDE DEF got, v
  <2>5. CASE Set(r, [y EXCEPT !.pc = "activate", !.todo = Resolved(v), !.got = got])
    BY <1>2, <1>m, <1>p, <2>1, <2>3, <2>4, <2>5 DEF Following
  <2> QED
    BY <1>1, <1>p, <2>1, <2>5
<1> QED
  BY <1>6, <1>7, <1>8, <1>9, <1>10, <1>11, <1>12, <1>13, <1>14, <1>15 DEF Step

\* Requests and queues keep their types and order.
LEMMA LinesKept == Lines /\ StoreTyped /\ [Next]_vars => Lines'
<1> SUFFICES ASSUME Lines, StoreTyped, [Next]_vars PROVE Lines'
  OBVIOUS
<1>1. ASSUME NEW r \in Req, Step(r) PROVE Lines'
  BY <1>1, StepActs, ActsKeep
<1>2. ASSUME NEW r \in Req, Fails(r) PROVE Lines'
  BY <1>2, ActsKeep DEF Fails, Acts
<1>3. CASE UNCHANGED vars
  BY <1>3 DEF vars, Lines, ReqTyped, Lined, Waits
<1> QED
  BY <1>1, <1>2, <1>3, ArrivalKeeps, EvictionKeeps DEF Next

\* The store keeps its type.
LEMMA StoreKept == Lines /\ StoreTyped /\ [Next]_vars => StoreTyped'
<1> SUFFICES ASSUME Lines, StoreTyped, [Next]_vars PROVE StoreTyped'
  OBVIOUS
<1> USE DEF StoreTyped, kv
<1>0. ASSUME NEW r \in Req PROVE req[r] \in Request /\ Filled(req[r])
  BY DEF Lines, ReqTyped
<1>1. ASSUME NEW r \in Req, Put(r) PROVE StoreTyped'
  <2>1. /\ req[r].rev \in Rev /\ req[r].body \in Body
        /\ revision' = [revision EXCEPT ![req[r].rev][req[r].missing] = Payload(r, req[r].missing)]
        /\ UNCHANGED <<candidate, current, publication>>
    BY <1>0, <1>1 DEF Put, Runs, Filled, Publishing
  <2>2. Payload(r, req[r].missing) \in Record
    BY <2>1, Recorded DEF Payload
  <2> QED
    BY <2>1, <2>2
<1>2. ASSUME NEW r \in Req, Candidate(r) PROVE StoreTyped'
  <2>1. Targets(r) \in SUBSET Target
    BY <1>0, <1>2, EveryContent DEF Candidate, Runs, Filled, Publishing, Targets
  <2> QED
    BY <1>2, <2>1 DEF Candidate
<1>3. ASSUME NEW r \in Req, NEW t \in Target, Switch(r, t) PROVE StoreTyped'
  <2>1. req[r].rev \in Rev
    BY <1>0, <1>3 DEF Switch, Runs, Filled
  <2> QED
    BY <1>3, <2>1 DEF Switch
<1>4. ASSUME NEW r \in Req, Commit(r) PROVE StoreTyped'
  <2>1. Targets(r) \in SUBSET Target /\ req[r].rev \in 0..MaxRev
    BY <1>0, <1>4, EveryContent DEF Commit, Runs, Filled, Publishing, Targets, Request
  <2> QED
    BY <1>4, <2>1 DEF Commit
<1>5. ASSUME NEW r \in Req, NEW t \in Target, ActivateTarget(r, t) PROVE StoreTyped'
  BY <1>0, <1>5 DEF ActivateTarget, Request
<1>6. ASSUME NEW r \in Req, Activate(r) PROVE StoreTyped'
  <2>1. "manifest" \in Target
    BY EveryContent
  <2>2. req[r].got["manifest"].rev \in 0..MaxRev
    BY <1>0, <2>1 DEF Request, Record
  <2> QED
    BY <1>6, <2>2 DEF Activate
<1>7. CASE UNCHANGED kv
  BY <1>7
<1> QED
  BY <1>1, <1>2, <1>3, <1>4, <1>5, <1>6, <1>7 DEF Next, Step, Check, NotNewer, Probe,
     ReadBack, Recheck, Finish, Resolve, Fails, Evict, Arrives, ActivateArrives,
     PublishArrives, vars

-----------------------------------------------------------------------------
(* History.  One isolate from here on.                                     *)

\* The records of targets S are stored as r's publication has them.
Stored(r, S) == \A t \in S : revision[req[r].rev][t] = Payload(r, t)

\* What is stored was some publication's.
Records    == \A v \in Rev, t \in Target :
                revision[v][t] = NoRecord \/ \E b \in Body : revision[v][t] = ArtifactRecord(v, b, t)
Candidates == \A v \in Rev : candidate[v] = {} \/ \E b \in Body : candidate[v] = Carries[b]

\* How far a request has come.
Progress(r) ==
  /\ req[r].pc \in {"store", "put"} => /\ req[r].todo \subseteq Targets(r)
                                       /\ Stored(r, Targets(r) \ req[r].todo)
  /\ req[r].pc = "put" => /\ req[r].missing \in req[r].todo /\ Existing(r, req[r].missing) = NoRecord
                          /\ req[r].missing = "manifest" => req[r].todo = {"manifest"}
  /\ req[r].pc \in {"candidate", "recheck", "switch", "active"} => Stored(r, Targets(r))
  /\ req[r].pc = "activate" => /\ req[r].got["manifest"] = revision[req[r].rev]["manifest"]
                               /\ req[r].got["manifest"] # NoRecord

Consistent == Records /\ CompleteHistory /\ \A r \in Req : Progress(r)

HistoryInv == Lines /\ StoreTyped /\ Candidates /\ Consistent

\* One publication at a time is past its first check.
LEMMA OneRuns ==
  ASSUME NEW i, Isolate = {i}, Lines, NEW r \in Req, NEW q \in Req,
         NEW pc \in Publishing, Runs(r, pc), req[q].pc \in Advanced
  PROVE  q = r
<1>1. req[r].iso = i /\ req[q].iso = i
  BY DEF Lines, ReqTyped, Filled, Runs, Publishing, Advanced
<1> QED
  BY <1>1 DEF Lines, Lined, Runs

\* A step that leaves the records alone has only its own progress to show.
LEMMA Steady ==
  ASSUME HistoryInv, UNCHANGED revision, NEW r \in Req,
         \A q \in Req \ {r} : req'[q] = req[q], Progress(r)'
  PROVE  Consistent'
<1>1. Records' /\ CompleteHistory'
  BY DEF HistoryInv, Consistent, Records, CompleteHistory
<1>2. ASSUME NEW q \in Req, q # r PROVE Progress(q)'
  BY <1>2 DEF HistoryInv, Consistent, Progress, Stored, Payload, Targets, Existing
<1> QED
  BY <1>1, <1>2 DEF Consistent, HistoryInv

\* A record that was missing is written: nothing complete is touched.
LEMMA PutKeeps ==
  ASSUME NEW i, Isolate = {i}, HistoryInv, NEW r \in Req, Put(r)
  PROVE  Consistent'
<1> DEFINE v == req[r].rev
           b == req[r].body
           t == req[r].missing
           x == [req[r] EXCEPT !.pc = "store", !.missing = "", !.todo = @ \ {t}]
<1>1. /\ req[r] \in Request /\ req \in [Req -> Request] /\ v \in Rev /\ b \in Body
      /\ Runs(r, "put") /\ req[r].pc = "put"
  BY DEF HistoryInv, Lines, ReqTyped, Filled, Put, Runs, Publishing
<1>2. /\ t \in req[r].todo /\ revision[v][t] = NoRecord /\ (t = "manifest" => req[r].todo = {"manifest"})
      /\ req[r].todo \subseteq Carries[b] /\ (\A u \in Carries[b] \ req[r].todo :
                                               revision[v][u] = ArtifactRecord(v, b, u))
  BY <1>1 DEF HistoryInv, Consistent, Progress, Stored, Existing, Payload, Targets
<1>3. t \in Target /\ revision \in [Rev -> [Target -> Record]] /\ Carries[b] \subseteq Target
  BY <1>1, <1>2, EveryContent DEF HistoryInv, StoreTyped
<1>4. revision' = [revision EXCEPT ![v][t] = ArtifactRecord(v, b, t)] /\ req' = [req EXCEPT ![r] = x]
  BY DEF Put, Set, Payload
<1>5. /\ \A w \in Rev, u \in Target : revision'[w][u] = IF w = v /\ u = t THEN ArtifactRecord(v, b, t)
                                                        ELSE revision[w][u]
  BY <1>1, <1>3, <1>4
<1>6. Records'
  BY <1>1, <1>5 DEF HistoryInv, Consistent, Records
<1>7. CompleteHistory'
  <2> SUFFICES ASSUME NEW w \in Rev, NEW c \in Body,
                      revision'[w]["manifest"] = ArtifactRecord(w, c, "manifest"), NEW u \in Carries[c]
               PROVE  revision'[w][u] = ArtifactRecord(w, c, u)
    BY DEF CompleteHistory
  <2>1. u \in Target /\ "manifest" \in Target /\ "manifest" \notin Shared
    BY EveryContent, BodyAssumption
  <2>2. CASE revision[w]["manifest"] = ArtifactRecord(w, c, "manifest")
    <3>1. revision[w][u] = ArtifactRecord(w, c, u)
      BY <2>2 DEF HistoryInv, Consistent, CompleteHistory
    <3>2. ~(w = v /\ u = t)
      BY <1>2, <3>1, Recorded
    <3> QED
      BY <1>5, <2>1, <3>1, <3>2
  <2>3. CASE revision[w]["manifest"] # ArtifactRecord(w, c, "manifest")
    <3>1. w = v /\ t = "manifest" /\ ArtifactRecord(v, b, "manifest") = ArtifactRecord(v, c, "manifest")
      BY <1>5, <2>1, <2>3
    <3>2. c = b
      BY <1>1, <2>1, <3>1, Recorded
    <3>3. u = t \/ revision[v][u] = ArtifactRecord(v, b, u)
      BY <1>2, <3>1, <3>2
    <3> QED
      BY <1>5, <2>1, <3>1, <3>2, <3>3
  <2> QED
    BY <2>2, <2>3
<1>8. ASSUME NEW q \in Req PROVE Progress(q)'
  <2>1. CASE q = r
    <3>1. /\ req'[q] = x /\ x.pc = "store" /\ x.todo = req[r].todo \ {t}
          /\ x.rev = v /\ x.body = b
      BY <1>1, <1>4, <2>1 DEF Request
    <3> HIDE DEF x
    <3>2. \A u \in Carries[b] \ x.todo : revision'[v][u] = ArtifactRecord(v, b, u)
      BY <1>1, <1>2, <1>3, <1>5, <3>1
    <3> QED
      BY <1>2, <3>1, <3>2 DEF Progress, Stored, Payload, Targets
  <2>2. CASE q # r
    <3>1. req'[q] = req[q] /\ Progress(q)
      BY <1>1, <1>4, <2>2 DEF HistoryInv, Consistent
    <3>2. req[q].pc \notin Advanced
      BY <1>1, <2>2, OneRuns DEF HistoryInv, Publishing
    <3>3. req[q].pc = "activate" => revision'[req[q].rev]["manifest"] = revision[req[q].rev]["manifest"]
      <4>1. req[q].pc = "activate" => req[q].rev \in Rev /\ revision[req[q].rev]["manifest"] # NoRecord
        BY <3>1 DEF HistoryInv, Consistent, Lines, ReqTyped, Filled, Progress
      <4>2. "manifest" \in Target
        BY EveryContent
      <4> QED
        BY <1>2, <1>5, <4>1, <4>2
    <3> QED
      BY <3>1, <3>2, <3>3 DEF Progress, Advanced, Publishing
  <2> QED
    BY <2>1, <2>2
<1> QED
  BY <1>6, <1>7, <1>8 DEF Consistent

\* A request that arrives has not come far.
LEMMA Arrived ==
  ASSUME Lines, NEW r \in Req, Arrives(r)
  PROVE  /\ req'[r].pc \in {"check", "resolve"} /\ UNCHANGED kv
         /\ req'[r].pc = "resolve" => AdmitsActivation(r)
         /\ Admits(r) /\ \A q \in Req \ {r} : req'[q] = req[q]
<1>0. req \in [Req -> Request] /\ NoRequest \in Request
  BY EmptyTyped DEF Lines, ReqTyped
<1>1. PICK i \in Isolate, v \in Rev :
        ActivateArrives(r, i, v) \/ \E b \in Body : PublishArrives(r, i, v, b)
  BY DEF Arrives
<1>2. CASE ActivateArrives(r, i, v)
  <2> DEFINE x == [NoRequest EXCEPT !.pc = "resolve", !.iso = i, !.rev = v]
  <2>1. x.pc = "resolve"
    BY <1>0 DEF Request
  <2>2. req' = [req EXCEPT ![r] = x] /\ UNCHANGED kv /\ AdmitsActivation(r)
    BY <1>2 DEF ActivateArrives
  <2> HIDE DEF x
  <2> QED
    BY <1>0, <2>1, <2>2 DEF AdmitsActivation
<1>3. ASSUME NEW b \in Body, PublishArrives(r, i, v, b)
      PROVE  /\ req'[r].pc = "check" /\ UNCHANGED kv /\ Admits(r)
             /\ \A q \in Req \ {r} : req'[q] = req[q]
  <2> DEFINE x == [NoRequest EXCEPT !.pc = "check", !.iso = i, !.rev = v, !.body = b]
  <2>1. x.pc = "check"
    BY <1>0 DEF Request
  <2>2. req' = [req EXCEPT ![r] = x] /\ UNCHANGED kv /\ Admits(r)
    BY <1>3 DEF PublishArrives
  <2> HIDE DEF x
  <2> QED
    BY <1>0, <2>1, <2>2
<1> QED
  BY <1>1, <1>2, <1>3

\* An answered request is no longer in flight.
LEMMA Answered ==
  ASSUME Lines, NEW r \in Req, NEW a, Answer(r, a)
  PROVE  req'[r].pc = "idle" /\ \A q \in Req \ {r} : req'[q] = req[q]
  BY EmptyTyped DEF Lines, ReqTyped, Answer

\* A request that goes on as x is x.
LEMMA WentOn ==
  ASSUME Lines, NEW r \in Req, NEW x, Set(r, x)
  PROVE  req'[r] = x /\ \A q \in Req \ {r} : req'[q] = req[q]
  BY DEF Lines, ReqTyped, Set

\* The request is elsewhere ...
LEMMA WentTo ==
  ASSUME Lines, NEW r \in Req, NEW pc, Set(r, [req[r] EXCEPT !.pc = pc])
  PROVE  /\ req'[r].pc = pc /\ req'[r].todo = req[r].todo
         /\ req'[r].rev = req[r].rev /\ req'[r].body = req[r].body
         /\ \A q \in Req \ {r} : req'[q] = req[q]
<1> DEFINE x == [req[r] EXCEPT !.pc = pc]
<1>1. req[r] \in Request
  BY DEF Lines, ReqTyped
<1>2. req'[r] = x /\ \A q \in Req \ {r} : req'[q] = req[q]
  BY WentOn
<1>3. /\ x.pc = pc /\ x.todo = req[r].todo
      /\ x.rev = req[r].rev /\ x.body = req[r].body
  BY <1>1 DEF Request
<1> HIDE DEF x
<1> QED
  BY <1>2, <1>3

\* ... with something to do ...
LEMMA WentToDo ==
  ASSUME Lines, NEW r \in Req, NEW pc, NEW todo, Set(r, [req[r] EXCEPT !.pc = pc, !.todo = todo])
  PROVE  /\ req'[r].pc = pc /\ req'[r].todo = todo
         /\ req'[r].rev = req[r].rev /\ req'[r].body = req[r].body
         /\ \A q \in Req \ {r} : req'[q] = req[q]
<1> DEFINE x == [req[r] EXCEPT !.pc = pc, !.todo = todo]
<1>1. req[r] \in Request
  BY DEF Lines, ReqTyped
<1>2. req'[r] = x /\ \A q \in Req \ {r} : req'[q] = req[q]
  BY WentOn
<1>3. /\ x.pc = pc /\ x.todo = todo
      /\ x.rev = req[r].rev /\ x.body = req[r].body
  BY <1>1 DEF Request
<1> HIDE DEF x
<1> QED
  BY <1>2, <1>3

\* ... or has handled a target.
LEMMA WentBy ==
  ASSUME Lines, NEW r \in Req, NEW t, Set(r, [req[r] EXCEPT !.todo = @ \ {t}])
  PROVE  /\ /\ req'[r].pc = req[r].pc /\ req'[r].todo = req[r].todo \ {t}
            /\ req'[r].got = req[r].got
         /\ req'[r].rev = req[r].rev /\ req'[r].body = req[r].body
         /\ \A q \in Req \ {r} : req'[q] = req[q]
<1> DEFINE x == [req[r] EXCEPT !.todo = @ \ {t}]
<1>1. req[r] \in Request
  BY DEF Lines, ReqTyped
<1>2. req'[r] = x /\ \A q \in Req \ {r} : req'[q] = req[q]
  BY WentOn
<1>3. /\ /\ x.pc = req[r].pc /\ x.todo = req[r].todo \ {t}
            /\ x.got = req[r].got
      /\ x.rev = req[r].rev /\ x.body = req[r].body
  BY <1>1 DEF Request
<1> HIDE DEF x
<1> QED
  BY <1>2, <1>3

\* A step that leaves the records alone makes the progress it should.
LEMMA OthersProgress ==
  ASSUME HistoryInv, NEW r \in Req, Step(r), ~Put(r)
  PROVE  UNCHANGED revision /\ Progress(r)' /\ \A q \in Req \ {r} : req'[q] = req[q]
<1>0. Lines /\ StoreTyped /\ Progress(r) /\ req[r] \in Request
      /\ (\A t : Targets(r) \ (req[r].todo \ {t}) \subseteq (Targets(r) \ req[r].todo) \cup {t})
  BY DEF HistoryInv, Consistent, Lines, ReqTyped
<1> USE DEF Runs
<1>1. ASSUME NEW a, Answer(r, a), UNCHANGED revision
      PROVE  UNCHANGED revision /\ Progress(r)' /\ \A q \in Req \ {r} : req'[q] = req[q]
  BY <1>0, <1>1, Answered DEF Progress
<1>2. CASE Check(r)
  <2>1. CASE NotNewer(r, "REVISION_CONFLICT")
    BY <1>1, <2>1 DEF NotNewer, kv
  <2>2. CASE Set(r, [req[r] EXCEPT !.pc = "store", !.todo = Targets(r)]) /\ UNCHANGED kv
    <3>0. Set(r, [req[r] EXCEPT !.pc = "store", !.todo = Targets(r)])
      BY <2>2
    <3>1. /\ req'[r].pc = "store" /\ req'[r].todo = Targets(r) /\ req'[r].body = req[r].body
          /\ \A q \in Req \ {r} : req'[q] = req[q]
      <4> DEFINE x == [req[r] EXCEPT !.pc = "store", !.todo = Targets(r)]
      <4>1. req'[r] = x /\ \A q \in Req \ {r} : req'[q] = req[q]
        BY <1>0, <3>0, WentOn
      <4>2. x.pc = "store" /\ x.todo = Targets(r) /\ x.body = req[r].body
        BY <1>0 DEF Request
      <4> HIDE DEF x
      <4> QED
        BY <4>1, <4>2
    <3> QED
      BY <2>2, <3>1 DEF Progress, Stored, Targets, kv
  <2> QED
    BY <1>2, <2>1, <2>2 DEF Check
<1>3. ASSUME NEW t \in Target, Probe(r, t)
      PROVE  UNCHANGED revision /\ Progress(r)' /\ \A q \in Req \ {r} : req'[q] = req[q]
  <2>1. /\ t \in req[r].todo /\ (t = "manifest" => req[r].todo = {"manifest"})
        /\ req[r].pc = "store" /\ UNCHANGED revision
    BY <1>3, NextIsLeft DEF Probe, kv
  <2>2. CASE Existing(r, t) = NoRecord /\ Set(r, [req[r] EXCEPT !.pc = "put", !.missing = t])
    <3>0. Set(r, [req[r] EXCEPT !.pc = "put", !.missing = t])
      BY <2>2
    <3>1. /\ req'[r].pc = "put" /\ req'[r].todo = req[r].todo /\ req'[r].body = req[r].body
          /\ req'[r].rev = req[r].rev /\ req'[r].missing = t
          /\ \A q \in Req \ {r} : req'[q] = req[q]
      <4> DEFINE x == [req[r] EXCEPT !.pc = "put", !.missing = t]
      <4>1. req'[r] = x /\ \A q \in Req \ {r} : req'[q] = req[q]
        BY <1>0, <3>0, WentOn
      <4>2. /\ x.pc = "put" /\ x.todo = req[r].todo /\ x.body = req[r].body
            /\ x.rev = req[r].rev /\ x.missing = t
        BY <1>0 DEF Request
      <4> HIDE DEF x
      <4> QED
        BY <4>1, <4>2
    <3> QED
      BY <1>0, <2>1, <2>2, <3>1 DEF Progress, Stored, Targets, Payload, Existing
  <2>3. CASE Existing(r, t) = Payload(r, t) /\ Set(r, [req[r] EXCEPT !.todo = @ \ {t}])
    <3>1. /\ req'[r].pc = "store" /\ req'[r].todo = req[r].todo \ {t} /\ req'[r].body = req[r].body
          /\ req'[r].rev = req[r].rev
          /\ \A q \in Req \ {r} : req'[q] = req[q]
      BY <1>0, <2>1, <2>3, WentBy
    <3> QED
      BY <1>0, <2>1, <2>3, <3>1 DEF Progress, Stored, Targets, Payload, Existing
  <2> QED
    BY <1>1, <1>3, <2>1, <2>2, <2>3 DEF Probe
<1>4. CASE ReadBack(r)
  <2>1. CASE Set(r, [req[r] EXCEPT !.pc = "candidate"])
    <3>1. /\ req'[r].pc = "candidate" /\ req'[r].body = req[r].body /\ req'[r].rev = req[r].rev
          /\ \A q \in Req \ {r} : req'[q] = req[q]
      BY <1>0, <2>1, WentTo
    <3>2. Stored(r, Targets(r))
      BY <1>0, <1>4 DEF ReadBack, Progress, Stored
    <3> QED
      BY <1>4, <3>1, <3>2 DEF ReadBack, Progress, Stored, Targets, Payload, kv
  <2> QED
    BY <1>1, <1>4, <2>1 DEF ReadBack, kv
<1>5. CASE Recheck(r)
  <2>1. CASE NotNewer(r, "STALE_REVISION")
    BY <1>1, <2>1 DEF NotNewer, kv
  <2>2. CASE Set(r, [req[r] EXCEPT !.pc = "switch", !.todo = Targets(r)]) /\ UNCHANGED kv
    <3>1. /\ req'[r].pc = "switch" /\ req'[r].body = req[r].body /\ req'[r].rev = req[r].rev
          /\ \A q \in Req \ {r} : req'[q] = req[q]
      BY <1>0, <2>2, WentToDo
    <3> QED
      BY <1>0, <1>5, <2>2, <3>1 DEF Recheck, Progress, Stored, Targets, Payload, kv
  <2> QED
    BY <1>5, <2>1, <2>2 DEF Recheck
<1>6. CASE Candidate(r)
  <2>1. /\ req'[r].pc = "recheck" /\ req'[r].body = req[r].body /\ req'[r].rev = req[r].rev
        /\ \A q \in Req \ {r} : req'[q] = req[q]
    BY <1>0, <1>6, WentTo DEF Candidate
  <2> QED
    BY <1>0, <1>6, <2>1 DEF Candidate, Progress, Stored, Targets, Payload
<1>7. CASE Commit(r)
  <2>1. /\ req'[r].pc = "active" /\ req'[r].body = req[r].body /\ req'[r].rev = req[r].rev
        /\ \A q \in Req \ {r} : req'[q] = req[q]
    BY <1>0, <1>7, WentTo DEF Commit
  <2> QED
    BY <1>0, <1>7, <2>1 DEF Commit, Progress, Stored, Targets, Payload
<1>8. ASSUME NEW t \in Target, Switch(r, t)
      PROVE  UNCHANGED revision /\ Progress(r)' /\ \A q \in Req \ {r} : req'[q] = req[q]
  <2>1. /\ req'[r].pc = "switch" /\ req'[r].body = req[r].body /\ req'[r].rev = req[r].rev
        /\ \A q \in Req \ {r} : req'[q] = req[q]
    BY <1>0, <1>8, WentBy DEF Switch
  <2> QED
    BY <1>0, <1>8, <2>1 DEF Switch, Progress, Stored, Targets, Payload
<1>9. ASSUME NEW t \in Target, ActivateTarget(r, t)
      PROVE  UNCHANGED revision /\ Progress(r)' /\ \A q \in Req \ {r} : req'[q] = req[q]
  <2>1. /\ req'[r].pc = "activate" /\ req'[r].got = req[r].got /\ req'[r].rev = req[r].rev
        /\ \A q \in Req \ {r} : req'[q] = req[q]
    BY <1>0, <1>9, WentBy DEF ActivateTarget
  <2> QED
    BY <1>0, <1>9, <2>1 DEF ActivateTarget, Progress
<1>10. CASE Resolve(r)
  <2> DEFINE v == req[r].rev
             got == [t \in Target |-> IF t \in Resolved(v) THEN revision[v][t] ELSE NoRecord]
  <2>1. CASE Found(v) /\ Set(r, [req[r] EXCEPT !.pc = "activate", !.todo = Resolved(v), !.got = got])
    <3>0. Set(r, [req[r] EXCEPT !.pc = "activate", !.todo = Resolved(v), !.got = got])
      BY <2>1
    <3> HIDE DEF got
    <3>1. /\ req'[r].pc = "activate" /\ req'[r].got = got /\ req'[r].rev = v
          /\ \A q \in Req \ {r} : req'[q] = req[q]
      <4> DEFINE x == [req[r] EXCEPT !.pc = "activate", !.todo = Resolved(v), !.got = got]
      <4>1. req'[r] = x /\ \A q \in Req \ {r} : req'[q] = req[q]
        BY <1>0, <3>0, WentOn
      <4>2. x.pc = "activate" /\ x.got = got /\ x.rev = v
        BY <1>0 DEF Request
      <4> HIDE DEF x
      <4> QED
        BY <4>1, <4>2
    <3>2. v \in Rev /\ "manifest" \in Target
      BY <1>0, <1>10, EveryContent DEF Resolve, Lines, ReqTyped, Filled
    <3>3. "manifest" \in Resolved(v)
      BY <3>2, EveryContent DEF Resolved, HistoryInv, Candidates
    <3>4. got["manifest"] = revision[v]["manifest"] /\ got["manifest"] # NoRecord
      BY <2>1, <3>2, <3>3 DEF Found, got
    <3> QED
      BY <1>10, <3>1, <3>4 DEF Resolve, Progress, kv
  <2> QED
    BY <1>1, <1>10, <2>1 DEF Resolve, kv
<1>11. CASE Finish(r) \/ Activate(r)
  BY <1>1, <1>11 DEF Finish, Activate, kv
<1> QED
  BY <1>2, <1>3, <1>4, <1>5, <1>6, <1>7, <1>8, <1>9, <1>10, <1>11 DEF Step

\* A candidate record lists the targets of some content.
LEMMA CandidatesKept == HistoryInv /\ [Next]_vars => Candidates'
<1> SUFFICES ASSUME HistoryInv, [Next]_vars PROVE Candidates'
  OBVIOUS
<1>1. ASSUME NEW r \in Req, Candidate(r) PROVE Candidates'
  <2>1. req[r].body \in Body /\ req[r].rev \in Rev
    BY <1>1 DEF HistoryInv, Lines, ReqTyped, Filled, Candidate, Runs, Publishing
  <2> QED
    BY <1>1, <2>1 DEF Candidate, Candidates, HistoryInv, StoreTyped, Targets
<1>2. CASE UNCHANGED candidate
  BY <1>2 DEF HistoryInv, Candidates
<1> QED
  BY <1>1, <1>2 DEF Next, Step, Check, NotNewer, Probe, Put, ReadBack, Recheck, Switch,
     Commit, Finish, Resolve, ActivateTarget, Activate, Fails, Evict, Arrives,
     ActivateArrives, PublishArrives, vars, kv

\* History stays complete, with one isolate, whatever fails or is evicted.
LEMMA HistoryKept ==
  ASSUME NEW i, Isolate = {i}
  PROVE  HistoryInv /\ [Next]_vars => HistoryInv'
<1> SUFFICES ASSUME HistoryInv, [Next]_vars PROVE HistoryInv'
  OBVIOUS
<1>0. Lines' /\ StoreTyped' /\ Candidates'
  BY LinesKept, StoreKept, CandidatesKept DEF HistoryInv
<1>1. ASSUME NEW r \in Req, Step(r) PROVE Consistent'
  BY <1>1, PutKeeps, OthersProgress, Steady
<1>2. ASSUME NEW r \in Req, Fails(r) PROVE Consistent'
  <2>1. req'[r].pc = "idle" /\ (\A q \in Req \ {r} : req'[q] = req[q]) /\ UNCHANGED revision
    BY <1>2, Answered DEF Fails, HistoryInv, kv
  <2> QED
    BY <2>1, Steady DEF Progress
<1>3. ASSUME NEW r \in Req, Arrives(r) PROVE Consistent'
  <2>1. /\ req'[r].pc \in {"check", "resolve"} /\ (\A q \in Req \ {r} : req'[q] = req[q])
        /\ UNCHANGED revision
    BY <1>3, Arrived DEF HistoryInv, kv
  <2> QED
    BY <2>1, Steady DEF Progress
<1>4. ASSUME NEW j \in Isolate, Evict(j) PROVE Consistent'
  <2>1. /\ \A q \in Req : req'[q] = req[q] \/ req'[q].pc = "idle"
        /\ UNCHANGED revision
    BY <1>4, EmptyTyped DEF Evict, kv
  <2>2. ASSUME NEW q \in Req PROVE Progress(q)'
    BY <2>1 DEF HistoryInv, Consistent, Progress, Stored, Payload, Targets, Existing
  <2> QED
    BY <2>1, <2>2 DEF HistoryInv, Consistent, Records, CompleteHistory
<1>5. ASSUME UNCHANGED vars PROVE Consistent'
  BY <1>5 DEF vars, HistoryInv, Consistent, Records, CompleteHistory, Progress, Stored,
     Payload, Targets, Existing
<1> QED
  <2>0. \/ \E r \in Req : Arrives(r) \/ Step(r) \/ Fails(r)
        \/ \E j \in Isolate : Evict(j)
        \/ UNCHANGED vars
    BY DEF Next
  <2>1. Consistent'
    BY <1>1, <1>2, <1>3, <1>4, <1>5, <2>0, Zenon
  <2> QED
    BY <1>0, <2>1 DEF HistoryInv

\* The store is empty and nothing is in flight.
LEMMA InitHistory == Init => HistoryInv
<1> SUFFICES ASSUME Init PROVE HistoryInv
  OBVIOUS
<1>1. ReqTyped
  BY EmptyTyped DEF Init, ReqTyped, Filled, Publishing
<1>2. Lined
  BY EmptyTyped DEF Init, Lined, Publishing, Advanced
<1>3. StoreTyped
  BY EmptyTyped, RequestAssumption DEF Init, StoreTyped
<1>4. Candidates
  BY DEF Init, Candidates
<1>5. Records
  BY DEF Init, Records
<1>6. CompleteHistory
  <2>1. "manifest" \in Target
    BY EveryContent
  <2> QED
    BY <2>1, Recorded DEF Init, CompleteHistory
<1>7. ASSUME NEW r \in Req PROVE Progress(r)
  BY EmptyTyped DEF Init, Progress
<1> QED
  BY <1>1, <1>2, <1>3, <1>4, <1>5, <1>6, <1>7 DEF HistoryInv, Lines, Consistent

\* Every variable has its type, whatever the isolates do.
THEOREM PublishTypeCorrect == Spec => []TypeOK
<1> DEFINE Inv == Lines /\ StoreTyped
<1>1. Init => Inv
  BY InitHistory DEF HistoryInv
<1>2. Inv /\ [Next]_vars => Inv'
  BY LinesKept, StoreKept
<1>3. Inv => TypeOK
  BY DEF Lines, ReqTyped, Lined, StoreTyped, TypeOK, Request
<1> QED
  BY <1>1, <1>2, <1>3, PTL DEF Spec

\* With one isolate, the history is always as its requests have left it.
LEMMA HistoryAlways ==
  ASSUME NEW i, Isolate = {i}
  PROVE  Spec => []HistoryInv
<1>1. HistoryInv /\ [Next]_vars => HistoryInv'
  BY HistoryKept
<1> QED
  BY <1>1, InitHistory, PTL DEF Spec

\* With one isolate, a publication whose manifest is stored has all it lists
\* stored, whatever throws or is evicted: publishArtifacts writes the manifest
\* last, and publications of an isolate follow each other.
THEOREM HistoryIsComplete ==
  ASSUME NEW i, Isolate = {i}
  PROVE  Spec => []CompleteHistory
<1>1. HistoryInv => CompleteHistory
  BY DEF HistoryInv, Consistent
<1>2. Spec => []HistoryInv
  BY HistoryAlways
<1> QED
  BY <1>1, <1>2, PTL

-----------------------------------------------------------------------------
(* The promise to subscribers.                                             *)

Content == [v \in Rev |-> revision[v]["manifest"].sum]

\* The manifest of a publication has the bytes of its content.
LEMMA ContentOf ==
  ASSUME NEW v \in Rev, NEW b \in Body, revision[v]["manifest"] = ArtifactRecord(v, b, "manifest")
  PROVE  Content[v] = b /\ revision[v]["manifest"].rev = v
  BY Recorded, BodyAssumption DEF Content

\* A written record completes a publication, if it is its manifest.
LEMMA PutCompletes ==
  ASSUME HistoryInv, NEW r \in Req, Put(r)
  PROVE  UNCHANGED publication /\ (UNCHANGED Content \/ \E v \in Rev, b \in Body :
           Content[v] = "none" /\ Content' = [Content EXCEPT ![v] = b])
<1> DEFINE v == req[r].rev
           b == req[r].body
           t == req[r].missing
<1>1. v \in Rev /\ b \in Body /\ req[r].pc = "put"
  BY DEF HistoryInv, Lines, ReqTyped, Filled, Put, Runs, Publishing
<1>2. revision[v][t] = NoRecord /\ revision \in [Rev -> [Target -> Record]]
  BY <1>1 DEF HistoryInv, Consistent, Progress, Existing, StoreTyped
<1>3. revision' = [revision EXCEPT ![v][t] = ArtifactRecord(v, b, t)] /\ UNCHANGED publication
  BY DEF Put, Payload
<1>4. "manifest" \in Target /\ "manifest" \notin Shared
  BY EveryContent, BodyAssumption
<1>5. \A w \in Rev : revision'[w]["manifest"] = IF w = v /\ t = "manifest" THEN ArtifactRecord(v, b, t)
                                                ELSE revision[w]["manifest"]
  BY <1>1, <1>2, <1>3, <1>4
<1>6. CASE t # "manifest"
  BY <1>3, <1>5, <1>6 DEF Content
<1>7. CASE t = "manifest"
  <2>1. Content[v] = "none"
    BY <1>1, <1>2, <1>7 DEF Content, NoRecord
  <2>2. ArtifactRecord(v, b, t).sum = b
    BY <1>1, <1>4, <1>7, Recorded
  <2>3. Content' = [Content EXCEPT ![v] = b]
    BY <1>1, <1>5, <1>7, <2>2 DEF Content
  <2> QED
    BY <1>1, <1>3, <2>1, <2>3
<1> QED
  BY <1>6, <1>7

\* The publication that becomes the current one is complete.
LEMMA ShownIsComplete ==
  ASSUME HistoryInv, NEW r \in Req, Commit(r) \/ Activate(r)
  PROVE  /\ UNCHANGED revision /\ publication'.rev = req[r].rev
         /\ req[r].rev \in Rev /\ Content[req[r].rev] \in Body
<1>1. req[r].rev \in Rev /\ "manifest" \in Target /\ "manifest" \notin Shared
  BY EveryContent, BodyAssumption DEF HistoryInv, Lines, ReqTyped, Filled, Commit,
     Activate, Runs, Publishing
<1>2. CASE Commit(r)
  <2>1. req[r].body \in Body /\ req[r].pc = "switch"
    BY <1>2 DEF HistoryInv, Lines, ReqTyped, Filled, Commit, Runs, Publishing
  <2>2. revision[req[r].rev]["manifest"] = ArtifactRecord(req[r].rev, req[r].body, "manifest")
    BY <2>1, EveryContent DEF HistoryInv, Consistent, Progress, Stored, Targets, Payload
  <2> QED
    BY <1>1, <1>2, <2>1, <2>2, ContentOf DEF Commit
<1>3. CASE Activate(r)
  <2>1. req[r].got["manifest"] = revision[req[r].rev]["manifest"] /\ req[r].got["manifest"] # NoRecord
    BY <1>3 DEF HistoryInv, Consistent, Progress, Activate, Runs
  <2>2. PICK b \in Body : revision[req[r].rev]["manifest"] = ArtifactRecord(req[r].rev, b, "manifest")
    BY <1>1, <2>1 DEF HistoryInv, Consistent, Records
  <2> QED
    BY <1>1, <1>3, <2>1, <2>2, ContentOf DEF Activate
<1> QED
  BY <1>2, <1>3

\* With one isolate the Worker keeps what PublicationHistory promises: a
\* complete publication keeps its content, and only complete ones become
\* current, by publishing or by rollback.
THEOREM WorkerKeepsHistory ==
  ASSUME NEW i, Isolate = {i}
  PROVE  Spec => ImplementsHistory
<1>1. Init => History!Init
  <2>1. "manifest" \in Target
    BY EveryContent
  <2> QED
    BY <2>1 DEF Init, History!Init, NoRecord
<1>2. HistoryInv /\ [Next]_vars => [History!Next]_<<Content, publication.rev>>
  <2> SUFFICES ASSUME HistoryInv, [Next]_vars
               PROVE  [History!Next]_<<Content, publication.rev>>
    OBVIOUS
  <2>1. ASSUME NEW r \in Req, Put(r) PROVE [History!Next]_<<Content, publication.rev>>
    BY <2>1, PutCompletes DEF History!Next, History!Complete, Content
  <2>2. ASSUME NEW r \in Req, Commit(r) \/ Activate(r)
        PROVE  [History!Next]_<<Content, publication.rev>>
    <3>1. /\ UNCHANGED Content /\ publication'.rev = req[r].rev
          /\ req[r].rev \in Rev /\ Content[req[r].rev] # "none"
      BY <2>2, ShownIsComplete, BodyAssumption DEF Content
    <3> QED
      BY <3>1 DEF History!Next, History!Show, Content
  <2>3. CASE UNCHANGED <<revision, publication>>
    BY <2>3 DEF Content
  <2> QED
    BY <2>1, <2>2, <2>3 DEF Next, Step, Check, NotNewer, Probe, ReadBack, Candidate,
       Recheck, Switch, Finish, Resolve, ActivateTarget, Fails, Evict, Arrives,
       ActivateArrives, PublishArrives, vars, kv
<1>3. Spec => []HistoryInv
  BY HistoryAlways
<1> QED
  BY <1>1, <1>2, <1>3, PTL DEF Spec, ImplementsHistory, History!Spec, Content

-----------------------------------------------------------------------------
(* What is served.  Activations come alone from here on.                   *)

\* Beside an activation nothing is in flight.
Alone == /\ \A r, q \in Req : req[r].pc \in Activating /\ q # r => req[q].pc = "idle"
         /\ Activates = "never" => \A r \in Req : req[r].pc \notin Activating

\* What a switch and an activation have served so far.
Serving(r) ==
  /\ req[r].pc = "switch" => /\ publication.rev < req[r].rev
                             /\ \A t \in Targets(r) \ req[r].todo : current[t].rev = req[r].rev
  /\ req[r].pc = "activate" =>
       \A t \in Target : req[r].got[t] = NoRecord
                         \/ /\ req[r].got[t].rev = req[r].rev
                            /\ t \in req[r].todo \/ current[t].rev = req[r].rev

ServingInv == HistoryInv /\ Alone /\ \A r \in Req : Serving(r)

\* A step of r is one of a request in flight, and no other request gets there.
LEMMA StepsAlone ==
  ASSUME HistoryInv, Alone, NEW r \in Req, Step(r) \/ Fails(r)
  PROVE  Alone'
<1>1. Acts(r) /\ req[r].pc # "idle" /\ req \in [Req -> Request]
  <2>1. Acts(r)
    BY StepActs DEF HistoryInv, Fails, Acts
  <2> QED
    BY <2>1 DEF Acts, Runs, Publishing, Activating, HistoryInv, Lines, ReqTyped
<1>2. CASE \E a : Answer(r, a)
  <2>1. req'[r].pc = "idle" /\ \A q \in Req \ {r} : req'[q] = req[q]
    BY <1>2, Answered DEF HistoryInv
  <2> QED
    BY <2>1 DEF Alone, Activating
<1>3. ASSUME NEW x, Goes(r, x) PROVE Alone'
  <2>1. req'[r] = x /\ (\A q \in Req \ {r} : req'[q] = req[q])
    BY <1>3, WentOn DEF Goes, HistoryInv
  <2>2. x.pc \in Activating => req[r].pc \in Activating
    BY <1>1, <1>3 DEF Goes, Acts, Runs, Publishing, Activating
  <2> QED
    BY <1>1, <2>1, <2>2 DEF Alone
<1> QED
  BY <1>1, <1>2, <1>3 DEF Acts

\* An activation arrives alone, and nothing arrives beside it.
LEMMA AloneKept ==
  ASSUME Activates # "any"
  PROVE  HistoryInv /\ Alone /\ [Next]_vars => Alone'
<1> SUFFICES ASSUME HistoryInv, Alone, [Next]_vars PROVE Alone'
  OBVIOUS
<1>1. ASSUME NEW r \in Req, Step(r) \/ Fails(r) PROVE Alone'
  BY <1>1, StepsAlone
<1>2. ASSUME NEW r \in Req, Arrives(r) PROVE Alone'
  <2>1. /\ req'[r].pc \in {"check", "resolve"}
        /\ req'[r].pc = "resolve" => AdmitsActivation(r)
        /\ Admits(r) /\ \A q \in Req \ {r} : req'[q] = req[q]
    BY <1>2, Arrived DEF HistoryInv
  <2>2. Activates \in {"never", "alone"}
    BY RequestAssumption
  <2>3. CASE req'[r].pc = "check"
    <3>1. \A q \in Req : req[q].pc \notin Activating
      BY <2>1, <2>2 DEF Admits, Alone
    <3> QED
      BY <2>1, <2>3, <3>1 DEF Alone, Activating
  <2>4. CASE req'[r].pc = "resolve"
    <3>1. Activates = "alone" /\ \A q \in Req : req[q].pc = "idle"
      BY <2>1, <2>2, <2>4 DEF AdmitsActivation
    <3> QED
      BY <2>1, <3>1 DEF Alone, Activating
  <2> QED
    BY <2>1, <2>3, <2>4
<1>3. ASSUME NEW j \in Isolate, Evict(j) PROVE Alone'
  <2>1. \A q \in Req : req'[q] = req[q] \/ req'[q].pc = "idle"
    BY <1>3, EmptyTyped DEF Evict
  <2> QED
    BY <2>1 DEF Alone, Activating
<1>4. CASE UNCHANGED vars
  BY <1>4 DEF vars, Alone
<1> QED
  BY <1>1, <1>2, <1>3, <1>4 DEF Next

\* A request that neither switches nor activates has nothing to show.
LEMMA Elsewhere ==
  ASSUME HistoryInv, NEW r \in Req,
         \/ Check(r) \/ (\E t \in Target : Probe(r, t)) \/ Put(r) \/ ReadBack(r) \/ Candidate(r)
         \/ Finish(r) \/ Fails(r)
  PROVE  /\ UNCHANGED <<current, publication>> /\ req'[r].pc \notin {"switch", "activate"}
         /\ \A q \in Req \ {r} : req'[q] = req[q]
<1>0. Lines /\ req[r] \in Request
  BY DEF HistoryInv, Lines, ReqTyped
<1>1. UNCHANGED <<current, publication>>
  BY DEF Check, NotNewer, Probe, Put, ReadBack, Candidate, Finish, Fails, kv
<1>2. ASSUME NEW a, Answer(r, a)
      PROVE  req'[r].pc \notin {"switch", "activate"} /\ \A q \in Req \ {r} : req'[q] = req[q]
  BY <1>0, <1>2, Answered
<1>3. ASSUME NEW x, x.pc \notin {"switch", "activate"}, Set(r, x)
      PROVE  req'[r].pc \notin {"switch", "activate"} /\ \A q \in Req \ {r} : req'[q] = req[q]
  BY <1>0, <1>3, WentOn
<1>4. CASE Check(r)
  <2>1. [req[r] EXCEPT !.pc = "store", !.todo = Targets(r)].pc = "store"
    BY <1>0 DEF Request
  <2> QED
    BY <1>1, <1>2, <1>3, <1>4, <2>1 DEF Check, NotNewer
<1>5. ASSUME NEW t \in Target, Probe(r, t)
      PROVE  req'[r].pc \notin {"switch", "activate"} /\ \A q \in Req \ {r} : req'[q] = req[q]
  <2>1. /\ [req[r] EXCEPT !.pc = "put", !.missing = t].pc = "put"
        /\ [req[r] EXCEPT !.todo = @ \ {t}].pc = req[r].pc /\ req[r].pc = "store"
    BY <1>0, <1>5 DEF Request, Probe, Runs
  <2> QED
    BY <1>2, <1>3, <1>5, <2>1 DEF Probe
<1>6. CASE Put(r)
  <2> DEFINE t == req[r].missing
  <2>1. [req[r] EXCEPT !.pc = "store", !.missing = "", !.todo = @ \ {t}].pc = "store"
    BY <1>0 DEF Request
  <2> QED
    BY <1>1, <1>3, <1>6, <2>1 DEF Put
<1>7. CASE ReadBack(r) \/ Candidate(r)
  <2>1. /\ [req[r] EXCEPT !.pc = "candidate"].pc = "candidate"
        /\ [req[r] EXCEPT !.pc = "recheck"].pc = "recheck"
    BY <1>0 DEF Request
  <2> QED
    BY <1>1, <1>2, <1>3, <1>7, <2>1 DEF ReadBack, Candidate
<1>8. CASE Finish(r) \/ Fails(r)
  BY <1>1, <1>2, <1>8 DEF Finish, Fails
<1> QED
  BY <1>1, <1>4, <1>5, <1>6, <1>7, <1>8

\* A step that serves nothing leaves what the others have served.
LEMMA ServesOn ==
  ASSUME ServingInv, UNCHANGED <<current, publication>>, NEW r \in Req, Serving(r)',
         \A q \in Req \ {r} : req'[q] = req[q]
  PROVE  \A q \in Req : Serving(q)'
<1>1. ASSUME NEW q \in Req, q # r PROVE Serving(q)'
  BY <1>1 DEF ServingInv, Serving, Targets
<1> QED
  BY <1>1

\* The one that is switching, and the one that is activating, is the only one.
LEMMA OnlyOne ==
  ASSUME NEW i, Isolate = {i}, ServingInv, NEW r \in Req, NEW q \in Req, q # r,
         NEW pc \in {"switch", "activate"}, Runs(r, pc)
  PROVE  req[q].pc \notin {"switch", "activate"}
<1>1. CASE pc = "activate"
  BY <1>1 DEF ServingInv, Alone, Runs, Activating
<1>2. CASE pc = "switch"
  <2>1. req[q].pc \notin Advanced
    BY <1>2, OneRuns DEF ServingInv, HistoryInv, Publishing
  <2>2. req[q].pc \notin Activating
    BY <1>2 DEF ServingInv, Alone, Runs
  <2> QED
    BY <2>1, <2>2 DEF Advanced, Publishing, Activating
<1> QED
  BY <1>1, <1>2

\* What is served stays so, while activations come alone.
LEMMA ServingKept ==
  ASSUME NEW i, Isolate = {i}, Activates # "any"
  PROVE  ServingInv /\ [Next]_vars => ServingInv'
<1> SUFFICES ASSUME ServingInv, [Next]_vars PROVE ServingInv'
  OBVIOUS
<1>0. /\ Lines /\ StoreTyped /\ HistoryInv' /\ Alone' /\ HistoryInv /\ Alone
      /\ \A r \in Req : req[r] \in Request /\ Serving(r)
  BY HistoryKept, AloneKept DEF ServingInv, HistoryInv, Lines, ReqTyped
<1>1. ASSUME NEW r \in Req, \/ Check(r) \/ (\E t \in Target : Probe(r, t)) \/ Put(r)
                            \/ ReadBack(r) \/ Candidate(r) \/ Finish(r) \/ Fails(r)
      PROVE  \A q \in Req : Serving(q)'
  BY <1>0, <1>1, Elsewhere, ServesOn DEF Serving
<1>2. ASSUME NEW r \in Req, Recheck(r) PROVE \A q \in Req : Serving(q)'
  <2>1. CASE NotNewer(r, "STALE_REVISION")
    <3>1. req'[r].pc = "idle" /\ (\A q \in Req \ {r} : req'[q] = req[q])
          /\ UNCHANGED <<current, publication>>
      BY <1>0, <2>1, Answered DEF NotNewer, kv
    <3> QED
      BY <3>1, ServesOn DEF Serving
  <2>2. CASE /\ publication.rev < req[r].rev
             /\ Set(r, [req[r] EXCEPT !.pc = "switch", !.todo = Targets(r)]) /\ UNCHANGED kv
    <3>1. /\ req'[r].pc = "switch" /\ req'[r].todo = Targets(r) /\ req'[r].rev = req[r].rev
          /\ req'[r].body = req[r].body /\ \A q \in Req \ {r} : req'[q] = req[q]
      <4> DEFINE x == [req[r] EXCEPT !.pc = "switch", !.todo = Targets(r)]
      <4>1. req'[r] = x /\ \A q \in Req \ {r} : req'[q] = req[q]
        BY <1>0, <2>2, WentOn
      <4>2. x.pc = "switch" /\ x.todo = Targets(r) /\ x.rev = req[r].rev /\ x.body = req[r].body
        BY <1>0 DEF Request
      <4> HIDE DEF x
      <4> QED
        BY <4>1, <4>2
    <3>2. UNCHANGED <<current, publication>>
      BY <2>2 DEF kv
    <3>3. Serving(r)'
      BY <2>2, <3>1, <3>2 DEF Serving, Targets
    <3> QED
      BY <3>1, <3>2, <3>3, ServesOn
  <2> QED
    BY <1>2, <2>1, <2>2 DEF Recheck
<1>3. ASSUME NEW r \in Req, NEW t \in Target, Switch(r, t) PROVE \A q \in Req : Serving(q)'
  <2>1. /\ req'[r].pc = "switch" /\ req'[r].todo = req[r].todo \ {t} /\ req'[r].rev = req[r].rev
        /\ req'[r].body = req[r].body /\ (\A q \in Req \ {r} : req'[q] = req[q])
        /\ UNCHANGED publication /\ current' = [current EXCEPT ![t] = revision[req[r].rev][t]]
        /\ Runs(r, "switch")
    BY <1>0, <1>3, WentBy DEF Switch, Runs
  <2>2. /\ req[r].rev \in Rev /\ req[r].body \in Body /\ Stored(r, Targets(r)) /\ req[r].pc = "switch"
        /\ Targets(r) \subseteq Target /\ current \in [Target -> Record]
    BY <1>0, <2>1, EveryContent DEF HistoryInv, Consistent, Progress, Lines, ReqTyped,
       Filled, Publishing, Runs, Targets, StoreTyped
  <2>3. t \in Targets(r) => revision[req[r].rev][t].rev = req[r].rev
    BY <2>2, Recorded DEF Stored, Payload
  <2>4. Serving(r)'
    BY <1>0, <2>1, <2>2, <2>3 DEF Serving, Targets
  <2>5. ASSUME NEW q \in Req, q # r PROVE Serving(q)'
    BY <2>1, <2>5, OnlyOne DEF Serving
  <2> QED
    BY <2>4, <2>5
<1>4. ASSUME NEW r \in Req, Commit(r) PROVE \A q \in Req : Serving(q)'
  <2>1. req'[r].pc = "active" /\ (\A q \in Req \ {r} : req'[q] = req[q]) /\ Runs(r, "switch")
    BY <1>0, <1>4, WentTo DEF Commit
  <2>2. ASSUME NEW q \in Req, q # r PROVE Serving(q)'
    BY <2>1, <2>2, OnlyOne DEF Serving
  <2> QED
    BY <2>1, <2>2 DEF Serving
<1>5. ASSUME NEW r \in Req, Resolve(r) PROVE \A q \in Req : Serving(q)'
  <2> DEFINE v == req[r].rev
             got == [t \in Target |-> IF t \in Resolved(v) THEN revision[v][t] ELSE NoRecord]
             x == [req[r] EXCEPT !.pc = "activate", !.todo = Resolved(v), !.got = got]
  <2>0. UNCHANGED <<current, publication>> /\ v \in Rev
    BY <1>0, <1>5 DEF Resolve, kv, Runs, Lines, ReqTyped, Filled
  <2>1. CASE \E a : Answer(r, a)
    <3>1. req'[r].pc = "idle" /\ \A q \in Req \ {r} : req'[q] = req[q]
      BY <1>0, <2>1, Answered
    <3> QED
      BY <2>0, <3>1, ServesOn DEF Serving
  <2>2. CASE Set(r, x)
    <3>1. req'[r] = x /\ \A q \in Req \ {r} : req'[q] = req[q]
      BY <1>0, <2>2, WentOn
    <3>2. x.pc = "activate" /\ x.todo = Resolved(v) /\ x.got = got /\ x.rev = v
      BY <1>0 DEF Request
    <3>3. ASSUME NEW t \in Target
          PROVE  got[t] = NoRecord \/ (got[t].rev = v /\ t \in Resolved(v))
      BY <1>0, <2>0, Recorded DEF HistoryInv, Consistent, Records
    <3> HIDE DEF x, got
    <3>4. Serving(r)'
      BY <3>1, <3>2, <3>3 DEF Serving
    <3> QED
      BY <2>0, <3>1, <3>4, ServesOn
  <2> QED
    BY <1>5, <2>1, <2>2 DEF Resolve
<1>6. ASSUME NEW r \in Req, NEW t \in Target, ActivateTarget(r, t)
      PROVE  \A q \in Req : Serving(q)'
  <2>1. /\ req'[r].pc = "activate" /\ req'[r].todo = req[r].todo \ {t} /\ req'[r].rev = req[r].rev
        /\ req'[r].got = req[r].got /\ (\A q \in Req \ {r} : req'[q] = req[q])
        /\ UNCHANGED publication /\ current' = [current EXCEPT ![t] = req[r].got[t]]
        /\ Runs(r, "activate")
    BY <1>0, <1>6, WentBy DEF ActivateTarget, Runs
  <2>2. current \in [Target -> Record]
    BY <1>0 DEF StoreTyped
  <2>3. Serving(r)'
    BY <1>0, <2>1, <2>2 DEF Serving, Runs
  <2>4. ASSUME NEW q \in Req, q # r PROVE Serving(q)'
    BY <2>1, <2>4, OnlyOne DEF Serving
  <2> QED
    BY <2>3, <2>4
<1>7. ASSUME NEW r \in Req, Activate(r) PROVE \A q \in Req : Serving(q)'
  <2>1. req'[r].pc = "idle" /\ (\A q \in Req \ {r} : req'[q] = req[q]) /\ Runs(r, "activate")
    BY <1>0, <1>7, Answered DEF Activate
  <2>2. ASSUME NEW q \in Req, q # r PROVE Serving(q)'
    BY <2>1, <2>2, OnlyOne DEF Serving
  <2> QED
    BY <2>1, <2>2 DEF Serving
<1>8. ASSUME NEW r \in Req, Arrives(r) PROVE \A q \in Req : Serving(q)'
  <2>1. /\ req'[r].pc \in {"check", "resolve"} /\ UNCHANGED <<current, publication>>
        /\ \A q \in Req \ {r} : req'[q] = req[q]
    BY <1>0, <1>8, Arrived DEF kv
  <2> QED
    BY <2>1, ServesOn DEF Serving
<1>9. ASSUME NEW j \in Isolate, Evict(j) PROVE \A q \in Req : Serving(q)'
  <2>1. (\A q \in Req : req'[q] = req[q] \/ req'[q].pc = "idle") /\ UNCHANGED <<current, publication>>
    BY <1>9, EmptyTyped DEF Evict, kv
  <2> QED
    BY <1>0, <2>1 DEF Serving, Targets
<1>10. ASSUME UNCHANGED vars PROVE \A q \in Req : Serving(q)'
  BY <1>0, <1>10 DEF vars, Serving, Targets
<1> QED
  <2>1. \A q \in Req : Serving(q)'
    BY <1>1, <1>2, <1>3, <1>4, <1>5, <1>6, <1>7, <1>8, <1>9, <1>10 DEF Next, Step
  <2> QED
    BY <1>0, <2>1 DEF ServingInv

\* With one isolate and activations that come alone, it is always so.
LEMMA ServingAlways ==
  ASSUME NEW i, Isolate = {i}, Activates # "any"
  PROVE  Spec => []ServingInv
<1>1. Init => ServingInv
  BY InitHistory, EmptyTyped DEF Init, ServingInv, Alone, Serving, Activating
<1>2. ServingInv /\ [Next]_vars => ServingInv'
  BY ServingKept
<1> QED
  BY <1>1, <1>2, PTL DEF Spec

\* Only a switch that is through and an activation that is change the current
\* publication.
LEMMA NewlyCurrent ==
  ASSUME ServingInv, [Next]_vars, publication' # publication
  PROVE  \E r \in Req :
           /\ \/ Commit(r) /\ publication'.rev > publication.rev
              \/ Activate(r) /\ req[r].pc = "activate" /\ req'[r].pc = "idle"
           /\ \A t \in publication'.targets : current'[t].rev = publication'.rev
<1>1. PICK r \in Req : Commit(r) \/ Activate(r)
  BY DEF Next, Step, Check, NotNewer, Probe, Put, ReadBack, Candidate, Recheck, Switch,
     Finish, Resolve, ActivateTarget, Fails, Evict, Arrives, ActivateArrives,
     PublishArrives, vars, kv
<1>2. /\ UNCHANGED current /\ publication'.rev = req[r].rev /\ req[r].rev \in Rev
      /\ Serving(r) /\ publication.rev \in 0..MaxRev
  BY <1>1, ShownIsComplete DEF ServingInv, Commit, Activate, HistoryInv, StoreTyped
<1>3. CASE Commit(r)
  <2>1. /\ req[r].pc = "switch" /\ req[r].todo = {} /\ publication'.targets = Targets(r)
    BY <1>3 DEF Commit, Runs
  <2>2. publication'.rev > publication.rev
    BY <1>2, <2>1, RequestAssumption DEF Serving, Rev
  <2>3. \A t \in publication'.targets : current'[t].rev = publication'.rev
    BY <1>2, <2>1 DEF Serving
  <2> QED
    BY <1>3, <2>2, <2>3
<1>4. CASE Activate(r)
  <2>1. /\ req[r].pc = "activate" /\ req[r].todo = {}
        /\ publication'.targets = {t \in Target : req[r].got[t] # NoRecord}
    BY <1>4 DEF Activate, Runs
  <2>2. req'[r].pc = "idle"
    BY <1>4, Answered DEF Activate, ServingInv, HistoryInv
  <2>3. \A t \in publication'.targets : current'[t].rev = publication'.rev
    BY <1>2, <2>1 DEF Serving
  <2> QED
    BY <1>4, <2>1, <2>2, <2>3
<1> QED
  BY <1>1, <1>3, <1>4

\* With one isolate and activations that come alone, every target a new current
\* publication lists is served from it when it becomes current.
THEOREM SwitchesAreWhole ==
  ASSUME NEW i, Isolate = {i}, Activates # "any"
  PROVE  Spec => SwitchIsWhole
<1>1. ServingInv /\ [Next]_vars =>
        (publication' # publication => \A t \in publication'.targets : current'[t].rev = publication'.rev)
  BY NewlyCurrent
<1>2. Spec => []ServingInv
  BY ServingAlways
<1> QED
  BY <1>1, <1>2, PTL DEF Spec, SwitchIsWhole

\* With one isolate and activations that come alone, only an activation makes
\* an older publication current: the STALE_REVISION checks hold the others.
THEOREM OnlyForward ==
  ASSUME NEW i, Isolate = {i}, Activates # "any"
  PROVE  Spec => ForwardOnly
<1>1. ServingInv /\ [Next]_vars =>
        (publication'.rev < publication.rev =>
           \E r \in Req : req[r].pc = "activate" /\ req'[r].pc = "idle")
  <2> SUFFICES ASSUME ServingInv, [Next]_vars, publication'.rev < publication.rev
               PROVE  \E r \in Req : req[r].pc = "activate" /\ req'[r].pc = "idle"
    OBVIOUS
  <2>1. publication'.rev \in 0..MaxRev /\ publication.rev \in 0..MaxRev
    BY StoreKept DEF ServingInv, HistoryInv, StoreTyped
  <2>2. ~(publication'.rev > publication.rev) /\ publication' # publication
    BY <2>1, RequestAssumption
  <2> QED
    BY <2>2, NewlyCurrent
<1>2. Spec => []ServingInv
  BY ServingAlways
<1> QED
  BY <1>1, <1>2, PTL DEF Spec, ForwardOnly

=============================================================================
