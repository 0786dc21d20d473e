---------------------------- MODULE ReadTokenProofs ----------------------------
(***************************************************************************)
(* Proofs about ReadToken, for any number of tokens, of commands that run  *)
(* together and of requests in the Worker, which break off and go on       *)
(* without their commands anywhere.                                        *)
(***************************************************************************)
EXTENDS ReadToken, TLAPS

Answer   == {"ROTATED", "REVOKED", "ERROR"}
ReqLabel == {"idle", "lookup", "marker", "overlap", "mark", "current", "delete",
             "previous", "forget"} \cup Answer
Request  == [pc : ReqLabel, op : {"rotate", "revoke"}, token : Token \cup {Nothing},
             overlap : BOOLEAN, seen : Token \cup {Nothing}]
Command  == [pc : {"idle", "send", "wait", "persist"}, op : {"rotate", "revoke"},
             token : Token \cup {Nothing}, overlap : BOOLEAN, at : Slot \cup {NoSlot}]

\* The types, of the Worker's store, of the node and of who is between them.
StoreTyped ==
  /\ hash \in Token \cup {Nothing} /\ initialized \in BOOLEAN
  /\ previous \in [token : Token \cup {Nothing}, live : BOOLEAN]
  /\ previous.live => previous.token \in Token
NodeTyped ==
  /\ secrets \in 1..issued /\ issued \in Token
  /\ files \subseteq 1..issued /\ revoked \subseteq 1..issued
ActorsTyped ==
  /\ req \in [Slot -> Request] /\ proc \in [Proc -> Command]
  /\ \A p \in Proc : proc[p].pc # "idle" => proc[p].token \in 1..issued
  /\ \A p \in Proc : proc[p].pc = "wait" => proc[p].at \in Slot
  /\ \A r \in Slot : Working(r) => req[r].token \in 1..issued

HistoryTyped == crossed \subseteq {"rotate", "revoke"} \X (1..issued)

Typed == StoreTyped /\ NodeTyped /\ ActorsTyped /\ HistoryTyped

-----------------------------------------------------------------------------
(* Types.                                                                  *)

\* Tokens are numbers; none is no token.
LEMMA Tokens == Token \subseteq Nat /\ Initial \in Token /\ Nothing \notin Token
  /\ Initial # Nothing
  BY TokenAssumption DEF Token, Initial, Nothing

\* The token that is current is one, or none is.
LEMMA CurrentTyped == StoreTyped => Current \in Token \cup {Nothing}
  BY Tokens DEF StoreTyped, Current

\* A step of the Worker keeps its store's type.
LEMMA StoreKept == Typed /\ [Next]_vars => StoreTyped'
<1> SUFFICES ASSUME Typed, [Next]_vars PROVE StoreTyped'
  OBVIOUS
<1>0. StoreTyped /\ req \in [Slot -> Request]
  BY DEF Typed, ActorsTyped
<1> USE <1>0 DEF StoreTyped, remote
<1>1. ASSUME NEW r \in Slot, Overlap(r) PROVE StoreTyped'
  <2>1. req[r].seen \in Token \cup {Nothing}
    BY DEF Request
  <2>2. Kept(r) \in [token : Token \cup {Nothing}, live : BOOLEAN]
    BY <2>1 DEF Kept, Forgotten
  <2>3. Kept(r).live => Kept(r).token \in Token
    BY <2>1 DEF Kept, Forgotten
  <2> QED
    BY <1>1, <2>2, <2>3 DEF Overlap
<1>2. ASSUME NEW r \in Slot, Mark(r) PROVE StoreTyped'
  BY <1>2 DEF Mark
<1>3. ASSUME NEW r \in Slot, Rotate(r) PROVE StoreTyped'
  BY <1>3 DEF Rotate, NewToken, Request
<1>4. ASSUME NEW r \in Slot, Delete(r) PROVE StoreTyped'
  BY <1>4 DEF Delete
<1>5. ASSUME NEW r \in Slot, Forget(r) PROVE StoreTyped'
  BY <1>5 DEF Forget, Forgotten
<1>6. ASSUME NEW r \in Slot, Lookup(r) \/ Marker(r) \/ LookupPrevious(r) \/ Breaks(r) \/ Drop(r)
      PROVE  StoreTyped'
  BY <1>6 DEF Lookup, Marker, LookupPrevious, Breaks, Seen, Drop
<1>7. ASSUME NEW p \in Proc, Run(p) PROVE StoreTyped'
  BY <1>7 DEF Run, StartRotate, StartRevoke, Send, Receive, Lost, Persist,
     PersistFails, Killed, GivesUp, Becomes
<1>8. CASE Expire
  BY <1>8 DEF Expire
<1>9. CASE UNCHANGED vars
  BY <1>9 DEF vars
<1> QED
  BY <1>1, <1>2, <1>3, <1>4, <1>5, <1>6, <1>7, <1>8, <1>9 DEF Next, Serve

\* So does a step of the node for what it keeps.
LEMMA NodeKept == Typed /\ [Next]_vars => NodeTyped'
<1> SUFFICES ASSUME Typed, [Next]_vars PROVE NodeTyped'
  OBVIOUS
<1>0. NodeTyped /\ \A p \in Proc : proc[p].pc # "idle" => proc[p].token \in 1..issued
  BY DEF Typed, ActorsTyped
<1> USE <1>0, TokenAssumption DEF NodeTyped, local, Token
<1>1. ASSUME NEW r \in Slot, Serve(r) PROVE NodeTyped'
  BY <1>1 DEF Serve, Lookup, Marker, Overlap, Mark, Rotate, Delete, LookupPrevious,
     Forget, Breaks, Drop, Seen, Goto, Reply
<1>2. ASSUME NEW p \in Proc, NEW overlap, StartRotate(p, overlap) PROVE NodeTyped'
  BY <1>2 DEF StartRotate
<1>3. ASSUME NEW p \in Proc, Lost(p) PROVE NodeTyped'
  BY <1>3 DEF Lost, GivesUp
<1>4. ASSUME NEW p \in Proc, NEW r \in Slot, Receive(p, r) PROVE NodeTyped'
  BY <1>4 DEF Receive, GivesUp
<1>5. ASSUME NEW p \in Proc, Persist(p) PROVE NodeTyped'
  BY <1>5 DEF Persist
<1>6. ASSUME NEW p \in Proc, PersistFails(p) \/ Killed(p) \/ \E r \in Slot : Send(p, r)
      PROVE NodeTyped'
  BY <1>6 DEF PersistFails, Killed, Send
<1>7. ASSUME NEW p \in Proc, NEW t, StartRevoke(p, t) PROVE NodeTyped'
  BY <1>7 DEF StartRevoke
<1>8. CASE Expire
  BY <1>8 DEF Expire
<1>9. CASE UNCHANGED vars
  BY <1>9 DEF vars
<1> QED
  BY <1>1, <1>2, <1>3, <1>4, <1>5, <1>6, <1>7, <1>8, <1>9 DEF Next, Run

\* What a step of a request does to it; another request, the node and the
\* history are left alone.
LEMMA Goes ==
  ASSUME req \in [Slot -> Request], NEW r \in Slot, NEW pc, Goto(r, pc)
  PROVE  /\ UNCHANGED <<local, proc, crossed>>
         /\ \A s \in Slot : s # r => req'[s] = req[s]
         /\ req'[r] = [req[r] EXCEPT !.pc = pc]
         /\ req'[r].pc = pc /\ req'[r].op = req[r].op /\ req'[r].token = req[r].token
         /\ req'[r].seen = req[r].seen
  BY DEF Goto, Request

LEMMA Replies ==
  ASSUME req \in [Slot -> Request], NEW r \in Slot, NEW status, Reply(r, status)
  PROVE  /\ UNCHANGED <<local, proc, crossed>>
         /\ \A s \in Slot : s # r => req'[s] = req[s]
         /\ req'[r] = [NoRequest EXCEPT !.pc = status] /\ req'[r].pc = status
  BY DEF Reply, NoRequest

LEMMA Sees ==
  ASSUME req \in [Slot -> Request], NEW r \in Slot, NEW t, Seen(r, t)
  PROVE  /\ UNCHANGED <<remote, local, proc, crossed>>
         /\ \A s \in Slot : s # r => req'[s] = req[s]
         /\ req'[r].pc = IF req[r].op = "rotate" THEN "overlap"
                         ELSE IF t = req[r].token THEN "mark" ELSE "previous"
         /\ req'[r] = [req[r] EXCEPT !.seen = t, !.pc = req'[r].pc]
         /\ req'[r].op = req[r].op /\ req'[r].token = req[r].token /\ req'[r].seen = t
  BY DEF Seen, Request

\* What a request may do, and what is left of it.
LEMMA ServeOnly ==
  ASSUME Typed, NEW r \in Slot, Serve(r)
  PROVE  /\ UNCHANGED <<local, proc, crossed>>
         /\ \A s \in Slot : s # r => req'[s] = req[s]
         /\ req' \in [Slot -> Request]
         /\ Working(r) \/ (Drop(r) /\ UNCHANGED remote /\ req'[r].pc = "idle")
         /\ req'[r].pc = "idle" => Drop(r)
         /\ Working(r)' => /\ Working(r) /\ req'[r].op = req[r].op
                           /\ req'[r].token = req[r].token
<1>0. req \in [Slot -> Request] /\ StoreTyped /\ req[r] \in Request
  BY DEF Typed, ActorsTyped
<1>a. \A status \in Answer \cup {"idle"} : [NoRequest EXCEPT !.pc = status] \in Request
  BY DEF NoRequest, Request, ReqLabel
<1> DEFINE Others == \A s \in Slot : s # r => req'[s] = req[s]
<1>b. ASSUME req'[r] \in Request, Others, \E x : req' = [req EXCEPT ![r] = x]
      PROVE  req' \in [Slot -> Request]
  BY <1>0, <1>b
<1>1. ASSUME NEW pc \in ReqLabel \ ({"idle"} \cup Answer), Goto(r, pc), Working(r)
      PROVE  /\ UNCHANGED <<local, proc, crossed>> /\ Others
             /\ req' \in [Slot -> Request] /\ Working(r) /\ req'[r].pc # "idle"
             /\ req'[r].op = req[r].op /\ req'[r].token = req[r].token
  <2>1. [req[r] EXCEPT !.pc = pc] \in Request
    BY <1>0 DEF Request
  <2>2. req'[r] \in Request /\ \E x : req' = [req EXCEPT ![r] = x]
    BY <1>0, <1>1, <2>1, Goes DEF Goto
  <2>3. /\ UNCHANGED <<local, proc, crossed>> /\ Others /\ req'[r].pc # "idle"
        /\ req'[r].op = req[r].op /\ req'[r].token = req[r].token
    <3>1. /\ UNCHANGED <<local, proc, crossed>> /\ Others /\ req'[r].pc = pc
          /\ req'[r].op = req[r].op /\ req'[r].token = req[r].token
      BY <1>0, <1>1, Goes
    <3> QED
      BY <1>1, <3>1
  <2>4. req' \in [Slot -> Request]
    BY <1>b, <2>2, <2>3
  <2> QED
    BY <1>1, <2>3, <2>4
<1>2. ASSUME NEW status \in Answer, Reply(r, status), Working(r)
      PROVE  /\ UNCHANGED <<local, proc, crossed>> /\ Others
             /\ req' \in [Slot -> Request] /\ req'[r].pc # "idle" /\ ~Working(r)'
  <2>1. req'[r] \in Request /\ \E x : req' = [req EXCEPT ![r] = x]
    BY <1>0, <1>2, <1>a, Replies DEF Reply
  <2> QED
    BY <1>0, <1>2, <1>b, <2>1, Replies DEF Working, Answer
<1>3. ASSUME NEW t \in Token \cup {Nothing}, Seen(r, t), Working(r)
      PROVE  /\ UNCHANGED <<local, proc, crossed>> /\ Others
             /\ req' \in [Slot -> Request] /\ Working(r) /\ req'[r].pc # "idle"
             /\ req'[r].op = req[r].op /\ req'[r].token = req[r].token
  <2>1. req'[r].pc \in ReqLabel /\ req'[r].pc # "idle"
    BY <1>0, <1>3, Sees DEF ReqLabel
  <2>2. req'[r] \in Request
    <3> DEFINE pc == req'[r].pc
    <3>1. [req[r] EXCEPT !.seen = t, !.pc = pc] \in Request
      <4> HIDE DEF pc
      <4> QED
        BY <1>0, <1>3, <2>1 DEF Request, pc
    <3> QED
      BY <1>0, <1>3, <3>1, Sees
  <2>3. \E x : req' = [req EXCEPT ![r] = x]
    BY <1>3 DEF Seen
  <2> QED
    BY <1>0, <1>3, <1>b, <2>1, <2>2, <2>3, Sees
<1> HIDE DEF Others
<1>4. CASE Lookup(r) \/ Marker(r)
  <2>1. Working(r)
    BY <1>4 DEF Lookup, Marker, Working
  <2>2. Goto(r, "marker") \/ \E t \in Token \cup {Nothing} : Seen(r, t)
    BY <1>0, <1>4, Tokens DEF Lookup, Marker, StoreTyped
  <2> QED
    BY <1>1, <1>3, <2>1, <2>2 DEF Others, ReqLabel, Answer
<1>5. CASE Overlap(r) \/ Mark(r) \/ Delete(r)
  <2>1. Working(r) /\ \E pc \in {"mark", "current", "delete", "previous"} : Goto(r, pc)
    BY <1>5 DEF Overlap, Mark, Delete, Working
  <2> QED
    BY <1>1, <2>1 DEF Others, ReqLabel, Answer
<1>6. CASE LookupPrevious(r) \/ Forget(r) \/ Breaks(r) \/ Rotate(r)
  <2>1. /\ Working(r)
        /\ Goto(r, "forget") \/ \E status \in Answer : Reply(r, status)
    BY <1>6 DEF LookupPrevious, Forget, Breaks, Rotate, Working, Answer
  <2> QED
    BY <1>1, <1>2, <2>1 DEF Others, ReqLabel, Answer
<1>7. CASE Drop(r)
  <2>1. NoRequest \in Request /\ NoRequest.pc = "idle"
    BY DEF NoRequest, Request, ReqLabel
  <2>2. req' = [req EXCEPT ![r] = NoRequest] /\ UNCHANGED <<remote, local, proc, crossed>>
    BY <1>7 DEF Drop
  <2>3. req'[r] = NoRequest /\ Others /\ req' \in [Slot -> Request]
    BY <1>0, <2>1, <2>2 DEF Others
  <2> QED
    BY <1>7, <2>1, <2>2, <2>3 DEF Others, Working
<1> QED
  BY <1>4, <1>5, <1>6, <1>7 DEF Serve

\* So does a step of either for requests and commands.
LEMMA ActorsKept == Typed /\ [Next]_vars => ActorsTyped'
<1> SUFFICES ASSUME Typed, [Next]_vars PROVE ActorsTyped'
  OBVIOUS
<1>0. StoreTyped /\ NodeTyped /\ ActorsTyped
  BY DEF Typed
<1>a. issued \in Nat /\ 1..issued \subseteq Token
  BY <1>0, TokenAssumption DEF NodeTyped, Token
<1>b. /\ \A p \in Proc : proc[p] \in Command
      /\ \A r \in Slot : req[r] \in Request
      /\ proc \in [Proc -> Command] /\ req \in [Slot -> Request]
  BY <1>0 DEF ActorsTyped
<1>1. ASSUME NEW r \in Slot, Serve(r) PROVE ActorsTyped'
  <2>1. /\ UNCHANGED <<local, proc, crossed>> /\ req' \in [Slot -> Request]
        /\ \A s \in Slot : s # r => req'[s] = req[s]
        /\ Working(r)' => Working(r) /\ req'[r].token = req[r].token
    BY <1>1, ServeOnly
  <2>2. ASSUME NEW s \in Slot, Working(s)' PROVE req'[s].token \in 1..issued
    BY <1>0, <2>1, <2>2 DEF ActorsTyped, Working
  <2> QED
    BY <1>0, <2>1, <2>2 DEF ActorsTyped, local
\* A command changes, and at most one request with it.
<1>2. ASSUME NEW p \in Proc, NEW c \in Command, proc' = [proc EXCEPT ![p] = c],
             c.pc # "idle" => c.token \in 1..issued', c.pc = "wait" => c.at \in Slot,
             1..issued \subseteq 1..issued', req' \in [Slot -> Request],
             \A r \in Slot : Working(r)' => req'[r].token \in 1..issued'
      PROVE  ActorsTyped'
  <2>1. proc' \in [Proc -> Command] /\ \A q \in Proc : proc'[q] = IF q = p THEN c ELSE proc[q]
    BY <1>b, <1>2
  <2> QED
    BY <1>0, <1>2, <2>1 DEF ActorsTyped
<1>3. \A r \in Slot : Working(r) => req[r].token \in 1..issued
  BY <1>0 DEF ActorsTyped
<1>4. NoCommand \in Command /\ NoCommand.pc = "idle"
  BY DEF NoCommand, Command
<1>5. ASSUME NEW p \in Proc, NEW overlap \in Overlaps, StartRotate(p, overlap)
      PROVE  ActorsTyped'
  <2> DEFINE c == [NoCommand EXCEPT !.pc = "send", !.token = issued + 1,
                                    !.overlap = overlap]
  <2>1. issued' = issued + 1 /\ proc' = [proc EXCEPT ![p] = c] /\ req' = req
          /\ issued < MaxToken
    BY <1>5 DEF StartRotate, Becomes
  <2>2. issued + 1 \in Token \cup {Nothing} /\ issued + 1 \in 1..issued'
          /\ 1..issued \subseteq 1..issued'
    BY <1>0, <2>1, TokenAssumption DEF NodeTyped, Token
  <2>3. c \in Command /\ c.token = issued + 1 /\ c.pc = "send"
    BY <2>2, TokenAssumption DEF Command, NoCommand
  <2>4. \A r \in Slot : Working(r)' => req'[r].token \in 1..issued'
    BY <1>3, <2>1, <2>2 DEF Working
  <2> HIDE DEF c
  <2> QED
    BY <1>2, <1>b, <2>1, <2>2, <2>3, <2>4
<1>6. ASSUME NEW p \in Proc, NEW t \in files, StartRevoke(p, t) PROVE ActorsTyped'
  <2> DEFINE c == [NoCommand EXCEPT !.pc = "send", !.op = "revoke", !.token = t]
  <2>1. t \in 1..issued
    BY <1>0, <1>6 DEF NodeTyped
  <2>2. c \in Command /\ c.token = t /\ c.pc = "send"
    BY <1>a, <2>1 DEF Command, NoCommand
  <2>3. proc' = [proc EXCEPT ![p] = c] /\ req' = req /\ issued' = issued
    BY <1>6 DEF StartRevoke, Becomes, local
  <2>4. \A r \in Slot : Working(r)' => req'[r].token \in 1..issued'
    BY <1>3, <2>3 DEF Working
  <2> HIDE DEF c
  <2> QED
    BY <1>2, <1>b, <2>1, <2>2, <2>3, <2>4
<1>7. ASSUME NEW p \in Proc, NEW r \in Slot, Send(p, r) PROVE ActorsTyped'
  <2> DEFINE x == [pc |-> "lookup", op |-> proc[p].op, token |-> proc[p].token,
                   overlap |-> proc[p].overlap, seen |-> Nothing]
             c == [proc[p] EXCEPT !.pc = "wait", !.at = r]
  <2>1. /\ req' = [req EXCEPT ![r] = x] /\ proc' = [proc EXCEPT ![p] = c]
        /\ issued' = issued /\ proc[p].pc = "send"
    BY <1>7 DEF Send, Becomes, local
  <2>2. x \in Request /\ c \in Command /\ c.token = proc[p].token /\ c.at = r
          /\ x.token = proc[p].token
    BY <1>b DEF Command, Request, ReqLabel
  <2>3. proc[p].token \in 1..issued
    BY <1>0, <2>1 DEF ActorsTyped
  <2> HIDE DEF x, c
  <2>4. req' \in [Slot -> Request]
    BY <1>b, <2>1, <2>2
  <2>5. ASSUME NEW s \in Slot, Working(s)' PROVE req'[s].token \in 1..issued'
    <3>1. CASE s = r
      BY <1>b, <2>1, <2>2, <2>3, <3>1
    <3>2. CASE s # r
      BY <1>3, <1>b, <2>1, <2>5, <3>2 DEF Working
    <3> QED
      BY <3>1, <3>2
  <2> QED
    BY <1>2, <2>1, <2>2, <2>3, <2>4, <2>5
<1>8. ASSUME NEW p \in Proc, Becomes(p, NoCommand), issued' = issued,
             req' \in [Slot -> Request],
             \A r \in Slot : Working(r)' => req'[r].token \in 1..issued'
      PROVE  ActorsTyped'
  BY <1>2, <1>4, <1>8 DEF Becomes
<1>9. ASSUME NEW p \in Proc, Becomes(p, NoCommand), issued' = issued, req' = req
      PROVE  ActorsTyped'
  <2>1. \A r \in Slot : Working(r)' => req'[r].token \in 1..issued'
    BY <1>3, <1>9 DEF Working
  <2> QED
    BY <1>8, <1>9, <1>b, <2>1
<1>10. ASSUME NEW p \in Proc, NEW r \in Slot, Receive(p, r) PROVE ActorsTyped'
  <2>1. NoRequest \in Request /\ NoRequest.pc = "idle"
    BY DEF NoRequest, Request, ReqLabel
  <2>2. /\ req' = [req EXCEPT ![r] = NoRequest] /\ issued' = issued
        /\ proc[p].pc = "wait"
    BY <1>10 DEF Receive, GivesUp, local
  <2>3. req' \in [Slot -> Request]
    BY <1>b, <2>1, <2>2
  <2>4. \A s \in Slot : Working(s)' => req'[s].token \in 1..issued'
    BY <1>3, <1>b, <2>1, <2>2 DEF Working
  <2>5. CASE Becomes(p, [proc[p] EXCEPT !.pc = "persist"])
    <3> DEFINE c == [proc[p] EXCEPT !.pc = "persist"]
    <3>1. c \in Command /\ c.token = proc[p].token /\ c.pc = "persist"
      BY <1>b DEF Command
    <3>2. proc[p].token \in 1..issued /\ proc' = [proc EXCEPT ![p] = c]
      BY <1>0, <2>2, <2>5 DEF ActorsTyped, Becomes
    <3> HIDE DEF c
    <3> QED
      BY <1>2, <2>2, <2>3, <2>4, <3>1, <3>2
  <2> QED
    BY <1>8, <1>10, <2>2, <2>3, <2>4, <2>5 DEF Receive, GivesUp
<1>11. ASSUME NEW p \in Proc, Lost(p) \/ Persist(p) \/ PersistFails(p) \/ Killed(p)
       PROVE ActorsTyped'
  BY <1>9, <1>11 DEF Lost, GivesUp, Persist, PersistFails, Killed, local
<1>12. CASE Expire \/ UNCHANGED vars
  BY <1>0, <1>12 DEF Expire, vars, local, ActorsTyped, Working
<1> QED
  BY <1>1, <1>5, <1>6, <1>7, <1>10, <1>11, <1>12 DEF Next, Run

\* What meets is what has begun.
LEMMA HistoryKept == Typed /\ [Next]_vars => HistoryTyped'
<1> SUFFICES ASSUME Typed, [Next]_vars PROVE HistoryTyped'
  OBVIOUS
<1>0. NodeTyped /\ ActorsTyped /\ HistoryTyped
  BY DEF Typed
<1>a. issued \in Nat
  BY <1>0, TokenAssumption DEF NodeTyped, Token
<1>1. UnderWay \subseteq {"rotate", "revoke"} \X (1..issued)
  BY <1>0 DEF UnderWay, ActorsTyped, Request, Command
<1>2. ASSUME NEW p \in Proc, NEW overlap \in Overlaps, StartRotate(p, overlap)
      PROVE  HistoryTyped'
  <2>1. issued' = issued + 1 /\ crossed' \subseteq crossed \cup UnderWay \cup {<<"rotate", issued + 1>>}
    BY <1>2 DEF StartRotate, Meets
  <2>2. 1..issued \subseteq 1..issued' /\ issued + 1 \in 1..issued'
    BY <1>a, <2>1
  <2> QED
    BY <1>0, <1>1, <2>1, <2>2 DEF HistoryTyped
<1>3. ASSUME NEW p \in Proc, NEW t \in files, StartRevoke(p, t) PROVE HistoryTyped'
  <2>1. issued' = issued /\ crossed' \subseteq crossed \cup UnderWay \cup {<<"revoke", t>>}
    BY <1>3 DEF StartRevoke, Meets, local
  <2>2. t \in 1..issued
    BY <1>0, <1>3 DEF NodeTyped
  <2> QED
    BY <1>0, <1>1, <2>1, <2>2 DEF HistoryTyped
<1>4. ASSUME NEW r \in Slot, Serve(r) PROVE HistoryTyped'
  BY <1>0, <1>4, ServeOnly DEF HistoryTyped, local
<1>5. ASSUME NEW p \in Proc,
             \/ \E r \in Slot : Send(p, r) \/ Receive(p, r)
             \/ Lost(p) \/ Persist(p) \/ PersistFails(p) \/ Killed(p)
      PROVE HistoryTyped'
  BY <1>0, <1>5 DEF Send, Receive, Lost, GivesUp, Persist, PersistFails, Killed, local,
     HistoryTyped
<1>6. CASE Expire \/ UNCHANGED vars
  BY <1>0, <1>6 DEF Expire, vars, local, HistoryTyped
<1> QED
  BY <1>2, <1>3, <1>4, <1>5, <1>6 DEF Next, Run

LEMMA TypedKept == Typed /\ [Next]_vars => Typed'
  BY StoreKept, NodeKept, ActorsKept, HistoryKept DEF Typed

\* The types hold at first, and every step keeps them.
LEMMA TypedFirst == Init => Typed
<1> SUFFICES ASSUME Init PROVE Typed
  OBVIOUS
<1>1. StoreTyped
  BY Tokens DEF Init, StoreTyped, Forgotten
<1>2. NodeTyped
  BY TokenAssumption DEF Init, NodeTyped, Token, Initial
<1>3. ActorsTyped
  BY DEF Init, ActorsTyped, NoRequest, NoCommand, Request, Command, ReqLabel, Working
<1>4. HistoryTyped
  BY DEF Init, HistoryTyped
<1> QED
  BY <1>1, <1>2, <1>3, <1>4 DEF Typed

LEMMA TypedAlways == Spec => []Typed
<1>1. Init => Typed
  BY TypedFirst
<1>2. Typed /\ [Next]_vars => Typed'
  BY TypedKept
<1> QED
  BY <1>1, <1>2, PTL DEF Spec

\* Every variable keeps its type, however many commands run together: no
\* request or command stores, records or reports what was never issued.
THEOREM TokenTypeCorrect == Spec => []TypeOK
<1>1. Typed => TypeOK
  <2> SUFFICES ASSUME Typed PROVE TypeOK
    OBVIOUS
  <2>1. 1..issued \subseteq Token
    BY TokenAssumption DEF Typed, NodeTyped, Token
  <2> QED
    BY <2>1 DEF Typed, StoreTyped, NodeTyped, ActorsTyped, HistoryTyped, Request, Command,
       TypeOK
<1> QED
  BY TypedAlways, <1>1, PTL
-----------------------------------------------------------------------------
(* Requests, the commands that wait for them, and which met another.       *)

Active(p)   == proc[p].pc # "idle"
Waits(p, r) == proc[p].pc = "wait" /\ proc[p].at = r
Task(p)     == <<proc[p].op, proc[p].token>>
Asked(r)    == <<req[r].op, req[r].token>>

\* A command waits for the request it sent, and nobody else does.
Linked(r) ==
  /\ \A p \in Proc : Waits(p, r) =>
       /\ req[r].pc # "idle"
       /\ Working(r) => Asked(r) = Task(p)
       /\ req[r].pc = "ROTATED" => proc[p].op = "rotate"
       /\ req[r].pc = "REVOKED" => proc[p].op = "revoke"
  /\ \A p, q \in Proc : Waits(p, r) /\ Waits(q, r) => p = q

\* Where a request of either kind can be; the marker comes first.
OnPath(r) ==
  /\ Working(r) /\ req[r].op = "rotate" =>
       req[r].pc \in {"lookup", "marker", "overlap", "mark", "current"}
  /\ Working(r) /\ req[r].op = "revoke" => req[r].pc \notin {"overlap", "current"}
  /\ req[r].pc \in {"current", "delete"} => initialized
Marked == hash # Nothing => initialized

\* What has met nothing is alone: one command, one request, its own.
Solitary ==
  /\ \A p \in Proc : Active(p) /\ Task(p) \notin crossed =>
       /\ \A q \in Proc : Active(q) => q = p
       /\ \A r \in Slot : Working(r) => Waits(p, r)
  /\ \A r \in Slot : Working(r) /\ Asked(r) \notin crossed =>
       /\ \A s \in Slot : Working(s) => s = r
       /\ \A p \in Proc : Active(p) => Waits(p, r)

\* What such a request has found, and what its answer says of the store.
Finds(r) ==
  Working(r) /\ req[r].op = "revoke" /\ Asked(r) \notin crossed =>
    /\ req[r].pc = "marker" => hash = Nothing
    /\ req[r].pc \in {"previous", "forget"} => Current # req[r].token
Tells(r) ==
  \A p \in Proc : Waits(p, r) /\ Task(p) \notin crossed =>
    /\ req[r].pc = "REVOKED" => ~Valid(proc[p].token)
    /\ req[r].pc = "ROTATED" => hash = proc[p].token

\* The tokens whose revocation met nothing; no rotation can bring one back.
Gone == {t \in revoked : <<"revoke", t>> \notin crossed}
Past ==
  /\ \A t \in Gone : ~Valid(t)
  /\ \A r \in Slot : Working(r) /\ req[r].op = "rotate" =>
       req[r].token \notin Gone /\ req[r].seen \notin Gone
  /\ \A p \in Proc : proc[p].pc = "send" /\ proc[p].op = "rotate" =>
       proc[p].token \notin Gone

Control == Typed /\ Marked /\ (\A r \in Slot : Linked(r) /\ OnPath(r)) /\ Solitary
Inv == Control /\ (\A r \in Slot : Finds(r) /\ Tells(r)) /\ Past

LEMMA ProcTyped == Typed => /\ req \in [Slot -> Request] /\ proc \in [Proc -> Command]
                            /\ \A r \in Slot : req[r].op \in {"rotate", "revoke"}
                            /\ \A p \in Proc : proc[p].op \in {"rotate", "revoke"}
                            /\ Nothing \notin revoked /\ issued \in Nat
                            /\ \A r \in Slot : Working(r) => req[r].token \in 1..issued
                            /\ \A p \in Proc : Active(p) => proc[p].token \in 1..issued
                            /\ revoked \subseteq 1..issued
                            /\ Nothing \notin 1..issued
  BY TokenAssumption DEF Typed, ActorsTyped, NodeTyped, Request, Command, Token, Nothing,
     Active

\* The answer a request gives, and the operation that gives it.
LEMMA AnswerGiven ==
  ASSUME Control, NEW r \in Slot, Serve(r)
  PROVE  /\ req'[r].pc = "ROTATED" => Rotate(r) /\ Working(r) /\ req[r].op = "rotate"
         /\ req'[r].pc = "REVOKED" =>
              (LookupPrevious(r) \/ Forget(r)) /\ Working(r) /\ req[r].op = "revoke"
<1>0. req \in [Slot -> Request] /\ req[r].op \in {"rotate", "revoke"} /\ OnPath(r)
  BY ProcTyped DEF Control
<1>1. ASSUME NEW pc, Goto(r, pc) PROVE req'[r].pc = pc
  BY <1>0, <1>1, Goes
<1>2. ASSUME NEW status, Reply(r, status) PROVE req'[r].pc = status
  BY <1>0, <1>2, Replies
<1>3. ASSUME NEW t, Seen(r, t) PROVE req'[r].pc \in {"overlap", "mark", "previous"}
  BY <1>0, <1>3, Sees
<1>4. CASE Lookup(r) \/ Marker(r)
  BY <1>1, <1>3, <1>4 DEF Lookup, Marker
<1>5. CASE Overlap(r) \/ Mark(r) \/ Delete(r)
  BY <1>1, <1>5 DEF Overlap, Mark, Delete
<1>6. CASE Rotate(r)
  BY <1>0, <1>2, <1>6 DEF Rotate, OnPath, Working
<1>7. CASE LookupPrevious(r) \/ Forget(r)
  <2>1. req[r].pc \in {"previous", "forget"} /\ Working(r)
    BY <1>7 DEF LookupPrevious, Forget, Working
  <2>2. req[r].op = "revoke"
    BY <1>0, <2>1 DEF OnPath
  <2>3. req'[r].pc \in {"forget", "REVOKED"}
    BY <1>1, <1>2, <1>7 DEF LookupPrevious, Forget
  <2> QED
    BY <1>7, <2>1, <2>2, <2>3
<1>8. CASE Breaks(r)
  BY <1>2, <1>8 DEF Breaks
<1>9. CASE Drop(r)
  <2>1. req'[r].pc = "idle"
    BY <1>0, <1>9 DEF Drop, NoRequest
  <2> QED
    BY <2>1
<1> QED
  BY <1>4, <1>5, <1>6, <1>7, <1>8, <1>9 DEF Serve

\* A step of a request keeps who waits for what, and where requests are.
LEMMA ServeControl == ASSUME Control, NEW r \in Slot, Serve(r) PROVE Control'
<1>0. /\ Typed /\ Marked /\ Solitary /\ OnPath(r) /\ Linked(r)
      /\ \A s \in Slot : Linked(s) /\ OnPath(s)
  BY DEF Control
<1>1. /\ UNCHANGED <<local, proc, crossed>>
      /\ \A s \in Slot : s # r => req'[s] = req[s]
      /\ Working(r) \/ (Drop(r) /\ UNCHANGED remote /\ req'[r].pc = "idle")
      /\ req'[r].pc = "idle" => Drop(r)
      /\ Working(r)' => /\ Working(r) /\ req'[r].op = req[r].op
                        /\ req'[r].token = req[r].token
  BY <1>0, ServeOnly
<1>2. req \in [Slot -> Request] /\ req[r].op \in {"rotate", "revoke"}
  BY <1>0, ProcTyped
<1>3. \A s \in Slot : Working(s)' => Working(s) /\ Asked(s)' = Asked(s)
  BY <1>1 DEF Working, Asked
<1>4. \A p \in Proc : /\ Active(p)' = Active(p) /\ Task(p)' = Task(p)
                      /\ \A s : Waits(p, s)' = Waits(p, s)
  BY <1>1 DEF Active, Task, Waits
<1>5. Typed'
  <2>1. Next
    BY DEF Next
  <2> QED
    BY <1>0, <2>1, TypedKept
<1>6. ASSUME NEW s \in Slot PROVE Linked(s)'
  <2>1. CASE s # r
    <3>1. req'[s] = req[s] /\ proc' = proc
      BY <1>1, <2>1
    <3> QED
      BY <1>0, <3>1 DEF Linked, Waits, Working, Asked, Task
  <2>2. CASE s = r
    <3>1. ASSUME NEW p \in Proc, Waits(p, r)' PROVE
            /\ req'[r].pc # "idle"
            /\ Working(r)' => Asked(r)' = Task(p)'
            /\ req'[r].pc = "ROTATED" => proc'[p].op = "rotate"
            /\ req'[r].pc = "REVOKED" => proc'[p].op = "revoke"
      <4>1. Waits(p, r) /\ Task(p)' = Task(p) /\ proc' = proc
        BY <1>1, <1>4, <3>1
      <4>2. req'[r].pc # "idle"
        BY <1>1, <4>1 DEF Drop, Waits
      <4>3. Working(r)' => Asked(r)' = Task(p)'
        BY <1>0, <1>3, <4>1 DEF Linked
      <4>4. Working(r) => req[r].op = proc[p].op
        BY <1>0, <4>1 DEF Linked, Asked, Task
      <4>5. /\ req'[r].pc = "ROTATED" => proc'[p].op = "rotate"
            /\ req'[r].pc = "REVOKED" => proc'[p].op = "revoke"
        BY <4>1, <4>4, AnswerGiven
      <4> QED
        BY <4>2, <4>3, <4>5
    <3>2. \A p, q \in Proc : Waits(p, r)' /\ Waits(q, r)' => p = q
      BY <1>0, <1>4 DEF Linked
    <3> QED
      BY <2>2, <3>1, <3>2 DEF Linked
  <2> QED
    BY <2>1, <2>2
<1>7. Solitary'
  BY <1>0, <1>1, <1>3, <1>4 DEF Solitary
\* The marker is never taken away, and set before a hash is.
<1>8. (initialized => initialized') /\ Marked' /\ OnPath(r)'
  <2>1. ASSUME NEW pc, Goto(r, pc)
        PROVE  req'[r].pc = pc /\ req'[r].op = req[r].op
    BY <1>2, <2>1, Goes
  <2>2. ASSUME NEW status \in Answer, Reply(r, status) PROVE req'[r].pc = status
    BY <1>2, <2>2, Replies
  <2>3. ASSUME NEW t, Seen(r, t)
        PROVE  /\ UNCHANGED remote /\ req'[r].op = req[r].op
               /\ req'[r].pc = IF req[r].op = "rotate" THEN "overlap"
                               ELSE IF t = req[r].token THEN "mark" ELSE "previous"
    BY <1>2, <2>3, Sees
  <2> USE <1>0, <1>2 DEF OnPath, Marked, Working, Answer, remote
  <2>4. CASE Lookup(r) \/ Marker(r)
    <3>1. ASSUME NEW t, Seen(r, t) PROVE (initialized => initialized') /\ Marked' /\ OnPath(r)'
      BY <2>3, <3>1
    <3>2. CASE Goto(r, "marker") /\ UNCHANGED remote
      BY <2>1, <3>2
    <3> QED
      BY <2>4, <3>1, <3>2 DEF Lookup, Marker
  <2>5. CASE Overlap(r)
    BY <2>1, <2>5 DEF Overlap
  <2>6. CASE Mark(r)
    <3>1. req'[r].pc = (IF req[r].op = "rotate" THEN "current" ELSE "delete")
          /\ req'[r].op = req[r].op /\ initialized' = TRUE
      BY <2>1, <2>6 DEF Mark
    <3> QED
      BY <3>1
  <2>7. CASE Delete(r)
    BY <2>1, <2>7, Tokens DEF Delete
  <2>8. CASE Rotate(r)
    BY <2>2, <2>8 DEF Rotate
  <2>9. CASE LookupPrevious(r) \/ Forget(r)
    <3>1. req[r].op = "revoke" /\ UNCHANGED <<hash, initialized>>
      BY <2>9 DEF LookupPrevious, Forget
    <3>2. Goto(r, "forget") \/ Reply(r, "REVOKED")
      BY <2>9 DEF LookupPrevious, Forget
    <3>3. \/ req'[r].pc = "REVOKED"
          \/ req'[r].pc = "forget" /\ req'[r].op = req[r].op
      BY <2>1, <2>2, <3>2
    <3> QED
      BY <3>1, <3>3
  <2>10. CASE Breaks(r)
    BY <2>2, <2>10 DEF Breaks
  <2>11. CASE Drop(r)
    <3>1. req'[r].pc = "idle" /\ UNCHANGED remote
      BY <2>11 DEF Drop, NoRequest
    <3> QED
      BY <3>1
  <2> QED
    BY <2>4, <2>5, <2>6, <2>7, <2>8, <2>9, <2>10, <2>11 DEF Serve
<1>9. ASSUME NEW s \in Slot PROVE OnPath(s)'
  <2>1. CASE s # r
    <3>1. req'[s] = req[s]
      BY <1>1, <2>1
    <3> QED
      BY <1>0, <1>8, <3>1 DEF OnPath, Working
  <2> QED
    BY <1>8, <2>1
<1> QED
  BY <1>5, <1>6, <1>7, <1>8, <1>9 DEF Control

\* A step of a request that met nothing finds what it needs and answers what
\* is so; no other that met nothing is there to be disturbed.
LEMMA ServeFinds ==
  ASSUME Inv, NEW r \in Slot, Serve(r), NEW s \in Slot
  PROVE  Finds(s)' /\ Tells(s)'
<1>0. /\ Typed /\ Marked /\ Solitary /\ Control /\ Finds(r) /\ Tells(r)
      /\ OnPath(r) /\ Linked(r) /\ Finds(s) /\ Tells(s)
  BY DEF Inv, Control
<1>1. /\ UNCHANGED <<local, proc, crossed>>
      /\ \A x \in Slot : x # r => req'[x] = req[x]
      /\ Working(r) \/ (Drop(r) /\ UNCHANGED remote /\ req'[r].pc = "idle")
      /\ req'[r].pc = "idle" => Drop(r)
      /\ Working(r)' => /\ Working(r) /\ req'[r].op = req[r].op
                        /\ req'[r].token = req[r].token
  BY <1>0, ServeOnly
<1>2. req \in [Slot -> Request] /\ req[r].op \in {"rotate", "revoke"}
      /\ (Working(r) => req[r].token # Nothing)
  BY <1>0, ProcTyped
<1>3. \A p \in Proc : /\ Active(p)' = Active(p) /\ Task(p)' = Task(p)
                      /\ \A x : Waits(p, x)' = Waits(p, x)
                      /\ Waits(p, r) => Active(p)
                      /\ proc'[p] = proc[p]
  BY <1>1 DEF Active, Task, Waits
<1>a. /\ UNCHANGED remote => Current' = Current /\ \A t : Valid(t)' = Valid(t)
      /\ UNCHANGED <<hash, initialized>> => Current' = Current
  BY DEF remote, Current, Valid
<1>4. CASE ~Working(r)
  <2>1. UNCHANGED remote /\ req'[r].pc = "idle" /\ ~Working(r)'
    BY <1>1, <1>4
  <2>2. CASE s = r
    BY <2>1, <2>2 DEF Finds, Tells
  <2>3. CASE s # r
    <3>1. req'[s] = req[s] /\ UNCHANGED <<crossed, proc>> /\ hash' = hash
      BY <1>1, <2>1, <2>3 DEF remote
    <3>2. Current' = Current /\ \A t : Valid(t)' = Valid(t)
      BY <1>a, <2>1
    <3>3. Finds(s)'
      BY <1>0, <3>1, <3>2 DEF Finds, Working, Asked
    <3>4. Tells(s)'
      BY <1>0, <3>1, <3>2 DEF Tells, Waits, Task
    <3> QED
      BY <3>3, <3>4
  <2> QED
    BY <2>2, <2>3
<1>5. CASE Working(r) /\ s # r
  <2>1. req'[s] = req[s] /\ UNCHANGED <<crossed, proc>>
    BY <1>1, <1>5
  <2>2. Working(s) => Asked(s) \in crossed
    BY <1>0, <1>5 DEF Solitary
  <2>3. Finds(s)'
    BY <2>1, <2>2 DEF Finds, Working, Asked
  <2>4. ASSUME NEW p \in Proc, Waits(p, s), Task(p) \notin crossed PROVE FALSE
    <3>1. Active(p) /\ ~Waits(p, r)
      BY <1>5, <2>4 DEF Active, Waits
    <3> QED
      BY <1>0, <1>5, <2>4, <3>1 DEF Solitary
  <2>5. Tells(s)'
    BY <2>1, <2>4 DEF Tells, Waits, Task
  <2> QED
    BY <2>3, <2>5
<1>6. CASE Working(r) /\ s = r
  <2> DEFINE fresh == Asked(r) \notin crossed
  <2>0. PICK u : u = req[r].token
    OBVIOUS
  <2>1. ASSUME NEW pc, Goto(r, pc), pc \notin {"REVOKED", "ROTATED"}
        PROVE  /\ req'[r].pc = pc /\ req'[r].op = req[r].op /\ req'[r].token = req[r].token
               /\ Asked(r)' = Asked(r) /\ crossed' = crossed /\ Tells(r)'
    BY <1>2, <2>1, Goes DEF Asked, Tells
  <2>2. ASSUME NEW t, Seen(r, t)
        PROVE  /\ UNCHANGED remote /\ req'[r].op = req[r].op /\ req'[r].token = req[r].token
               /\ req'[r].pc = IF req[r].op = "rotate" THEN "overlap"
                               ELSE IF t = req[r].token THEN "mark" ELSE "previous"
               /\ Asked(r)' = Asked(r) /\ crossed' = crossed
               /\ Tells(r)'
    BY <1>2, <2>2, Sees DEF Asked, Tells
  <2>3. ASSUME NEW status, Reply(r, status), status \in Answer
        PROVE  req'[r].pc = status /\ Finds(r)'
    <3>1. req'[r].pc = status
      BY <1>2, <2>3, Replies
    <3>2. ~Working(r)'
      BY <2>3, <3>1 DEF Working, Answer
    <3> QED
      BY <3>1, <3>2 DEF Finds
  <2>4. CASE Lookup(r)
    <3>1. CASE hash # Nothing
      <4>1. Seen(r, hash) /\ Current = hash
        BY <2>4, <3>1 DEF Lookup, Current
      <4>2. Current' = Current
        BY <1>a, <2>2, <4>1
      <4> QED
        BY <1>6, <2>2, <4>1, <4>2 DEF Finds
    <3>2. CASE hash = Nothing
      <4>1. Goto(r, "marker") /\ hash' = Nothing
        BY <2>4, <3>2 DEF Lookup, remote
      <4> QED
        BY <1>6, <2>1, <4>1 DEF Finds
    <3> QED
      BY <3>1, <3>2
  <2>5. CASE Marker(r)
    <3>1. PICK t : t = (IF initialized THEN Nothing ELSE Initial) /\ Seen(r, t)
      BY <2>5 DEF Marker
    <3>2. Finds(r)'
      <4>1. SUFFICES ASSUME fresh, req[r].op = "revoke", t # req[r].token
                     PROVE  Current' # req'[r].token
        BY <2>2, <3>1 DEF Finds
      <4>2. hash = Nothing
        BY <1>0, <1>6, <2>5, <4>1 DEF Finds, Marker
      <4>3. Current = t /\ Current' = Current
        BY <1>a, <2>2, <3>1, <4>2 DEF Current
      <4> QED
        BY <2>2, <3>1, <4>1, <4>3
    <3> QED
      BY <1>6, <2>2, <3>1, <3>2
  <2>6. CASE Overlap(r) \/ Mark(r)
    <3>1. \E pc \in {"mark", "current", "delete"} : Goto(r, pc)
      BY <2>6 DEF Overlap, Mark
    <3> QED
      BY <1>6, <2>1, <3>1 DEF Finds
  <2>7. CASE Delete(r)
    <3>1. Goto(r, "previous") /\ hash' = Nothing /\ initialized' = initialized /\ initialized
      BY <1>0, <2>7 DEF Delete, OnPath
    <3>2. Current' = Nothing
      BY <3>1 DEF Current
    <3> QED
      BY <1>2, <1>6, <2>1, <3>1, <3>2 DEF Finds
  <2>8. CASE Rotate(r)
    <3>1. Reply(r, "ROTATED") /\ hash' = req[r].token
      BY <2>8 DEF Rotate, NewToken
    <3>2. ASSUME NEW p \in Proc, Waits(p, r)' PROVE hash' = proc'[p].token
      BY <1>0, <1>3, <1>6, <3>1, <3>2 DEF Linked, Asked, Task
    <3>3. Tells(r)'
      BY <2>3, <3>1, <3>2 DEF Tells, Answer
    <3> QED
      BY <1>6, <2>3, <3>1, <3>3 DEF Answer
\* A revocation that is answered has looked at both places.
  <2>9. ASSUME Reply(r, "REVOKED"),
               fresh => ~Valid(u)'
        PROVE  Finds(r)' /\ Tells(r)'
    <3>1. ASSUME NEW p \in Proc, Waits(p, r)', Task(p)' \notin crossed'
          PROVE  ~Valid(proc[p].token)'
      <4>1. Asked(r) = Task(p) /\ fresh
        BY <1>0, <1>1, <1>3, <1>6, <3>1 DEF Linked
      <4>2. proc[p].token = req[r].token /\ proc' = proc
        BY <1>1, <4>1 DEF Asked, Task
      <4>3. ~Valid(u)' /\ u = proc'[p].token
        BY <2>0, <2>9, <4>1, <4>2
      <4> QED
        BY <4>3 DEF Valid
    <3>2. req'[r].pc = "REVOKED" /\ Finds(r)'
      BY <2>3, <2>9 DEF Answer
    <3>3. Tells(r)'
      BY <3>1, <3>2 DEF Tells
    <3> QED
      BY <3>2, <3>3
  <2>10. CASE LookupPrevious(r)
    <3>1. UNCHANGED remote /\ req[r].pc = "previous" /\ req[r].op = "revoke"
      BY <1>0, <1>2, <1>6, <2>10 DEF LookupPrevious, OnPath
    <3>2. Current' = Current /\ \A t : Valid(t)' = Valid(t)
      BY <1>a, <3>1
    <3>3. fresh => Current # req[r].token
      BY <1>0, <1>6, <3>1 DEF Finds
    <3>4. CASE previous.token = req[r].token
      <4>1. Goto(r, "forget")
        BY <2>10, <3>4 DEF LookupPrevious
      <4> QED
        BY <1>6, <2>1, <3>2, <3>3, <4>1 DEF Finds
    <3>5. CASE previous.token # req[r].token
      <4>1. Reply(r, "REVOKED")
        BY <2>10, <3>5 DEF LookupPrevious
      <4> QED
        BY <1>6, <2>0, <2>9, <3>2, <3>3, <3>5, <4>1 DEF Valid
    <3> QED
      BY <3>4, <3>5
  <2>11. CASE Forget(r)
    <3>1. /\ UNCHANGED <<hash, initialized>> /\ req[r].pc = "forget"
          /\ req[r].op = "revoke" /\ previous' = Forgotten /\ Reply(r, "REVOKED")
      BY <1>0, <1>2, <1>6, <2>11 DEF Forget, OnPath
    <3>2. fresh => Current # req[r].token
      BY <1>0, <1>6, <3>1 DEF Finds
    <3>3. fresh => ~Valid(u)'
      <4>1. Current' = Current /\ ~previous'.live
        BY <1>a, <3>1 DEF Forgotten
      <4> QED
        BY <2>0, <3>2, <4>1 DEF Valid
    <3> QED
      BY <1>6, <2>9, <3>1, <3>3
  <2>12. CASE Breaks(r)
    <3>1. Reply(r, "ERROR")
      BY <2>12 DEF Breaks
    <3>2. Tells(r)'
      BY <2>3, <3>1 DEF Tells, Answer
    <3> QED
      BY <1>6, <2>3, <3>1, <3>2 DEF Answer
  <2>13. CASE Drop(r)
    BY <1>6, <2>13 DEF Drop, Working
  <2> QED
    BY <2>4, <2>5, <2>6, <2>7, <2>8, <2>10, <2>11, <2>12, <2>13 DEF Serve
<1> QED
  BY <1>4, <1>5, <1>6

\* No step of a request brings back a token whose revocation met nothing.
LEMMA ServePast == ASSUME Inv, NEW r \in Slot, Serve(r) PROVE Past'
<1>0. /\ Typed /\ Marked /\ OnPath(r) /\ Past
      /\ req \in [Slot -> Request] /\ req[r].op \in {"rotate", "revoke"}
      /\ Nothing \notin Gone
  BY ProcTyped DEF Inv, Control, Gone
<1>1. /\ UNCHANGED <<local, proc, crossed>> /\ Gone' = Gone
      /\ \A s \in Slot : s # r => req'[s] = req[s]
      /\ Working(r)' => /\ Working(r) /\ req'[r].op = req[r].op
                        /\ req'[r].token = req[r].token
  BY <1>0, ServeOnly DEF local, Gone
<1>2. ASSUME \A t \in Gone : ~Valid(t)',
             Working(r)' /\ req'[r].op = "rotate" => req'[r].seen \notin Gone
      PROVE  Past'
  <2>1. \A t \in Gone' : ~Valid(t)'
    BY <1>1, <1>2
  <2>2. ASSUME NEW s \in Slot, Working(s)', req'[s].op = "rotate"
        PROVE  req'[s].token \notin Gone /\ req'[s].seen \notin Gone
    <3>1. CASE s = r
      BY <1>0, <1>1, <1>2, <2>2, <3>1 DEF Past
    <3>2. CASE s # r
      BY <1>0, <1>1, <2>2, <3>2 DEF Past, Working
    <3> QED
      BY <3>1, <3>2
  <2> QED
    BY <1>0, <1>1, <2>1, <2>2 DEF Past
<1>3. ASSUME UNCHANGED remote, ~Working(r)' \/ req'[r].seen = req[r].seen PROVE Past'
  <2>1. \A t : Valid(t)' = Valid(t)
    BY <1>3 DEF remote, Current, Valid
  <2> QED
    BY <1>0, <1>1, <1>2, <1>3, <2>1 DEF Past
<1>4. ASSUME NEW pc, Goto(r, pc) PROVE req'[r].seen = req[r].seen
  BY <1>0, <1>4, Goes
<1>5. ASSUME NEW status \in Answer, Reply(r, status) PROVE ~Working(r)'
  BY <1>0, <1>5, Replies DEF Working, Answer
<1>6. ASSUME NEW t, Seen(r, t), t = Current PROVE Past'
  <2>1. UNCHANGED remote /\ req'[r].seen = t
    BY <1>0, <1>6, Sees
  <2>2. (\A u : Valid(u)' = Valid(u)) /\ Valid(t)
    BY <1>6, <2>1 DEF remote, Current, Valid
  <2>3. t \notin Gone
    BY <1>0, <2>2 DEF Past
  <2> QED
    BY <1>0, <1>2, <2>1, <2>2, <2>3 DEF Past
<1>7. CASE Lookup(r)
  BY <1>3, <1>4, <1>6, <1>7 DEF Lookup, Current
<1>8. CASE Marker(r)
  <2>1. PICK t : t = (IF initialized THEN Nothing ELSE Initial) /\ Seen(r, t)
    BY <1>8 DEF Marker
\* Where the marker is set, another request may have stored a hash meanwhile.
  <2>2. t = Nothing \/ t = Current
    BY <1>0, <2>1 DEF Marked, Current
  <2>3. CASE t = Nothing
    <3>1. UNCHANGED remote /\ req'[r].seen = Nothing
      BY <1>0, <2>1, <2>3, Sees
    <3>2. \A u : Valid(u)' = Valid(u)
      BY <3>1 DEF remote, Current, Valid
    <3> QED
      BY <1>0, <1>2, <3>1, <3>2 DEF Past
  <2> QED
    BY <1>6, <2>1, <2>2, <2>3
<1>9. CASE Overlap(r)
  <2>1. /\ req[r].op = "rotate" /\ req[r].seen \notin Gone
        /\ UNCHANGED <<hash, initialized>> /\ Goto(r, "mark")
    BY <1>0, <1>9 DEF Overlap, OnPath, Working, Past
  <2>2. previous' = Forgotten \/ previous' = [token |-> req[r].seen, live |-> TRUE]
    BY <1>9 DEF Overlap, Kept
  <2>3. \A t \in Gone : ~Valid(t)'
    <3>1. Current' = Current
      BY <2>1 DEF Current
    <3> QED
      BY <1>0, <2>1, <2>2, <3>1 DEF Past, Valid, Forgotten
  <2>4. Working(r)' /\ req'[r].op = "rotate" => req'[r].seen \notin Gone
    BY <1>4, <2>1
  <2> QED
    BY <1>2, <2>3, <2>4
<1>10. CASE Mark(r)
  <2>1. UNCHANGED <<hash, previous>> /\ initialized' /\ \E pc : Goto(r, pc)
    BY <1>10 DEF Mark
  <2>2. Current' = Current \/ Current' = Nothing
    BY <2>1 DEF Current
  <2>3. \A t \in Gone : ~Valid(t)'
    BY <1>0, <2>1, <2>2 DEF Past, Valid
  <2>4. Working(r)' /\ req'[r].op = "rotate" => req'[r].seen \notin Gone
    BY <1>0, <1>1, <1>4, <2>1 DEF Past
  <2> QED
    BY <1>2, <2>3, <2>4
<1>11. CASE Rotate(r)
  <2>1. /\ hash' = req[r].token /\ UNCHANGED <<initialized, previous>>
        /\ Reply(r, "ROTATED") /\ Working(r) /\ req[r].op = "rotate"
    BY <1>0, <1>11 DEF Rotate, NewToken, OnPath, Working
  <2>2. req[r].token \notin Gone /\ req[r].token # Nothing
    BY <1>0, <2>1, ProcTyped DEF Past
  <2>3. Current' = req[r].token
    BY <2>1, <2>2 DEF Current
  <2>4. \A t \in Gone : ~Valid(t)'
    BY <1>0, <2>1, <2>2, <2>3 DEF Past, Valid
  <2> QED
    BY <1>2, <1>5, <2>1, <2>4 DEF Answer
<1>12. CASE Delete(r)
  <2>1. /\ hash' = Nothing /\ UNCHANGED <<initialized, previous>> /\ initialized
        /\ Goto(r, "previous")
    BY <1>0, <1>12 DEF Delete, OnPath
  <2>2. Current' = Nothing
    BY <2>1 DEF Current
  <2>3. \A t \in Gone : ~Valid(t)'
    BY <1>0, <2>1, <2>2 DEF Past, Valid
  <2>4. Working(r)' /\ req'[r].op = "rotate" => req'[r].seen \notin Gone
    BY <1>0, <1>1, <1>4, <2>1 DEF Past
  <2> QED
    BY <1>2, <2>3, <2>4
<1>13. CASE LookupPrevious(r)
  BY <1>3, <1>4, <1>5, <1>13 DEF LookupPrevious, Answer
<1>14. CASE Forget(r)
  <2>1. /\ previous' = Forgotten /\ UNCHANGED <<hash, initialized>> /\ Reply(r, "REVOKED")
    BY <1>14 DEF Forget
  <2>2. Current' = Current
    BY <2>1 DEF Current
  <2>3. \A t \in Gone : ~Valid(t)'
    BY <1>0, <2>1, <2>2 DEF Past, Valid, Forgotten
  <2> QED
    BY <1>2, <1>5, <2>1, <2>3 DEF Answer
<1>15. CASE Breaks(r)
  BY <1>3, <1>5, <1>15 DEF Breaks, Answer
<1>16. CASE Drop(r)
  <2>1. UNCHANGED remote /\ req'[r].pc = "idle"
    BY <1>0, <1>16 DEF Drop, NoRequest
  <2> QED
    BY <1>3, <2>1 DEF Working
<1> QED
  BY <1>7, <1>8, <1>9, <1>10, <1>11, <1>12, <1>13, <1>14, <1>15, <1>16 DEF Serve

-----------------------------------------------------------------------------
(* The commands.  They leave the Worker's store alone.                     *)

LEMMA RunRemote ==
  ASSUME NEW p \in Proc, Run(p)
  PROVE  UNCHANGED remote /\ Current' = Current /\ \A t : Valid(t)' = Valid(t)
<1>1. UNCHANGED remote
  BY DEF Run, StartRotate, StartRevoke, Send, Receive, Lost, Persist, PersistFails,
     Killed, GivesUp, Becomes
<1> QED
  BY <1>1 DEF remote, Current, Valid

\* A command that begins meets all that is under way.
LEMMA Begins ==
  ASSUME Inv, NEW p \in Proc, NEW c, Run(p), Becomes(p, c), proc[p].pc = "idle",
         c.pc = "send", req' = req, revoked' = revoked, Meets(<<c.op, c.token>>),
         c.op = "rotate" => c.token \notin revoked
  PROVE  Inv'
<1>0. /\ Typed /\ Marked /\ Solitary /\ Past /\ proc \in [Proc -> Command]
      /\ \A s \in Slot : Linked(s) /\ OnPath(s) /\ Finds(s) /\ Tells(s)
  BY ProcTyped DEF Inv, Control
<1>1. /\ UNCHANGED remote /\ Current' = Current /\ \A t : Valid(t)' = Valid(t)
  BY RunRemote
<1>2. proc'[p] = c /\ \A q \in Proc : q # p => proc'[q] = proc[q]
  BY <1>0 DEF Becomes
<1>3. crossed \subseteq crossed' /\ (UnderWay = {} \/ UnderWay \cup {<<c.op, c.token>>} \subseteq crossed')
  BY DEF Meets
<1>4. /\ \A s \in Slot : Working(s)' = Working(s) /\ Asked(s)' = Asked(s)
      /\ \A s \in Slot, q \in Proc : Waits(q, s)' = Waits(q, s) /\ (Waits(q, s) => q # p)
  BY <1>2 DEF Working, Asked, Waits
<1>5. Typed'
  BY <1>0, TypedKept DEF Next
<1>6. ASSUME NEW s \in Slot PROVE Linked(s)' /\ OnPath(s)'
  <2>1. Linked(s)'
    BY <1>0, <1>2, <1>4 DEF Linked, Task
  <2>2. OnPath(s)'
    BY <1>0, <1>1 DEF OnPath, Working, remote
  <2> QED
    BY <2>1, <2>2
<1>7. Marked'
  BY <1>0, <1>1 DEF Marked, remote
<1>8. ASSUME NEW s \in Slot PROVE Finds(s)' /\ Tells(s)'
  <2>1. Finds(s)'
    <3>1. hash' = hash
      BY <1>1 DEF remote
    <3> QED
      BY <1>0, <1>1, <1>3, <1>4, <3>1 DEF Finds
  <2>2. Tells(s)'
    <3>1. SUFFICES ASSUME NEW q \in Proc, Waits(q, s)', Task(q)' \notin crossed'
                   PROVE  /\ req'[s].pc = "REVOKED" => ~Valid(proc[q].token)'
                          /\ req'[s].pc = "ROTATED" => hash' = proc'[q].token
      BY DEF Tells
    <3>2. Waits(q, s) /\ proc'[q] = proc[q] /\ hash' = hash /\ Task(q)' = Task(q)
      BY <1>1, <1>2, <1>4, <3>1 DEF remote, Task
    <3>3. /\ req[s].pc = "REVOKED" => ~Valid(proc[q].token)
          /\ req[s].pc = "ROTATED" => hash = proc[q].token
      BY <1>0, <1>3, <3>1, <3>2 DEF Tells
    <3>4. Valid(proc[q].token)' = Valid(proc[q].token)
      BY <1>1, <3>2 DEF remote, Valid, Current
    <3> QED
      BY <3>2, <3>3, <3>4
  <2> QED
    BY <2>1, <2>2
<1>9. ASSUME UnderWay = {} PROVE Solitary'
  <2>1. (\A q \in Proc : ~Active(q)) /\ \A s \in Slot : ~Working(s)
    BY <1>9 DEF UnderWay, Active
  <2>2. \A q \in Proc : Active(q)' => q = p
    BY <1>2, <2>1 DEF Active
  <2>3. Solitary'
    BY <1>4, <2>1, <2>2 DEF Solitary
  <2> QED
    BY <2>3
<1>10. ASSUME UnderWay # {} PROVE Solitary'
  <2>1. \A q \in Proc : Active(q)' => Task(q)' \in crossed'
    <3>1. ASSUME NEW q \in Proc, q # p, Active(q)' PROVE Task(q)' \in crossed'
      <4>1. proc[q].pc # "idle" /\ Task(q)' = <<proc[q].op, proc[q].token>>
        BY <1>2, <3>1 DEF Active, Task
      <4>2. Task(q)' \in UnderWay
        BY <4>1 DEF UnderWay
      <4> QED
        BY <1>3, <1>10, <4>2
    <3>2. Task(p)' \in crossed'
      BY <1>2, <1>3, <1>10 DEF Task
    <3> QED
      BY <3>1, <3>2
  <2>2. \A s \in Slot : Working(s)' => Asked(s)' \in crossed'
    <3>1. \A s \in Slot : Working(s) => Asked(s) \in UnderWay
      BY DEF UnderWay, Asked
    <3> QED
      BY <1>3, <1>4, <1>10, <3>1
  <2>3. Solitary'
    BY <2>1, <2>2 DEF Solitary
  <2> QED
    BY <2>3
<1>11. Past'
  <2>1. Gone' \subseteq Gone /\ Gone' \subseteq revoked
    BY <1>3 DEF Gone
  <2>2. \A t \in Gone' : ~Valid(t)'
    BY <1>0, <1>1, <2>1 DEF Past
  <2>3. \A s \in Slot : Working(s)' /\ req'[s].op = "rotate" =>
          req'[s].token \notin Gone' /\ req'[s].seen \notin Gone'
    BY <1>0, <1>4, <2>1 DEF Past
  <2>4. \A q \in Proc : proc'[q].pc = "send" /\ proc'[q].op = "rotate" =>
          proc'[q].token \notin Gone'
    BY <1>0, <1>2, <2>1 DEF Past
  <2> QED
    BY <2>2, <2>3, <2>4 DEF Past
<1> QED
  BY <1>5, <1>6, <1>7, <1>8, <1>9, <1>10, <1>11 DEF Inv, Control

\* A command that ends, or waits no more; its request may have gone with it.
LEMMA Ends ==
  ASSUME Inv, NEW p \in Proc, NEW c, Run(p), Becomes(p, c), crossed' = crossed,
         Active(p), c.pc \in {"idle", "persist"},
         c.pc = "persist" => c.op = proc[p].op /\ c.token = proc[p].token
                             /\ \E r \in Slot : Waits(p, r) /\ ~Working(r),
         req' = req \/ \E r \in Slot : /\ req' = [req EXCEPT ![r] = NoRequest]
                                     /\ Waits(p, r) /\ ~Working(r),
         \A t \in Gone' : \/ t \in Gone
                          \/ /\ ~Valid(t) /\ Task(p) \notin crossed /\ c.pc = "idle"
                             /\ \E r \in Slot : Waits(p, r) /\ ~Working(r)
  PROVE  Inv'
<1>0. /\ Typed /\ Marked /\ Solitary /\ Past /\ proc \in [Proc -> Command]
      /\ req \in [Slot -> Request]
      /\ \A s \in Slot : Linked(s) /\ OnPath(s) /\ Finds(s) /\ Tells(s)
  BY ProcTyped DEF Inv, Control
<1>1. /\ UNCHANGED remote /\ Current' = Current /\ \A t : Valid(t)' = Valid(t)
      /\ hash' = hash /\ initialized' = initialized
  BY RunRemote DEF remote
<1>2. proc'[p] = c /\ \A q \in Proc : q # p => proc'[q] = proc[q]
  BY <1>0 DEF Becomes
<1>3. \A s \in Slot : \/ req'[s] = req[s]
                      \/ Waits(p, s) /\ ~Working(s) /\ req'[s] = NoRequest
  BY <1>0
<1>4. /\ \A s \in Slot : Working(s)' => /\ req'[s] = req[s] /\ Working(s)
                                        /\ Asked(s)' = Asked(s)
      /\ \A s \in Slot, q \in Proc : Waits(q, s)' => Waits(q, s) /\ q # p
  <2>1. \A s \in Slot : Working(s)' => req'[s] = req[s] /\ Working(s)
    BY <1>3 DEF Working, NoRequest
  <2>2. \A s \in Slot : Asked(s)' = Asked(s) \/ ~Working(s)'
    BY <2>1 DEF Asked
  <2>3. \A s \in Slot, q \in Proc : Waits(q, s)' => Waits(q, s) /\ q # p
    BY <1>2 DEF Waits
  <2> QED
    BY <2>1, <2>2, <2>3
<1>5. Typed'
  BY <1>0, TypedKept DEF Next
\* Nobody else waits for the request that is gone.
<1>6. ASSUME NEW s \in Slot, NEW q \in Proc, Waits(q, s)'
      PROVE  Waits(q, s) /\ req'[s] = req[s] /\ proc'[q] = proc[q]
  BY <1>0, <1>2, <1>3, <1>4, <1>6 DEF Linked
<1>7. ASSUME NEW s \in Slot PROVE Linked(s)' /\ OnPath(s)'
  <2>1. ASSUME NEW q \in Proc, Waits(q, s)'
        PROVE  /\ req'[s].pc # "idle"
               /\ Working(s)' => Asked(s)' = Task(q)'
               /\ req'[s].pc = "ROTATED" => proc'[q].op = "rotate"
               /\ req'[s].pc = "REVOKED" => proc'[q].op = "revoke"
    <3>1. Waits(q, s) /\ req'[s] = req[s] /\ proc'[q] = proc[q]
      BY <1>6, <2>1
    <3>2. Asked(s)' = Asked(s) /\ Task(q)' = Task(q) /\ Working(s)' = Working(s)
      BY <3>1 DEF Asked, Task, Working
    <3> QED
      BY <1>0, <3>1, <3>2 DEF Linked
  <2>2. \A q, x \in Proc : Waits(q, s)' /\ Waits(x, s)' => q = x
    BY <1>0, <1>4 DEF Linked
  <2>3. OnPath(s)'
    BY <1>0, <1>1, <1>3 DEF OnPath, Working, NoRequest
  <2> QED
    BY <2>1, <2>2, <2>3 DEF Linked
<1>8. Marked'
  BY <1>0, <1>1 DEF Marked
<1>9. ASSUME NEW s \in Slot PROVE Finds(s)' /\ Tells(s)'
  <2>1. Finds(s)'
    BY <1>0, <1>1, <1>4 DEF Finds
  <2>2. ASSUME NEW q \in Proc, Waits(q, s)', Task(q)' \notin crossed'
        PROVE  /\ req'[s].pc = "REVOKED" => ~Valid(proc[q].token)'
               /\ req'[s].pc = "ROTATED" => hash' = proc'[q].token
    <3>1. Waits(q, s) /\ req'[s] = req[s] /\ proc'[q] = proc[q] /\ Task(q) \notin crossed
      BY <1>6, <2>2 DEF Task
    <3>2. /\ req[s].pc = "REVOKED" => ~Valid(proc[q].token)
          /\ req[s].pc = "ROTATED" => hash = proc[q].token
      BY <1>0, <3>1 DEF Tells
    <3>3. Valid(proc[q].token)' = Valid(proc[q].token)
      BY <1>1, <3>1 DEF remote, Valid, Current
    <3> QED
      BY <1>1, <3>1, <3>2, <3>3
  <2> QED
    BY <2>1, <2>2 DEF Tells
\* A command whose request is done, and which met nothing, is all there is.
<1>a. ASSUME NEW r \in Slot, Waits(p, r), ~Working(r), NEW s \in Slot, Waits(p, s)
      PROVE  ~Working(s)
  BY <1>a DEF Waits
<1>10. Solitary'
  <2>1. \A q \in Proc : Active(q)' => Active(q) /\ Task(q)' = Task(q)
    BY <1>2 DEF Active, Task
  <2>2. ASSUME NEW q \in Proc, NEW s \in Slot, Working(s), Active(q)', Waits(q, s)
        PROVE  Waits(q, s)'
    <3>1. CASE q = p
      <4>1. c.pc = "persist"
        BY <1>2, <2>2, <3>1 DEF Active
      <4> QED
        BY <1>a, <2>2, <3>1, <4>1
    <3>2. CASE q # p
      BY <1>2, <2>2, <3>2 DEF Waits
    <3> QED
      BY <3>1, <3>2
  <2> QED
    BY <1>0, <1>4, <2>1, <2>2 DEF Solitary
<1>11. Past'
  <2>1. \A t \in Gone' : ~Valid(t)'
    BY <1>0, <1>1 DEF Past
\* What is newly gone was revoked alone: no rotation is under way.
  <2>2. ASSUME NEW t \in Gone', t \notin Gone
        PROVE  /\ \A s \in Slot : ~Working(s)'
               /\ \A q \in Proc : ~Active(q)'
    <3>1. Task(p) \notin crossed /\ c.pc = "idle" /\ \E r \in Slot : Waits(p, r) /\ ~Working(r)
      BY <2>2
    <3>2. /\ \A q \in Proc : Active(q) => q = p
          /\ \A s \in Slot : Working(s) => Waits(p, s)
      BY <1>0, <3>1 DEF Solitary
    <3>3. \A s \in Slot : ~Working(s)
      BY <1>a, <3>1, <3>2
    <3>4. \A q \in Proc : ~Active(q)'
      BY <1>2, <3>1, <3>2 DEF Active
    <3> QED
      BY <1>4, <3>3, <3>4
  <2>3. ASSUME NEW s \in Slot, Working(s)', req'[s].op = "rotate"
        PROVE  req'[s].token \notin Gone' /\ req'[s].seen \notin Gone'
    BY <1>0, <1>4, <2>2, <2>3 DEF Past
  <2>4. ASSUME NEW q \in Proc, proc'[q].pc = "send", proc'[q].op = "rotate"
        PROVE  proc'[q].token \notin Gone'
    BY <1>0, <1>2, <2>2, <2>4 DEF Past, Active
  <2> QED
    BY <2>1, <2>3, <2>4 DEF Past
<1> QED
  BY <1>5, <1>7, <1>8, <1>9, <1>10, <1>11 DEF Inv, Control

\* A request on its way to the Worker is the command's own.
LEMMA Sends ==
  ASSUME Inv, NEW p \in Proc, NEW r \in Slot, Send(p, r)
  PROVE  Inv'
<1>0. /\ Typed /\ Marked /\ Solitary /\ Past /\ proc \in [Proc -> Command]
      /\ req \in [Slot -> Request]
      /\ \A s \in Slot : Linked(s) /\ OnPath(s) /\ Finds(s) /\ Tells(s)
      /\ Nothing \notin Gone /\ proc[p].op \in {"rotate", "revoke"}
  BY ProcTyped DEF Inv, Control, Gone
<1>1. Run(p)
  BY DEF Run
<1>2. /\ UNCHANGED remote /\ Current' = Current /\ \A t : Valid(t)' = Valid(t)
      /\ hash' = hash /\ initialized' = initialized
      /\ crossed' = crossed /\ Gone' = Gone
  BY <1>1, RunRemote DEF remote, Send, local, Gone
<1>3. /\ proc[p].pc = "send" /\ req[r].pc = "idle" /\ Active(p) /\ ~Working(r)
      /\ proc'[p] = [proc[p] EXCEPT !.pc = "wait", !.at = r]
      /\ \A q \in Proc : q # p => proc'[q] = proc[q]
      /\ req'[r] = [pc |-> "lookup", op |-> proc[p].op, token |-> proc[p].token,
                    overlap |-> proc[p].overlap, seen |-> Nothing]
      /\ \A s \in Slot : s # r => req'[s] = req[s]
  BY <1>0 DEF Send, Becomes, Active, Working
<1>4. /\ Waits(p, r)' /\ Active(p)' /\ Task(p)' = Task(p) /\ Asked(r)' = Task(p)
      /\ req'[r].pc = "lookup" /\ req'[r].seen = Nothing /\ Working(r)'
      /\ req'[r].op = proc[p].op /\ req'[r].token = proc[p].token
      /\ \A s \in Slot : ~Waits(p, s) /\ (Waits(p, s)' => s = r)
  <2>1. proc[p] \in Command
    BY <1>0
  <2>2. proc'[p].pc = "wait" /\ proc'[p].at = r /\ proc'[p].op = proc[p].op
          /\ proc'[p].token = proc[p].token
    BY <1>3, <2>1 DEF Command
  <2> QED
    BY <1>3, <2>2 DEF Waits, Active, Task, Asked, Working
<1>5. \A q \in Proc : q # p => /\ Active(q)' = Active(q) /\ Task(q)' = Task(q)
                              /\ proc'[q] = proc[q]
                              /\ \A s \in Slot : Waits(q, s)' = Waits(q, s)
  BY <1>3 DEF Active, Task, Waits
<1>6. \A s \in Slot : s # r => /\ Working(s)' = Working(s) /\ Asked(s)' = Asked(s)
                              /\ req'[s] = req[s]
  BY <1>3 DEF Working, Asked
<1>7. \A q \in Proc : ~Waits(q, r)
  BY <1>0, <1>3 DEF Linked
<1>8. Typed'
  BY <1>0, <1>1, TypedKept DEF Next
<1>9. ASSUME NEW s \in Slot PROVE Linked(s)' /\ OnPath(s)'
  <2>1. CASE s = r
    <3>1. Linked(s)'
      BY <1>4, <1>5, <1>7, <2>1 DEF Linked
    <3>2. OnPath(s)'
      BY <1>4, <2>1 DEF OnPath
    <3> QED
      BY <3>1, <3>2
  <2>2. CASE s # r
    <3>1. Linked(s)'
      BY <1>0, <1>4, <1>5, <1>6, <2>2 DEF Linked
    <3>2. OnPath(s)'
      BY <1>0, <1>2, <1>6, <2>2 DEF OnPath
    <3> QED
      BY <3>1, <3>2
  <2> QED
    BY <2>1, <2>2
<1>10. Marked'
  BY <1>0, <1>2 DEF Marked
<1>11. ASSUME NEW s \in Slot PROVE Finds(s)' /\ Tells(s)'
  <2>1. CASE s = r
    BY <1>4, <2>1 DEF Finds, Tells
  <2>2. CASE s # r
    <3>1. Finds(s)'
      BY <1>0, <1>2, <1>6, <2>2 DEF Finds
    <3>2. ASSUME NEW q \in Proc, Waits(q, s)', Task(q)' \notin crossed'
          PROVE  /\ req'[s].pc = "REVOKED" => ~Valid(proc[q].token)'
                 /\ req'[s].pc = "ROTATED" => hash' = proc'[q].token
      <4>1. q # p /\ Waits(q, s) /\ proc'[q] = proc[q] /\ Task(q) \notin crossed
        BY <1>2, <1>4, <1>5, <2>2, <3>2
      <4>2. /\ req[s].pc = "REVOKED" => ~Valid(proc[q].token)
            /\ req[s].pc = "ROTATED" => hash = proc[q].token
        BY <1>0, <4>1 DEF Tells
      <4>3. Valid(proc[q].token)' = Valid(proc[q].token)
        BY <1>2, <4>1 DEF remote, Valid, Current
      <4> QED
        BY <1>2, <1>6, <2>2, <4>1, <4>2, <4>3
    <3> QED
      BY <3>1, <3>2 DEF Tells
  <2> QED
    BY <2>1, <2>2
<1>12. Solitary'
  <2>1. ASSUME NEW q \in Proc, Active(q)', Task(q)' \notin crossed'
        PROVE  /\ \A x \in Proc : Active(x)' => x = q
               /\ \A s \in Slot : Working(s)' => Waits(q, s)'
    <3>1. Active(q) /\ Task(q) \notin crossed
      BY <1>2, <1>3, <1>4, <1>5, <2>1
    <3>2. (\A x \in Proc : Active(x) => x = q) /\ \A s \in Slot : Working(s) => Waits(q, s)
      BY <1>0, <3>1 DEF Solitary
    <3>3. q = p
      BY <1>3, <3>2
    <3> QED
      BY <1>3, <1>4, <1>5, <1>6, <3>2, <3>3
  <2>2. ASSUME NEW s \in Slot, Working(s)', Asked(s)' \notin crossed'
        PROVE  /\ \A x \in Slot : Working(x)' => x = s
               /\ \A q \in Proc : Active(q)' => Waits(q, s)'
    <3>1. CASE s = r
      <4>1. Task(p) \notin crossed
        BY <1>2, <1>4, <2>2, <3>1
      <4>2. (\A x \in Proc : Active(x) => x = p) /\ \A x \in Slot : Working(x) => Waits(p, x)
        BY <1>0, <1>3, <4>1 DEF Solitary
      <4> QED
        BY <1>4, <1>5, <1>6, <3>1, <4>2
    <3>2. CASE s # r
      <4>1. Working(s) /\ Asked(s) \notin crossed
        BY <1>2, <1>6, <2>2, <3>2
      <4>2. Waits(p, s)
        BY <1>0, <1>3, <4>1 DEF Solitary
      <4> QED
        BY <1>4, <4>2
    <3> QED
      BY <3>1, <3>2
  <2> QED
    BY <2>1, <2>2 DEF Solitary
<1>13. Past'
  <2>1. \A t \in Gone' : ~Valid(t)'
    BY <1>0, <1>2 DEF Past
  <2>2. ASSUME NEW s \in Slot, Working(s)', req'[s].op = "rotate"
        PROVE  req'[s].token \notin Gone' /\ req'[s].seen \notin Gone'
    BY <1>0, <1>2, <1>3, <1>4, <1>6, <2>2 DEF Past
  <2>3. ASSUME NEW q \in Proc, proc'[q].pc = "send", proc'[q].op = "rotate"
        PROVE  proc'[q].token \notin Gone'
    <3>1. q # p
      BY <1>4, <2>3 DEF Waits
    <3> QED
      BY <1>0, <1>2, <1>5, <2>3, <3>1 DEF Past
  <2> QED
    BY <2>1, <2>2, <2>3 DEF Past
<1> QED
  BY <1>8, <1>9, <1>10, <1>11, <1>12, <1>13 DEF Inv, Control

\* Every step keeps the invariant.
LEMMA InvNext == Inv /\ [Next]_vars => Inv'
<1> SUFFICES ASSUME Inv, [Next]_vars PROVE Inv'
  OBVIOUS
<1>0. Typed /\ Control /\ proc \in [Proc -> Command] /\ req \in [Slot -> Request]
  BY ProcTyped DEF Inv, Control
<1>1. ASSUME NEW r \in Slot, Serve(r) PROVE Inv'
  BY <1>0, <1>1, ServeControl, ServeFinds, ServePast DEF Inv
<1>2. ASSUME NEW p \in Proc, NEW overlap \in Overlaps, StartRotate(p, overlap) PROVE Inv'
  <2> DEFINE c == [NoCommand EXCEPT !.pc = "send", !.token = issued + 1,
                                    !.overlap = overlap]
  <2>1. /\ Becomes(p, c) /\ proc[p].pc = "idle" /\ req' = req /\ revoked' = revoked
        /\ Meets(<<"rotate", issued + 1>>)
    BY <1>2 DEF StartRotate
  <2>2. c.pc = "send" /\ c.op = "rotate" /\ c.token = issued + 1
    BY DEF NoCommand
  <2>3. issued + 1 \notin revoked
    BY <1>0, ProcTyped
  <2>4. Run(p)
    BY <1>2 DEF Run
  <2> HIDE DEF c
  <2> QED
    BY <2>1, <2>2, <2>3, <2>4, Begins
<1>3. ASSUME NEW p \in Proc, NEW t \in files, StartRevoke(p, t) PROVE Inv'
  <2> DEFINE c == [NoCommand EXCEPT !.pc = "send", !.op = "revoke", !.token = t]
  <2>1. /\ Becomes(p, c) /\ proc[p].pc = "idle" /\ req' = req /\ revoked' = revoked
        /\ Meets(<<"revoke", t>>)
    BY <1>3 DEF StartRevoke, local
  <2>2. c.pc = "send" /\ c.op = "revoke" /\ c.token = t
    BY DEF NoCommand
  <2>3. Run(p)
    BY <1>3 DEF Run
  <2> HIDE DEF c
  <2> QED
    BY <2>1, <2>2, <2>3, Begins
<1>4. ASSUME NEW p \in Proc, NEW r \in Slot, Send(p, r) PROVE Inv'
  BY <1>4, Sends
<1>5. NoCommand.pc = "idle"
  BY DEF NoCommand
\* A command that ends without a report.
<1>6. ASSUME NEW p \in Proc, Run(p), Active(p), Becomes(p, NoCommand),
             crossed' = crossed, revoked' = revoked,
             req' = req \/ \E r \in Slot : /\ req' = [req EXCEPT ![r] = NoRequest]
                                         /\ Waits(p, r) /\ ~Working(r)
      PROVE  Inv'
  <2>1. Gone' = Gone
    BY <1>6 DEF Gone
  <2> QED
    BY <1>5, <1>6, <2>1, Ends
<1>7. ASSUME NEW p \in Proc, Lost(p) \/ Persist(p) \/ PersistFails(p) \/ Killed(p)
      PROVE  Inv'
  <2>1. Run(p) /\ Active(p) /\ Becomes(p, NoCommand) /\ UNCHANGED <<crossed, revoked, req>>
    BY <1>7 DEF Run, Active, Lost, GivesUp, Persist, PersistFails, Killed, local
  <2> QED
    BY <1>6, <2>1
<1>8. ASSUME NEW p \in Proc, NEW r \in Slot, Receive(p, r) PROVE Inv'
  <2>1. /\ Run(p) /\ Active(p) /\ Waits(p, r) /\ req' = [req EXCEPT ![r] = NoRequest]
        /\ crossed' = crossed
    BY <1>8 DEF Run, Active, Waits, Receive
  <2>2. CASE req[r].pc = "ROTATED" /\ Becomes(p, [proc[p] EXCEPT !.pc = "persist"])
             /\ UNCHANGED local
    <3> DEFINE c == [proc[p] EXCEPT !.pc = "persist"]
    <3>1. c.pc = "persist" /\ c.op = proc[p].op /\ c.token = proc[p].token
      BY <1>0 DEF Command
    <3>2. ~Working(r) /\ Gone' = Gone /\ Becomes(p, c)
      BY <2>1, <2>2 DEF Working, Gone, local
    <3> HIDE DEF c
    <3> QED
      BY <2>1, <3>1, <3>2, Ends
  <2>3. CASE req[r].pc = "REVOKED" /\ revoked' = revoked \cup {proc[p].token}
             /\ Becomes(p, NoCommand)
    <3>1. ~Working(r)
      BY <2>3 DEF Working
    <3>2. proc[p].op = "revoke" /\ (Task(p) \notin crossed => ~Valid(proc[p].token))
      BY <2>1, <2>3 DEF Inv, Control, Linked, Tells
    <3>3. \A t \in Gone' : t \in Gone \/ (t = proc[p].token /\ Task(p) \notin crossed)
      BY <2>1, <2>3, <3>2 DEF Gone, Task
    <3>4. \A t \in Gone' : \/ t \in Gone
                           \/ /\ ~Valid(t) /\ Task(p) \notin crossed /\ NoCommand.pc = "idle"
                              /\ \E s \in Slot : Waits(p, s) /\ ~Working(s)
      BY <1>5, <2>1, <3>1, <3>2, <3>3
    <3> QED
      BY <1>5, <2>1, <2>3, <3>1, <3>4, Ends
  <2>4. CASE req[r].pc = "ERROR" /\ GivesUp(p)
    <3>1. ~Working(r) /\ Becomes(p, NoCommand) /\ revoked' = revoked
      BY <2>4 DEF Working, GivesUp
    <3> QED
      BY <1>6, <2>1, <3>1
  <2> QED
    BY <1>8, <2>2, <2>3, <2>4 DEF Receive
<1>9. CASE Expire \/ UNCHANGED vars
  <2>1. UNCHANGED <<hash, initialized, revoked, issued, req, proc, crossed>>
    BY <1>9 DEF Expire, vars, remote, local
  <2>2. previous'.token = previous.token /\ (previous'.live => previous.live)
    BY <1>0, <1>9 DEF Expire, vars, remote, Typed, StoreTyped
  <2>3. Current' = Current /\ \A t : Valid(t)' => Valid(t)
    BY <2>1, <2>2 DEF Current, Valid
  <2>4. Typed'
    BY <1>0, TypedKept
  <2>5. /\ \A p \in Proc : /\ Active(p)' = Active(p) /\ Task(p)' = Task(p)
                          /\ \A r \in Slot : Waits(p, r)' = Waits(p, r)
        /\ \A r \in Slot : Working(r)' = Working(r) /\ Asked(r)' = Asked(r)
        /\ Gone' = Gone
    BY <2>1 DEF Active, Task, Waits, Working, Asked, Gone
  <2>6. Marked' /\ Solitary'
    BY <1>0, <2>1, <2>5 DEF Control, Marked, Solitary
  <2>7. ASSUME NEW r \in Slot PROVE Linked(r)' /\ OnPath(r)'
    BY <1>0, <2>1, <2>5 DEF Control, Linked, OnPath
  <2>8. ASSUME NEW r \in Slot PROVE Finds(r)' /\ Tells(r)'
    <3>1. Finds(r)'
      BY <2>1, <2>3, <2>5 DEF Inv, Finds
    <3>2. ASSUME NEW p \in Proc PROVE Valid(proc[p].token)' => Valid(proc[p].token)
      BY <2>1, <2>2 DEF Valid, Current
    <3>3. Tells(r)'
      BY <2>1, <2>5, <3>2 DEF Inv, Tells
    <3> QED
      BY <3>1, <3>3
  <2>9. Past'
    BY <2>1, <2>3, <2>5 DEF Inv, Past
  <2> QED
    BY <2>4, <2>6, <2>7, <2>8, <2>9 DEF Inv, Control
<1> QED
  BY <1>1, <1>2, <1>3, <1>4, <1>7, <1>8, <1>9 DEF Next, Run

LEMMA InvAlways == Spec => []Inv
<1>1. Init => Inv
  <2> SUFFICES ASSUME Init PROVE Inv
    OBVIOUS
  <2>1. Typed
    BY TypedFirst
  <2>2. /\ \A r \in Slot : req[r].pc = "idle" /\ ~Working(r)
        /\ \A p \in Proc : proc[p].pc = "idle" /\ ~Active(p) /\ \A r \in Slot : ~Waits(p, r)
        /\ revoked = {} /\ hash = Nothing
    BY DEF Init, NoRequest, NoCommand, Working, Active, Waits
  <2>3. Marked /\ Solitary /\ Past
    BY <2>2 DEF Marked, Solitary, Past, Gone
  <2>4. ASSUME NEW r \in Slot PROVE Linked(r) /\ OnPath(r) /\ Finds(r) /\ Tells(r)
    BY <2>2 DEF Linked, OnPath, Finds, Tells
  <2> QED
    BY <2>1, <2>3, <2>4 DEF Inv, Control
<1>2. Inv /\ [Next]_vars => Inv'
  BY InvNext
<1> QED
  BY <1>1, <1>2, PTL DEF Spec

\* A token reported revoked never reads again if its revocation met nothing,
\* however many commands and requests there are and whatever of them breaks
\* off, is lost, goes on without its command or expires.
THEOREM RevokedIsRevoked == Spec => []RevokedStaysRevoked
<1>1. Inv => RevokedStaysRevoked
  BY DEF Inv, Past, Gone, RevokedStaysRevoked
<1> QED
  BY InvAlways, <1>1, PTL

\* A rotation that met nothing, and that the node learns of, has made the new
\* token read.
THEOREM RotatedReads == Spec => RotatedIsValid
<1>1. Inv /\ [Next]_vars =>
        [\A p \in Proc : proc[p].pc = "wait" /\ proc'[p].pc = "persist" =>
           Valid(proc[p].token) \/ <<"rotate", proc[p].token>> \in crossed]_vars
  <2> SUFFICES ASSUME NEW p \in Proc, Inv, Next,
                      proc[p].pc = "wait", proc'[p].pc = "persist",
                      <<"rotate", proc[p].token>> \notin crossed
               PROVE  Valid(proc[p].token)
    OBVIOUS
  <2>0. Typed /\ proc \in [Proc -> Command] /\ req \in [Slot -> Request]
    BY ProcTyped DEF Inv, Control
  <2>1. \A r \in Slot : ~Serve(r)
    BY <2>0, ServeOnly
  <2>2. PICK q \in Proc : Run(q)
    BY <2>1 DEF Next, Expire
  <2>3. PICK c : Becomes(q, c)
    BY <2>2 DEF Run, StartRotate, StartRevoke, Send, Receive, Lost, Persist,
       PersistFails, Killed, GivesUp
  <2>4. q = p /\ proc'[p] = c /\ c.pc = "persist"
    BY <2>0, <2>3 DEF Becomes
  <2>5. PICK r \in Slot : Receive(p, r)
    <3>1. ASSUME Becomes(p, NoCommand) PROVE FALSE
      BY <2>0, <3>1 DEF Becomes, NoCommand
    <3>2. ASSUME NEW r \in Slot, Send(p, r) PROVE FALSE
      BY <3>2 DEF Send
    <3>3. ~\E overlap \in Overlaps : StartRotate(p, overlap)
      BY DEF StartRotate
    <3>4. ~\E t \in files : StartRevoke(p, t)
      BY DEF StartRevoke
    <3>5. ~Lost(p) /\ ~Persist(p) /\ ~PersistFails(p) /\ ~Killed(p)
      BY <3>1 DEF Lost, Persist, PersistFails, Killed, GivesUp
    <3> QED
      BY <2>2, <2>4, <3>2, <3>3, <3>4, <3>5 DEF Run
  <2>6. req[r].pc = "ROTATED" /\ Waits(p, r)
    BY <2>0, <2>5 DEF Receive, GivesUp, Becomes, NoCommand, Waits
  <2>7. proc[p].op = "rotate"
    BY <2>6 DEF Inv, Control, Linked
  <2>8. hash = proc[p].token
    BY <2>6, <2>7 DEF Inv, Tells, Task
  <2>9. proc[p].token # Nothing
    BY <2>0, ProcTyped DEF Active
  <2> QED
    BY <2>8, <2>9 DEF Valid, Current
<1> QED
  BY InvAlways, <1>1, PTL DEF Spec, RotatedIsValid

-----------------------------------------------------------------------------
(* The token that the Worker accepts stays on the node, when no answer is  *)
(* lost: a client file goes only with a token the Worker never took.       *)

Rotates(p) == Active(p) /\ proc[p].op = "rotate"
Asks(r)    == Working(r) /\ req[r].op = "rotate"

\* p's rotation was not accepted yet, as far as p's request goes.
Pending(p) == /\ proc[p].op = "rotate"
              /\ \/ proc[p].pc = "send"
                 \/ proc[p].pc = "wait" /\ req[proc[p].at].pc # "ROTATED"

\* What is current, or may become so, has its file; every rotation its own.
Held ==
  /\ hash # Nothing => hash \in files
  /\ \A r \in Slot : Asks(r) => req[r].token \in files
  /\ \A p \in Proc : Rotates(p) => proc[p].token \in files
  /\ \A p, q \in Proc : Rotates(p) /\ Rotates(q) /\ proc[p].token = proc[q].token => p = q

\* A pending rotation's token is not current, nor on its way by another request.
Unmade ==
  \A p \in Proc : Pending(p) =>
    /\ hash # proc[p].token
    /\ \A r \in Slot : Asks(r) /\ req[r].token = proc[p].token => Waits(p, r)

OnNode == Held /\ Unmade

LEMMA HeldServe == ASSUME Control, OnNode, NEW r \in Slot, Serve(r) PROVE OnNode'
<1>0. /\ Typed /\ req \in [Slot -> Request] /\ proc \in [Proc -> Command] /\ OnPath(r)
      /\ \A p \in Proc : proc[p].pc = "wait" => proc[p].at \in Slot
      /\ req[r].op \in {"rotate", "revoke"}
  BY ProcTyped DEF Control, Typed, ActorsTyped
<1>1. /\ UNCHANGED <<local, proc, crossed>>
      /\ \A s \in Slot : s # r => req'[s] = req[s]
      /\ Working(r) \/ (Drop(r) /\ UNCHANGED remote /\ req'[r].pc = "idle")
      /\ Working(r)' => /\ Working(r) /\ req'[r].op = req[r].op
                        /\ req'[r].token = req[r].token
  BY <1>0, ServeOnly
<1>2. \A s \in Slot : Asks(s)' => Asks(s) /\ req'[s].token = req[s].token
  BY <1>1 DEF Asks, Working
<1>3. /\ files' = files
      /\ \A p \in Proc : Rotates(p)' = Rotates(p) /\ proc'[p] = proc[p]
      /\ \A p \in Proc, s \in Slot : Waits(p, s)' = Waits(p, s)
  BY <1>1 DEF local, Rotates, Active, Waits
<1>4. \/ hash' = hash
      \/ hash' = Nothing
      \/ Asks(r) /\ hash' = req[r].token /\ req'[r].pc = "ROTATED"
  <2>1. CASE Rotate(r)
    <3>1. Working(r) /\ req[r].op = "rotate"
      BY <1>0, <2>1 DEF Rotate, OnPath, Working
    <3>2. req'[r].pc = "ROTATED"
      BY <1>0, <2>1, Replies DEF Rotate
    <3> QED
      BY <2>1, <3>1, <3>2 DEF Rotate, NewToken, Asks
  <2>2. CASE Delete(r)
    BY <2>2 DEF Delete
  <2>3. CASE \/ Lookup(r) \/ Marker(r) \/ Overlap(r) \/ Mark(r)
             \/ LookupPrevious(r) \/ Forget(r) \/ Breaks(r) \/ Drop(r)
    BY <2>3 DEF Lookup, Marker, Overlap, Mark, LookupPrevious, Forget, Breaks, Drop,
       Seen, remote
  <2> QED
    BY <2>1, <2>2, <2>3 DEF Serve
<1>5. Held'
  BY <1>2, <1>3, <1>4 DEF OnNode, Held
<1>6. ASSUME NEW p \in Proc, Pending(p)'
      PROVE  Pending(p) /\ ~(Waits(p, r) /\ req'[r].pc = "ROTATED")
  <2>1. proc'[p] = proc[p]
    BY <1>3
  <2>2. CASE proc[p].pc = "wait" /\ proc[p].at = r
    <3>1. Working(r)
      BY <1>1, <2>2 DEF Drop
    <3> QED
      BY <1>6, <2>1, <2>2, <3>1 DEF Pending, Working
  <2>3. CASE ~(proc[p].pc = "wait" /\ proc[p].at = r)
    BY <1>0, <1>1, <1>6, <2>1, <2>3 DEF Pending, Waits
  <2> QED
    BY <2>2, <2>3
<1>7. ASSUME NEW p \in Proc, Pending(p)'
      PROVE  /\ hash' # proc'[p].token
             /\ \A s \in Slot : Asks(s)' /\ req'[s].token = proc'[p].token => Waits(p, s)'
  <2>1. /\ hash # proc[p].token
        /\ \A s \in Slot : Asks(s) /\ req[s].token = proc[p].token => Waits(p, s)
    BY <1>6, <1>7 DEF OnNode, Unmade
  <2>2. proc[p].token # Nothing
    BY <1>0, <1>6, <1>7, ProcTyped DEF Pending, Active
  <2> QED
    BY <1>2, <1>3, <1>4, <1>6, <1>7, <2>1, <2>2
<1> QED
  BY <1>5, <1>7 DEF OnNode, Unmade

\* A command that ends: its file may go with a token that was still pending.
LEMMA HeldEnds ==
  ASSUME Control, OnNode, NEW p \in Proc, NEW c, Becomes(p, c), Active(p),
         c.pc \in {"idle", "persist"}, c.pc = "persist" => c.op = proc[p].op /\ c.token = proc[p].token,
         req' = req \/ \E r \in Slot : req' = [req EXCEPT ![r] = NoRequest] /\ Waits(p, r),
         \/ files' = files
         \/ /\ c.pc = "idle" /\ Pending(p) /\ files' = files \ {proc[p].token}
            /\ \A r \in Slot : ~(Waits(p, r) /\ Working(r))
  PROVE  OnNode'
<1>0. /\ Typed /\ req \in [Slot -> Request] /\ proc \in [Proc -> Command]
      /\ \A r \in Slot : Linked(r)
      /\ \A q \in Proc : proc[q].pc = "wait" => proc[q].at \in Slot
  BY ProcTyped DEF Control, Typed, ActorsTyped
<1>1. /\ proc'[p] = c /\ hash' = hash
      /\ \A q \in Proc : q # p => proc'[q] = proc[q]
  BY <1>0 DEF Becomes, remote
<1>2. \A s \in Slot : req'[s] = req[s] \/ (req'[s] = NoRequest /\ Waits(p, s))
  BY <1>0
<1>3. \A s \in Slot : Asks(s)' => Asks(s) /\ req'[s] = req[s]
  BY <1>2 DEF Asks, Working, NoRequest
<1>4. \A q \in Proc : Rotates(q)' => Rotates(q) /\ proc'[q].token = proc[q].token
  BY <1>1 DEF Rotates, Active
<1>5. \A q \in Proc : Pending(q)' => q # p
  BY <1>1 DEF Pending
<1>6. ASSUME NEW q \in Proc, q # p, Pending(q)' PROVE Pending(q)
  <2>1. proc'[q] = proc[q]
    BY <1>1, <1>6
  <2>2. proc[q].pc = "wait" => req'[proc[q].at] = req[proc[q].at]
    BY <1>0, <1>2, <1>6 DEF Linked, Waits
  <2> QED
    BY <1>6, <2>1, <2>2 DEF Pending
<1>7. Unmade'
  <2> SUFFICES ASSUME NEW q \in Proc, Pending(q)'
               PROVE  /\ hash' # proc'[q].token
                      /\ \A s \in Slot : Asks(s)' /\ req'[s].token = proc'[q].token =>
                           Waits(q, s)'
    BY DEF Unmade
  <2>1. q # p /\ Pending(q) /\ proc'[q] = proc[q]
    BY <1>1, <1>5, <1>6
  <2> QED
    BY <1>1, <1>3, <2>1 DEF OnNode, Unmade, Waits
<1>8. Held'
  <2>1. CASE files' = files
    BY <1>1, <1>3, <1>4, <2>1 DEF OnNode, Held
  <2>2. CASE /\ c.pc = "idle" /\ Pending(p) /\ files' = files \ {proc[p].token}
             /\ \A r \in Slot : ~(Waits(p, r) /\ Working(r))
    <3>1. hash # proc[p].token /\ \A r \in Slot : Asks(r) => req[r].token # proc[p].token
      BY <2>2 DEF OnNode, Unmade, Asks
    <3>2. \A q \in Proc : Rotates(q)' => q # p
      BY <1>1, <2>2 DEF Rotates, Active
    <3>3. Rotates(p)
      BY <2>2 DEF Rotates, Active, Pending
    <3>4. \A q \in Proc : Rotates(q)' => proc[q].token # proc[p].token
      BY <1>4, <3>2, <3>3 DEF OnNode, Held
    <3> QED
      BY <1>1, <1>3, <1>4, <2>2, <3>1, <3>4 DEF OnNode, Held
  <2> QED
    BY <2>1, <2>2
<1> QED
  BY <1>7, <1>8 DEF OnNode

\* A command that begins: a rotation has a new token, with its file.
LEMMA HeldBegins ==
  ASSUME Control, OnNode, NEW p \in Proc, NEW c, Becomes(p, c), proc[p].pc = "idle",
         c.pc = "send", req' = req,
         \/ c.op = "revoke" /\ files' = files
         \/ c.op = "rotate" /\ c.token = issued + 1 /\ files' = files \cup {issued + 1}
  PROVE  OnNode'
<1>0. /\ Typed /\ proc \in [Proc -> Command] /\ issued \in Nat /\ files \subseteq 1..issued
      /\ \A r \in Slot : Working(r) => req[r].token \in 1..issued
      /\ \A q \in Proc : Active(q) => proc[q].token \in 1..issued
  BY ProcTyped DEF Control, Typed, NodeTyped
<1>1. /\ proc'[p] = c /\ hash' = hash
      /\ \A q \in Proc : q # p => proc'[q] = proc[q]
  BY <1>0 DEF Becomes, remote
<1>2. \A s \in Slot : Asks(s)' = Asks(s)
  BY DEF Asks, Working
<1>3. \A q \in Proc : q # p => /\ Rotates(q)' = Rotates(q) /\ Pending(q)' = Pending(q)
                               /\ \A s \in Slot : Waits(q, s)' = Waits(q, s)
  BY <1>1 DEF Rotates, Active, Pending, Waits
<1>4. hash \in 1..issued \/ hash = Nothing
  BY <1>0 DEF OnNode, Held
<1>5. issued + 1 \notin 1..issued /\ issued + 1 # Nothing
  BY <1>0 DEF Nothing
<1>6. c.op = "rotate" =>
        /\ hash # c.token
        /\ \A s \in Slot : Asks(s) => req[s].token # c.token
        /\ \A q \in Proc : Rotates(q) => proc[q].token # c.token
  BY <1>0, <1>4, <1>5 DEF Asks, Rotates
<1>7. c.op = "rotate" => c.token \in files'
  OBVIOUS
<1>8. files \subseteq files'
  OBVIOUS
<1>9. Rotates(p)' => c.op = "rotate"
  BY <1>1 DEF Rotates
<1>10. Held'
  <2>1. ASSUME NEW q \in Proc, Rotates(q)' PROVE proc'[q].token \in files'
    <3>1. CASE q = p
      BY <1>1, <1>7, <1>9, <2>1, <3>1
    <3>2. CASE q # p
      BY <1>1, <1>3, <1>8, <2>1, <3>2 DEF OnNode, Held
    <3> QED
      BY <3>1, <3>2
  <2>2. ASSUME NEW q \in Proc, NEW o \in Proc, Rotates(q)', Rotates(o)',
               proc'[q].token = proc'[o].token
        PROVE  q = o
    <3>1. CASE q # p /\ o # p
      BY <1>1, <1>3, <2>2, <3>1 DEF OnNode, Held
    <3>2. CASE q = p /\ o # p
      BY <1>1, <1>3, <1>6, <1>9, <2>2, <3>2
    <3>3. CASE q # p /\ o = p
      BY <1>1, <1>3, <1>6, <1>9, <2>2, <3>3
    <3> QED
      BY <3>1, <3>2, <3>3
  <2>3. \A r \in Slot : Asks(r)' => req'[r].token \in files'
    BY <1>2, <1>8 DEF OnNode, Held
  <2>4. hash' # Nothing => hash' \in files'
    BY <1>1, <1>8 DEF OnNode, Held
  <2> QED
    BY <2>1, <2>2, <2>3, <2>4 DEF Held
<1>11. Unmade'
  <2> SUFFICES ASSUME NEW q \in Proc, Pending(q)'
               PROVE  /\ hash' # proc'[q].token
                      /\ \A s \in Slot : Asks(s)' /\ req'[s].token = proc'[q].token =>
                           Waits(q, s)'
    BY DEF Unmade
  <2>1. CASE q = p
    <3>1. c.op = "rotate"
      BY <1>1, <2>1 DEF Pending
    <3> QED
      BY <1>1, <1>2, <1>6, <2>1, <3>1
  <2>2. CASE q # p
    BY <1>1, <1>2, <1>3, <2>2 DEF OnNode, Unmade
  <2> QED
    BY <2>1, <2>2
<1> QED
  BY <1>10, <1>11 DEF OnNode

\* A command that sends its request.
LEMMA HeldSends ==
  ASSUME Control, OnNode, NEW p \in Proc, NEW r \in Slot, Send(p, r)
  PROVE  OnNode'
<1>0. /\ Typed /\ req \in [Slot -> Request] /\ proc \in [Proc -> Command] /\ Linked(r)
      /\ \A q \in Proc : proc[q].pc = "wait" => proc[q].at \in Slot
  BY ProcTyped DEF Control, Typed, ActorsTyped
<1>1. /\ hash' = hash /\ files' = files /\ proc[p].pc = "send" /\ req[r].pc = "idle"
      /\ \A q \in Proc : q # p => proc'[q] = proc[q]
      /\ proc'[p].pc = "wait" /\ proc'[p].at = r
      /\ proc'[p].op = proc[p].op /\ proc'[p].token = proc[p].token
  BY <1>0 DEF Send, Becomes, remote, local, Command
<1>2. /\ \A s \in Slot : s # r => req'[s] = req[s]
      /\ req'[r].pc = "lookup" /\ req'[r].op = proc[p].op /\ req'[r].token = proc[p].token
  BY <1>0 DEF Send
<1>3. \A q \in Proc : /\ Rotates(q)' = Rotates(q) /\ proc'[q].token = proc[q].token
  BY <1>1 DEF Rotates, Active
<1>4. \A s \in Slot : Asks(s)' =>
        \/ s # r /\ Asks(s) /\ req'[s] = req[s]
        \/ s = r /\ Rotates(p) /\ req'[s].token = proc[p].token
  BY <1>1, <1>2 DEF Asks, Working, Rotates, Active
<1>5. Held'
  BY <1>1, <1>3, <1>4 DEF OnNode, Held
<1>6. \A q \in Proc : ~Waits(q, r)
  BY <1>0, <1>1 DEF Linked
<1>7. \A q \in Proc : Pending(q)' => Pending(q)
  <2>1. SUFFICES ASSUME NEW q \in Proc, Pending(q)' PROVE Pending(q)
    OBVIOUS
  <2>2. CASE q = p
    BY <1>1, <2>1, <2>2 DEF Pending
  <2>3. CASE q # p
    <3>1. proc[q].pc = "wait" => req'[proc[q].at] = req[proc[q].at]
      BY <1>0, <1>2, <1>6 DEF Waits
    <3> QED
      BY <1>1, <2>1, <2>3, <3>1 DEF Pending
  <2> QED
    BY <2>2, <2>3
<1>8. Unmade'
  <2> SUFFICES ASSUME NEW q \in Proc, Pending(q)', NEW s \in Slot
               PROVE  /\ hash' # proc'[q].token
                      /\ Asks(s)' /\ req'[s].token = proc'[q].token => Waits(q, s)'
    BY DEF Unmade
  <2>1. Pending(q) /\ hash' # proc'[q].token
    BY <1>1, <1>3, <1>7 DEF OnNode, Unmade
  <2>2. ASSUME Asks(s)', req'[s].token = proc'[q].token PROVE Waits(q, s)'
    <3>1. CASE s # r
      <4>1. Waits(q, s)
        BY <1>3, <1>4, <2>1, <2>2, <3>1 DEF OnNode, Unmade
      <4> QED
        BY <1>1, <4>1 DEF Waits
    <3>2. CASE s = r
      <4>1. Rotates(p) /\ proc[p].token = proc[q].token
        BY <1>3, <1>4, <2>2, <3>2
      <4>2. Rotates(q)
        BY <2>1 DEF Rotates, Active, Pending
      <4>3. q = p
        BY <4>1, <4>2 DEF OnNode, Held
      <4> QED
        BY <1>1, <3>2, <4>3 DEF Waits
    <3> QED
      BY <3>1, <3>2
  <2> QED
    BY <2>1, <2>2
<1> QED
  BY <1>5, <1>8 DEF OnNode

LEMMA OnNodeNext == ~Loses /\ Control /\ OnNode /\ [Next]_vars => OnNode'
<1> SUFFICES ASSUME ~Loses, Control, OnNode, [Next]_vars PROVE OnNode'
  OBVIOUS
<1>0. /\ Typed /\ req \in [Slot -> Request] /\ proc \in [Proc -> Command]
      /\ \A r \in Slot : Linked(r)
      /\ \A p \in Proc : proc[p].op \in {"rotate", "revoke"}
  BY ProcTyped DEF Control
<1>1. ASSUME NEW r \in Slot, Serve(r) PROVE OnNode'
  BY <1>1, HeldServe
<1>2. ASSUME NEW p \in Proc, NEW overlap \in Overlaps, StartRotate(p, overlap)
      PROVE  OnNode'
  <2>1. PICK c : c = [NoCommand EXCEPT !.pc = "send", !.token = issued + 1,
                                       !.overlap = overlap]
    OBVIOUS
  <2>2. c.pc = "send" /\ c.op = "rotate" /\ c.token = issued + 1
    BY <2>1 DEF NoCommand
  <2>3. Becomes(p, c) /\ proc[p].pc = "idle" /\ req' = req /\ files' = files \cup {issued + 1}
    BY <1>2, <2>1 DEF StartRotate
  <2> QED
    BY <2>2, <2>3, HeldBegins
<1>3. ASSUME NEW p \in Proc, NEW t \in files, StartRevoke(p, t) PROVE OnNode'
  <2>1. PICK c : c = [NoCommand EXCEPT !.pc = "send", !.op = "revoke", !.token = t]
    OBVIOUS
  <2>2. c.pc = "send" /\ c.op = "revoke"
    BY <2>1 DEF NoCommand
  <2>3. Becomes(p, c) /\ proc[p].pc = "idle" /\ req' = req /\ files' = files
    BY <1>3, <2>1 DEF StartRevoke, local
  <2> QED
    BY <2>2, <2>3, HeldBegins
<1>4. ASSUME NEW p \in Proc, NEW r \in Slot, Send(p, r) PROVE OnNode'
  BY <1>4, HeldSends
<1>5. ASSUME NEW p \in Proc, NEW r \in Slot, Receive(p, r) PROVE OnNode'
  <2>1. /\ Active(p) /\ Waits(p, r) /\ req' = [req EXCEPT ![r] = NoRequest]
    BY <1>5 DEF Receive, Active, Waits
  <2>2. CASE req[r].pc = "ROTATED" /\ Becomes(p, [proc[p] EXCEPT !.pc = "persist"])
                                   /\ files' = files
    <3>1. PICK c : c = [proc[p] EXCEPT !.pc = "persist"]
      OBVIOUS
    <3>2. c.pc = "persist" /\ c.op = proc[p].op /\ c.token = proc[p].token
      BY <1>0, <3>1 DEF Command
    <3> QED
      BY <2>1, <2>2, <3>1, <3>2, HeldEnds
  <2>3. CASE Becomes(p, NoCommand) /\ files' = files
    BY <2>1, <2>3, HeldEnds DEF NoCommand
  <2>4. CASE req[r].pc = "ERROR" /\ GivesUp(p)
    <3>1. \/ files' = files
          \/ proc[p].op = "rotate" /\ files' = files \ {proc[p].token}
      BY <2>4 DEF GivesUp
    <3>2. proc[p].op = "rotate" => Pending(p)
      BY <2>1, <2>4 DEF Pending, Waits
    <3>3. \A s \in Slot : ~(Waits(p, s) /\ Working(s))
      BY <2>1, <2>4 DEF Waits, Working
    <3>4. Becomes(p, NoCommand)
      BY <2>4 DEF GivesUp
    <3> QED
      BY <2>1, <3>1, <3>2, <3>3, <3>4, HeldEnds DEF NoCommand
  <2> QED
    BY <1>5, <2>2, <2>3, <2>4 DEF Receive, local
<1>6. ASSUME NEW p \in Proc, Lost(p) PROVE OnNode'
  <2>1. proc[p].pc = "send" /\ GivesUp(p) /\ req' = req
    BY <1>6 DEF Lost
  <2>2. \/ files' = files
        \/ proc[p].op = "rotate" /\ files' = files \ {proc[p].token}
    BY <2>1 DEF GivesUp
  <2>3. proc[p].op = "rotate" => Pending(p)
    BY <2>1 DEF Pending
  <2>4. Becomes(p, NoCommand) /\ Active(p) /\ \A s \in Slot : ~Waits(p, s)
    BY <2>1 DEF GivesUp, Active, Waits
  <2> QED
    BY <2>1, <2>2, <2>3, <2>4, HeldEnds DEF NoCommand
<1>7. ASSUME NEW p \in Proc, Persist(p) \/ PersistFails(p) \/ Killed(p) PROVE OnNode'
  <2>1. Becomes(p, NoCommand) /\ Active(p) /\ req' = req /\ files' = files
    BY <1>7 DEF Persist, PersistFails, Killed, Active, local
  <2> QED
    BY <2>1, HeldEnds DEF NoCommand
<1>8. ASSUME Expire \/ UNCHANGED vars PROVE OnNode'
  <2>1. UNCHANGED <<hash, files, req, proc>>
    BY <1>8 DEF Expire, vars, remote, local
  <2> QED
    BY <2>1 DEF OnNode, Held, Unmade, Pending, Asks, Rotates, Working, Active, Waits
<1> QED
  BY <1>1, <1>2, <1>3, <1>4, <1>5, <1>6, <1>7, <1>8 DEF Next, Run

\* With no answer lost, the node keeps the token that the Worker accepts,
\* for any commands together: a client file is removed only with a token
\* that the Worker has not taken and will not.
THEOREM NewTokenIsKept == ASSUME ~Loses PROVE Spec => []NewTokenKept
<1>1. Init => OnNode
  BY DEF Init, OnNode, Held, Unmade, Pending, Asks, Rotates, Working, Active, NoRequest,
     NoCommand
<1>2. Control /\ OnNode /\ [Next]_vars => OnNode'
  BY OnNodeNext
<1>3. OnNode => NewTokenKept
  BY DEF OnNode, Held, NewTokenKept
<1>4. Inv => Control
  BY DEF Inv
<1> QED
  BY <1>1, <1>2, <1>3, <1>4, InvAlways, PTL DEF Spec
=============================================================================
