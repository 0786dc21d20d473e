--------------------------- MODULE WorkerPublish ---------------------------
(***************************************************************************)
(* The subscription Worker (deploy/cloudflare/worker.mjs) of one node:     *)
(* publishing a revision, activating or rolling back to a stored one, over *)
(* a key-value store that is written one key at a time.                    *)
(*                                                                         *)
(* Every await is a point where other requests run.  Publish requests of   *)
(* one isolate are queued behind each other (serializeNodePublish);        *)
(* activate and rollback requests are not, and another isolate has another *)
(* queue.  An operation of the store may throw, and an isolate may be      *)
(* evicted with all its requests.  Each operation of the store takes       *)
(* effect at once: its delays elsewhere are left out.                      *)
(*                                                                         *)
(* The node derives the publication identifier from its revision, so the   *)
(* revision stands for both.                                               *)
(***************************************************************************)
EXTENDS Naturals, Sequences

CONSTANTS
  Req,       \* requests that may be in flight together
  Isolate,   \* isolates of the Worker
  MaxRev,    \* bound: node revisions published
  Body,      \* contents a revision may be rendered with
  Carries,   \* Carries[b]: the targets of content b
  Shared,    \* targets whose bytes are the same in every content
  Activates  \* activate and rollback requests arrive: "never"; only while no
             \* other request is in flight, "alone"; or at any time, "any"

Required == {"mihomo", "v2rayn", "manifest"}
Target   == UNION {Carries[b] : b \in Body}
Rev      == 1..MaxRev

ASSUME BodyAssumption ==
  /\ Body # {} /\ Carries \in [Body -> SUBSET Target]
  /\ \A b \in Body : Required \subseteq Carries[b]
  /\ Shared \subseteq Target \ {"manifest"}
  /\ "none" \notin Body /\ "shared" \notin Body
ASSUME RequestAssumption == MaxRev \in Nat /\ Activates \in {"never", "alone", "any"}

VARIABLES
  revision,     \* artifact/<target>/revision/<publication>
  candidate,    \* node/<node>/candidate/<publication>: its targets
  current,      \* artifact/<target>/current
  publication,  \* publication/current
  queue,        \* nodePublishQueues, one per isolate
  req,          \* the requests in flight
  answer        \* the last answer to each

kv   == <<revision, candidate, current, publication>>
vars == <<revision, candidate, current, publication, queue, req, answer>>

\* Faulty: the record names the revision after its own.
ArtifactRecordNext(v, b, t) == [rev |-> v + 1, sum |-> IF t \in Shared THEN "shared" ELSE b]

\* The record of target t in content b of revision v, and one never stored.
ArtifactRecord(v, b, t) == [rev |-> v, sum |-> IF t \in Shared THEN "shared" ELSE b]
NoRecord == [rev |-> 0, sum |-> "none"]
Record   == [rev : 0..MaxRev, sum : Body \cup {"shared", "none"}]

\* A request: where it is, its input, the targets still to handle, the one a
\* lookup has missed, and the records an activation has read.
NoRequest == [pc |-> "idle", iso |-> CHOOSE i \in Isolate : TRUE, rev |-> 0, body |-> "none",
              todo |-> {}, missing |-> "", got |-> [t \in Target |-> NoRecord]]

Publishing == {"check", "store", "put", "candidate", "recheck", "switch", "active"}
Activating == {"resolve", "activate"}

Init ==
  /\ revision = [v \in Rev |-> [t \in Target |-> NoRecord]]
  /\ candidate = [v \in Rev |-> {}]
  /\ current = [t \in Target |-> NoRecord]
  /\ publication = [rev |-> 0, targets |-> {}]
  /\ queue = [i \in Isolate |-> <<>>]
  /\ req = [r \in Req |-> NoRequest]
  /\ answer = [r \in Req |-> "NONE"]

-----------------------------------------------------------------------------

\* r runs: an activation does from the start, a publication once it is first
\* in its isolate's queue.
Runs(r, pc) ==
  /\ req[r].pc = pc
  /\ pc \in Publishing => Head(queue[req[r].iso]) = r

Set(r, request) == req' = [req EXCEPT ![r] = request] /\ UNCHANGED <<queue, answer>>

\* Faulty: an error leaves the queue blocked.
AnswerStuck(r, a) ==
  /\ answer' = [answer EXCEPT ![r] = a]
  /\ req' = [req EXCEPT ![r] = NoRequest]
  /\ queue' = IF req[r].pc \in Publishing /\ a # "ERROR"
              THEN [queue EXCEPT ![req[r].iso] = Tail(@)] ELSE queue

\* r is answered; the next publication of its isolate may run, whatever the
\* answer.
Answer(r, a) ==
  /\ answer' = [answer EXCEPT ![r] = a]
  /\ req' = [req EXCEPT ![r] = NoRequest]
  /\ queue' = IF req[r].pc \in Publishing
              THEN [queue EXCEPT ![req[r].iso] = Tail(@)] ELSE queue

\* Faulty: the publication runs at once.
EnqueueFirst(r, i) == queue' = [queue EXCEPT ![i] = <<r>> \o @]

\* serializeNodePublish.
Enqueue(r, i) == queue' = [queue EXCEPT ![i] = Append(@, r)]

\* Who is in flight when a request may arrive, and an activation may.
Admits(r) ==
  /\ req[r].pc = "idle"
  /\ Activates = "alone" => \A q \in Req : req[q].pc \notin Activating
AdmitsActivation(r) ==
  /\ Admits(r) /\ Activates # "never"
  /\ Activates = "alone" => \A q \in Req : req[q].pc = "idle"

\* A signed publish request with a valid payload reaches isolate i.
PublishArrives(r, i, v, b) ==
  /\ Admits(r)
  /\ req' = [req EXCEPT ![r] = [NoRequest EXCEPT !.pc = "check", !.iso = i, !.rev = v, !.body = b]]
  /\ answer' = [answer EXCEPT ![r] = "NONE"]
  /\ Enqueue(r, i)
  /\ UNCHANGED kv

\* A signed activate or rollback request reaches isolate i.
ActivateArrives(r, i, v) ==
  /\ AdmitsActivation(r)
  /\ req' = [req EXCEPT ![r] = [NoRequest EXCEPT !.pc = "resolve", !.iso = i, !.rev = v]]
  /\ answer' = [answer EXCEPT ![r] = "NONE"]
  /\ UNCHANGED <<kv, queue>>

-----------------------------------------------------------------------------
(* publishArtifacts.                                                       *)

Payload(r, t) == ArtifactRecord(req[r].rev, req[r].body, t)
Targets(r)    == Carries[req[r].body]

\* storedPublicationMatches: one isolate writes a record once, so reading them
\* in turn is reading them together.
StoredMatches(r) == \A t \in Targets(r) : revision[req[r].rev][t] = Payload(r, t)

\* Not newer than the current publication: refused, or answered again if it
\* is the current publication itself.
NotNewer(r, conflict) ==
  /\ publication.rev >= req[r].rev
  /\ \/ publication.rev = req[r].rev /\ StoredMatches(r) /\ Answer(r, "COMMITTED")
     \/ publication.rev = req[r].rev /\ ~StoredMatches(r) /\ Answer(r, conflict)
     \/ publication.rev > req[r].rev /\ Answer(r, "STALE_REVISION")
  /\ UNCHANGED kv

Check(r) ==
  /\ Runs(r, "check")
  /\ \/ NotNewer(r, "REVISION_CONFLICT")
     \/ /\ publication.rev < req[r].rev
        /\ Set(r, [req[r] EXCEPT !.pc = "store", !.todo = Targets(r)])
        /\ UNCHANGED kv

\* Faulty: the targets are handled in any order.
AnyTarget(r, t) == t \in req[r].todo

\* The node sends its targets in a fixed order and appends the manifest.
NextTarget(r, t) ==
  /\ req[r].todo # {}
  /\ t = CHOOSE x \in req[r].todo : x = "manifest" => req[r].todo = {"manifest"}

\* What the history holds for target t of r's publication.
Existing(r, t) == revision[req[r].rev][t]

\* One target's record is looked up.
Probe(r, t) ==
  /\ Runs(r, "store") /\ NextTarget(r, t)
  /\ \/ /\ Existing(r, t) = NoRecord
        /\ Set(r, [req[r] EXCEPT !.pc = "put", !.missing = t])
     \/ /\ Existing(r, t) = Payload(r, t)
        /\ Set(r, [req[r] EXCEPT !.todo = @ \ {t}])
     \/ /\ Existing(r, t) \notin {NoRecord, Payload(r, t)}
        /\ Answer(r, "IMMUTABLE_REVISION_CONFLICT")
  /\ UNCHANGED kv

\* It was missing: it is written, whatever it has become.
Put(r) ==
  /\ Runs(r, "put")
  /\ LET t == req[r].missing
     IN  /\ revision' = [revision EXCEPT ![req[r].rev][t] = Payload(r, t)]
         /\ Set(r, [req[r] EXCEPT !.pc = "store", !.missing = "", !.todo = @ \ {t}])
  /\ UNCHANGED <<candidate, current, publication>>

\* All targets are read back; one may not be visible yet.
ReadBack(r) ==
  /\ Runs(r, "store") /\ req[r].todo = {}
  /\ \/ Set(r, [req[r] EXCEPT !.pc = "candidate"])
     \/ Answer(r, "DEGRADED")
  /\ UNCHANGED kv

Candidate(r) ==
  /\ Runs(r, "candidate")
  /\ candidate' = [candidate EXCEPT ![req[r].rev] = Targets(r)]
  /\ Set(r, [req[r] EXCEPT !.pc = "recheck"])
  /\ UNCHANGED <<revision, current, publication>>

\* The current publication is read again before the switch.
Recheck(r) ==
  /\ Runs(r, "recheck")
  /\ \/ NotNewer(r, "STALE_REVISION")
     \/ /\ publication.rev < req[r].rev
        /\ Set(r, [req[r] EXCEPT !.pc = "switch", !.todo = Targets(r)])
        /\ UNCHANGED kv

\* One target is served from this publication.
Switch(r, t) ==
  /\ Runs(r, "switch") /\ NextTarget(r, t)
  /\ current' = [current EXCEPT ![t] = revision[req[r].rev][t]]
  /\ Set(r, [req[r] EXCEPT !.todo = @ \ {t}])
  /\ UNCHANGED <<revision, candidate, publication>>

\* Faulty: the publication is named once its first target is served.
CommitEarly(r) ==
  /\ Runs(r, "switch") /\ req[r].todo # Targets(r)
  /\ publication' = [rev |-> req[r].rev, targets |-> Targets(r)]
  /\ Set(r, [req[r] EXCEPT !.pc = "active"])
  /\ UNCHANGED <<revision, candidate, current>>

\* All are: it becomes the current publication.
Commit(r) ==
  /\ Runs(r, "switch") /\ req[r].todo = {}
  /\ publication' = [rev |-> req[r].rev, targets |-> Targets(r)]
  /\ Set(r, [req[r] EXCEPT !.pc = "active"])
  /\ UNCHANGED <<revision, candidate, current>>

\* node/<node>/active, which nothing reads, is written.
Finish(r) ==
  /\ Runs(r, "active")
  /\ Answer(r, "COMMITTED")
  /\ UNCHANGED kv

-----------------------------------------------------------------------------
(* activatePublication: activate and rollback.                             *)

\* targetsForPublication: those of the candidate, or of schema version 1.
Resolved(v) == IF candidate[v] # {} THEN candidate[v] ELSE Required

\* Faulty: missing records are not noticed.
FoundAnyway(v) == TRUE

\* All records of publication v are there.
Found(v) == \A t \in Resolved(v) : revision[v][t] # NoRecord

\* The records of the publication are read, if it has them all.  One isolate
\* writes a record once, so reading them in turn is reading them together.
Resolve(r) ==
  /\ Runs(r, "resolve")
  /\ LET v == req[r].rev
     IN  \/ /\ Found(v)
            /\ Set(r, [req[r] EXCEPT !.pc = "activate", !.todo = Resolved(v), !.got =
                 [t \in Target |-> IF t \in Resolved(v) THEN revision[v][t] ELSE NoRecord]])
         \/ ~Found(v) /\ Answer(r, "NOT_FOUND")
  /\ UNCHANGED kv

ActivateTarget(r, t) ==
  /\ Runs(r, "activate") /\ NextTarget(r, t)
  /\ current' = [current EXCEPT ![t] = req[r].got[t]]
  /\ Set(r, [req[r] EXCEPT !.todo = @ \ {t}])
  /\ UNCHANGED <<revision, candidate, publication>>

Activate(r) ==
  /\ Runs(r, "activate") /\ req[r].todo = {}
  /\ publication' = [rev |-> req[r].got["manifest"].rev,
                     targets |-> {t \in Target : req[r].got[t] # NoRecord}]
  /\ Answer(r, "ACTIVATED")
  /\ UNCHANGED <<revision, candidate, current>>

-----------------------------------------------------------------------------

\* An operation of the store throws: route answers 500.
Fails(r) ==
  /\ \E pc \in Publishing \cup Activating : Runs(r, pc)
  /\ Answer(r, "ERROR")
  /\ UNCHANGED kv

\* An isolate is evicted.
Evict(i) ==
  /\ \E r \in Req : req[r].pc # "idle" /\ req[r].iso = i
  /\ req' = [r \in Req |-> IF req[r].iso = i THEN NoRequest ELSE req[r]]
  /\ queue' = [queue EXCEPT ![i] = <<>>]
  /\ UNCHANGED <<kv, answer>>

Step(r) ==
  \/ Check(r) \/ (\E t \in Target : Probe(r, t)) \/ Put(r) \/ ReadBack(r) \/ Candidate(r)
  \/ Recheck(r) \/ (\E t \in Target : Switch(r, t)) \/ Commit(r) \/ Finish(r)
  \/ Resolve(r) \/ (\E t \in Target : ActivateTarget(r, t)) \/ Activate(r)

Arrives(r) ==
  \E i \in Isolate, v \in Rev :
    ActivateArrives(r, i, v) \/ \E b \in Body : PublishArrives(r, i, v, b)

Next ==
  \/ \E r \in Req : Arrives(r) \/ Step(r) \/ Fails(r)
  \/ \E i \in Isolate : Evict(i)

Spec == Init /\ [][Next]_vars

-----------------------------------------------------------------------------
(* Properties.                                                             *)

\* Every variable has its type.
TypeOK ==
  /\ revision \in [Rev -> [Target -> Record]]
  /\ candidate \in [Rev -> SUBSET Target]
  /\ current \in [Target -> Record]
  /\ publication \in [rev : 0..MaxRev, targets : SUBSET Target]
  /\ queue \in [Isolate -> Seq(Req)]
  /\ \A r \in Req : /\ req[r].pc \in Publishing \cup Activating \cup {"idle"}
                    /\ req[r].todo \subseteq Target

\* A publication whose manifest is stored has all it lists stored, with the
\* content the manifest was made for, wherever earlier attempts stopped
\* (publishArtifacts stores the manifest last and refuses other content).
CompleteHistory ==
  \A v \in Rev, b \in Body :
    revision[v]["manifest"] = ArtifactRecord(v, b, "manifest") =>
      \A t \in Carries[b] : revision[v][t] = ArtifactRecord(v, b, t)

\* Whenever the current publication changes, every target it lists is served
\* from it: what publish and rollback answer for is what subscribers get.
SwitchIsWhole ==
  [][publication' # publication =>
       \A t \in publication'.targets : current'[t].rev = publication'.rev]_vars

\* Only an activation makes an older publication current (the STALE_REVISION
\* checks of publishArtifacts).
ForwardOnly ==
  [][publication'.rev < publication.rev =>
       \E r \in Req : req[r].pc = "activate" /\ req'[r].pc = "idle"]_vars

History == INSTANCE PublicationHistory
  WITH NoBody <- "none", NoRev <- 0,
       content <- [v \in Rev |-> revision[v]["manifest"].sum],
       shown <- publication.rev

\* Publications are immutable once complete, and only complete ones become
\* current.
ImplementsHistory == History!Spec

\* Requests that have arrived keep running.
FairSpec == Spec /\ \A r \in Req : WF_vars(Step(r))

\* Every request is answered or lost with its isolate, also the one queued
\* behind requests that failed (serializeNodePublish's catch).
EventuallyAnswered == \A r \in Req : req[r].pc # "idle" ~> req[r].pc = "idle"
=============================================================================
