----------------------------- MODULE ReadToken -----------------------------
(***************************************************************************)
(* The token subscribers read with: rotating and revoking it from the node *)
(* (internal/app/subscription.go) in the Worker that accepts it            *)
(* (deploy/cloudflare/worker.mjs).                                         *)
(*                                                                         *)
(* The commands take no lock, and neither do the requests in the Worker:   *)
(* every await is a point where another request runs.  A request goes on   *)
(* when its command was killed or has given up, and the next command does  *)
(* not wait for it.  An answer may be lost, the node's process may be      *)
(* killed, and an operation of the store may throw or its isolate be       *)
(* evicted.  A token stands for its hash.                                  *)
(***************************************************************************)
EXTENDS Naturals

CONSTANTS
  Proc,      \* commands that may run together
  Slot,      \* bound: requests that may be in the Worker together
  NoSlot,    \* no request
  MaxToken,  \* bound: tokens issued
  Ops,       \* the commands given: "rotate", "revoke"
  Overlaps,  \* whether a rotation asks for an overlap
  Loses      \* TRUE: an answer may be lost

Initial == 1                  \* the token the Worker was deployed with
Token   == 1..MaxToken
Nothing == 0                  \* no such key

ASSUME TokenAssumption == /\ MaxToken \in Nat \ {0}
                          /\ Ops \subseteq {"rotate", "revoke"}
                          /\ Overlaps \subseteq BOOLEAN /\ Loses \in BOOLEAN
                          /\ NoSlot \notin Slot

VARIABLES
  hash,         \* read-token/current-hash
  initialized,  \* read-token/initialized
  previous,     \* read-token/previous, and whether it has expired
  req,          \* the requests in the Worker
  secrets,      \* the read token of the node's subscription secrets
  files,        \* the tokens of the client files on the node
  issued,       \* the tokens generated so far
  proc,         \* the commands
  revoked,      \* the tokens a command has reported revoked
  crossed       \* history: the rotations and revocations that met another

remote == <<hash, initialized, previous>>
local  == <<secrets, files, issued, revoked>>
vars   == <<remote, local, req, proc, crossed>>

Forgotten == [token |-> Nothing, live |-> FALSE]
NoRequest == [pc |-> "idle", op |-> "rotate", token |-> Nothing, overlap |-> FALSE,
              seen |-> Nothing]
NoCommand == [pc |-> "idle", op |-> "rotate", token |-> Nothing, overlap |-> FALSE,
              at |-> NoSlot]

Init ==
  /\ hash = Nothing /\ initialized = FALSE /\ previous = Forgotten
  /\ req = [r \in Slot |-> NoRequest]
  /\ secrets = Initial /\ files = {Initial} /\ issued = 1 /\ revoked = {}
  /\ proc = [p \in Proc |-> NoCommand] /\ crossed = {}

-----------------------------------------------------------------------------
(* The Worker.                                                             *)

\* What currentReadTokenHash answers.
Current == IF hash # Nothing THEN hash ELSE IF initialized THEN Nothing ELSE Initial

\* validReadToken.
Valid(t) == t = Current \/ (previous.token = t /\ previous.live)

\* r is between the first and the last of its operations on the store.
Working(r) == req[r].pc \notin {"idle", "ROTATED", "REVOKED", "ERROR"}

\* Request r goes on at pc.
Goto(r, pc) == req' = [req EXCEPT ![r].pc = pc] /\ UNCHANGED <<local, proc, crossed>>

\* Request r is done; its answer is on the way.
Reply(r, status) == req' = [req EXCEPT ![r] = [NoRequest EXCEPT !.pc = status]]
                    /\ UNCHANGED <<local, proc, crossed>>

\* What the request found current, and where it goes then.
Seen(r, t) ==
  /\ req' = [req EXCEPT ![r].seen = t, ![r].pc =
               IF req[r].op = "rotate" THEN "overlap"
               ELSE IF t = req[r].token THEN "mark" ELSE "previous"]
  /\ UNCHANGED <<remote, local, proc, crossed>>

\* currentReadTokenHash: the stored hash; if there is none, the marker.
Lookup(r) ==
  /\ req[r].pc = "lookup"
  /\ IF hash # Nothing THEN Seen(r, hash) ELSE Goto(r, "marker") /\ UNCHANGED remote

Marker(r) ==
  /\ req[r].pc = "marker"
  /\ Seen(r, IF initialized THEN Nothing ELSE Initial)

\* Faulty: no token at all is kept as the previous one.
KeptAlways(r) == IF req[r].overlap THEN [token |-> req[r].seen, live |-> TRUE] ELSE Forgotten

\* The token that was current, while it overlaps with its successor.
Kept(r) == IF req[r].seen # Nothing /\ req[r].overlap
           THEN [token |-> req[r].seen, live |-> TRUE] ELSE Forgotten

Overlap(r) ==
  /\ req[r].pc = "overlap"
  /\ previous' = Kept(r)
  /\ Goto(r, "mark")
  /\ UNCHANGED <<hash, initialized>>

\* Faulty: revoking leaves the marker unset.
MarkRotated(r) ==
  /\ req[r].pc = "mark"
  /\ initialized' = (initialized \/ req[r].op = "rotate")
  /\ Goto(r, IF req[r].op = "rotate" THEN "current" ELSE "delete")
  /\ UNCHANGED <<hash, previous>>

\* From now on the deployment's own token is not a fallback.
Mark(r) ==
  /\ req[r].pc = "mark"
  /\ initialized' = TRUE
  /\ Goto(r, IF req[r].op = "rotate" THEN "current" ELSE "delete")
  /\ UNCHANGED <<hash, previous>>

\* Faulty: the token that was current stays so.
Unrotated(r) == req[r].seen

\* The token to be current.
NewToken(r) == req[r].token

Rotate(r) ==
  /\ req[r].pc = "current"
  /\ hash' = NewToken(r)
  /\ Reply(r, "ROTATED")
  /\ UNCHANGED <<initialized, previous>>

\* revokeReadToken: the token was current: now none is.
Delete(r) ==
  /\ req[r].pc = "delete"
  /\ hash' = Nothing
  /\ Goto(r, "previous")
  /\ UNCHANGED <<initialized, previous>>

LookupPrevious(r) ==
  /\ req[r].pc = "previous"
  /\ IF previous.token = req[r].token THEN Goto(r, "forget") ELSE Reply(r, "REVOKED")
  /\ UNCHANGED remote

Forget(r) ==
  /\ req[r].pc = "forget"
  /\ previous' = Forgotten
  /\ Reply(r, "REVOKED")
  /\ UNCHANGED <<hash, initialized>>

\* The store throws, or the isolate is evicted.
Breaks(r) ==
  /\ Working(r)
  /\ Reply(r, "ERROR")
  /\ UNCHANGED remote

\* The overlap of the previous token ends.
Expire ==
  /\ previous.live
  /\ previous' = [previous EXCEPT !.live = FALSE]
  /\ UNCHANGED <<hash, initialized, local, req, proc, crossed>>

-----------------------------------------------------------------------------
(* The node.                                                               *)

\* The rotations and revocations that are not over: their command runs, or
\* their request is still at work in the Worker.
UnderWay == {<<proc[p].op, proc[p].token>> : p \in {q \in Proc : proc[q].pc # "idle"}}
              \cup {<<req[r].op, req[r].token>> : r \in {x \in Slot : Working(x)}}

\* History: the one that begins meets those under way, and they meet it.
Meets(task) ==
  crossed' = IF UnderWay = {} THEN crossed ELSE crossed \cup UnderWay \cup {task}

Becomes(p, command) == proc' = [proc EXCEPT ![p] = command] /\ UNCHANGED remote

\* rotate-read-token: a new token, in a client file of its own.
StartRotate(p, overlap) ==
  /\ "rotate" \in Ops /\ proc[p].pc = "idle" /\ issued < MaxToken
  /\ issued' = issued + 1
  /\ files' = files \cup {issued + 1}
  /\ Becomes(p, [NoCommand EXCEPT !.pc = "send", !.token = issued + 1, !.overlap = overlap])
  /\ Meets(<<"rotate", issued + 1>>)
  /\ UNCHANGED <<secrets, revoked, req>>

\* revoke-read-token, of the token of a client file.
StartRevoke(p, t) ==
  /\ "revoke" \in Ops /\ proc[p].pc = "idle"
  /\ Becomes(p, [NoCommand EXCEPT !.pc = "send", !.op = "revoke", !.token = t])
  /\ Meets(<<"revoke", t>>)
  /\ UNCHANGED <<local, req>>

\* The signed request reaches the Worker.
Send(p, r) ==
  /\ proc[p].pc = "send" /\ req[r].pc = "idle"
  /\ req' = [req EXCEPT ![r] = [pc |-> "lookup", op |-> proc[p].op, token |-> proc[p].token,
                                overlap |-> proc[p].overlap, seen |-> Nothing]]
  /\ Becomes(p, [proc[p] EXCEPT !.pc = "wait", !.at = r])
  /\ UNCHANGED <<local, crossed>>

\* The command ends with an error.  A rotation removes its client file.
GivesUp(p) ==
  /\ files' = IF proc[p].op = "rotate" THEN files \ {proc[p].token} ELSE files
  /\ Becomes(p, NoCommand)
  /\ UNCHANGED <<secrets, issued, revoked>>

\* The answer arrives.
Receive(p, r) ==
  /\ proc[p].pc = "wait" /\ proc[p].at = r
  /\ req' = [req EXCEPT ![r] = NoRequest]
  /\ \/ /\ req[r].pc = "ROTATED"
        /\ Becomes(p, [proc[p] EXCEPT !.pc = "persist"])
        /\ UNCHANGED local
     \/ /\ req[r].pc = "REVOKED"
        /\ revoked' = revoked \cup {proc[p].token}
        /\ Becomes(p, NoCommand)
        /\ UNCHANGED <<secrets, files, issued>>
     \/ req[r].pc = "ERROR" /\ GivesUp(p)
  /\ UNCHANGED crossed

\* The request is not sent, is lost, times out, or its answer is lost.
Lost(p) ==
  /\ proc[p].pc = "send" \/ (Loses /\ proc[p].pc = "wait")
  /\ GivesUp(p)
  /\ UNCHANGED <<req, crossed>>

\* An answer nobody waits for.
Drop(r) ==
  /\ req[r].pc \in {"ROTATED", "REVOKED", "ERROR"}
  /\ \A p \in Proc : ~(proc[p].pc = "wait" /\ proc[p].at = r)
  /\ req' = [req EXCEPT ![r] = NoRequest]
  /\ UNCHANGED <<remote, local, proc, crossed>>

Persist(p) ==
  /\ proc[p].pc = "persist"
  /\ secrets' = proc[p].token
  /\ Becomes(p, NoCommand)
  /\ UNCHANGED <<files, issued, revoked, req, crossed>>

\* Faulty: the deferred removal of the client file is still armed.
PersistFailsAll(p) == proc[p].pc = "persist" /\ GivesUp(p) /\ UNCHANGED <<req, crossed>>

\* The secrets cannot be written: the client file stays.
PersistFails(p) ==
  /\ proc[p].pc = "persist"
  /\ Becomes(p, NoCommand)
  /\ UNCHANGED <<local, req, crossed>>

\* The command is killed: nothing deferred runs, and its request goes on.
Killed(p) ==
  /\ proc[p].pc # "idle"
  /\ Becomes(p, NoCommand)
  /\ UNCHANGED <<local, req, crossed>>

Serve(r) == \/ Lookup(r) \/ Marker(r) \/ Overlap(r) \/ Mark(r) \/ Rotate(r)
            \/ Delete(r) \/ LookupPrevious(r) \/ Forget(r) \/ Breaks(r) \/ Drop(r)

Run(p) == \/ \E overlap \in Overlaps : StartRotate(p, overlap)
          \/ \E t \in files : StartRevoke(p, t)
          \/ \E r \in Slot : Send(p, r) \/ Receive(p, r)
          \/ Lost(p) \/ Persist(p) \/ PersistFails(p) \/ Killed(p)

Next == Expire \/ (\E r \in Slot : Serve(r)) \/ (\E p \in Proc : Run(p))

Spec == Init /\ [][Next]_vars

-----------------------------------------------------------------------------
(* Properties.                                                             *)

\* Every variable has its type; a previous token that is live is a token.
TypeOK ==
  /\ hash \in Token \cup {Nothing} /\ initialized \in BOOLEAN
  /\ previous \in [token : Token \cup {Nothing}, live : BOOLEAN]
  /\ previous.live => previous.token \in Token
  /\ secrets \in Token /\ files \subseteq Token /\ issued \in Token /\ revoked \subseteq Token
  /\ crossed \subseteq {"rotate", "revoke"} \X Token
  /\ \A r \in Slot :
       req[r].token \in Token \cup {Nothing} /\ req[r].seen \in Token \cup {Nothing}
  /\ \A p \in Proc :
       /\ proc[p].pc \in {"idle", "send", "wait", "persist"}
       /\ proc[p].token \in Token \cup {Nothing}
       /\ proc[p].pc = "wait" => proc[p].at \in Slot

\* A token reported revoked never reads again, neither as the current one nor
\* as the overlapping one nor as the one the Worker was deployed with, if its
\* revocation met no other request or command: a rotation it met may have read
\* the token before, and store it as the previous one after (rotateReadToken).
RevokedStaysRevoked == \A t \in revoked : <<"revoke", t>> \notin crossed => ~Valid(t)

\* The token the Worker accepts as current is kept on the node, in its secrets
\* or in a client file (runSubscriptionRotateReadToken, keepOutput).
NewTokenKept == hash # Nothing => hash \in files \cup {secrets}

\* When the node learns that a token was rotated, the new one reads, if its
\* rotation met no other: the request of a command that was killed may store
\* its own hash last.
RotatedIsValid ==
  [][\A p \in Proc : proc[p].pc = "wait" /\ proc'[p].pc = "persist" =>
       Valid(proc[p].token) \/ <<"rotate", proc[p].token>> \in crossed]_vars
=============================================================================
