------------------------- MODULE PublicationHistory -------------------------
(***************************************************************************)
(* What subscribers are promised about one node's publications: a          *)
(* publication, once complete, keeps its content for good, and the one     *)
(* named as current is always a complete one.  WorkerPublish implements    *)
(* this specification.                                                     *)
(***************************************************************************)
CONSTANTS
  Rev,      \* publications are named by the node revision they publish
  Body,     \* what they may contain
  NoBody,   \* the content of a publication that is not complete
  NoRev     \* the current publication before the first

VARIABLES
  content,   \* content[v]: what publication v contains, or NoBody
  shown      \* the current publication, or NoRev

Init == content = [v \in Rev |-> NoBody] /\ shown = NoRev

\* A publication is complete from now on.
Complete(v, b) ==
  /\ content[v] = NoBody
  /\ content' = [content EXCEPT ![v] = b]
  /\ UNCHANGED shown

\* A complete publication becomes the current one.
Show(v) ==
  /\ content[v] # NoBody
  /\ shown' = v
  /\ UNCHANGED content

Next == \E v \in Rev : Show(v) \/ \E b \in Body : Complete(v, b)

Spec == Init /\ [][Next]_<<content, shown>>
=============================================================================
