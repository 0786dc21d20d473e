---------------------------- MODULE Installation ----------------------------
(***************************************************************************)
(* What the transaction engine promises one operator: whatever is killed   *)
(* or fails on the way, the installation only ever moves by whole changes. *)
(* Each builds on the one before, none is lost, and each raises the        *)
(* configuration revision by one.  StateTx implements this specification.  *)
(***************************************************************************)
EXTENDS Naturals

CONSTANT Change   \* the changes that may ever be made

VARIABLES changes, revision

Init == changes = {} /\ revision = 1

Commit(c) ==
  /\ c \notin changes
  /\ changes' = changes \cup {c}
  /\ revision' = revision + 1

Next == \E c \in Change : Commit(c)

Spec == Init /\ [][Next]_<<changes, revision>>
=============================================================================
