-------------------------- MODULE MCWorkerPublish --------------------------
(***************************************************************************)
(* Instances of WorkerPublish for TLC.                                     *)
(***************************************************************************)
EXTENDS WorkerPublish

\* Two contents, one with a managed rule file and one without; or one content.
Bodies       == {"a", "b"}
BodyTargets  == [x \in Bodies |-> IF x = "a" THEN Required \cup {"rule"} ELSE Required]
OneBody      == {"a"}
OneTargets   == [x \in OneBody |-> Required]
=============================================================================
