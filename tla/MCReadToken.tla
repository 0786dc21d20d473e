---------------------------- MODULE MCReadToken ----------------------------
(***************************************************************************)
(* ReadToken for TLC: the requests in the Worker are interchangeable.      *)
(***************************************************************************)
EXTENDS ReadToken, TLC

Requests == Permutations(Slot)
=============================================================================
