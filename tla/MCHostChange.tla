---------------------------- MODULE MCHostChange ----------------------------
(***************************************************************************)
(* Instances of HostChange for TLC: an operator's shell and the daily      *)
(* certificate timer.                                                      *)
(***************************************************************************)
EXTENDS HostChange

CONSTANTS op, timer

Hosts    == {op, timer}
HostRuns == [p \in Hosts |-> IF p = timer THEN {"cert"} ELSE Command \ {"cert"}]
=============================================================================
