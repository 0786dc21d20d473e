----------------------------- MODULE MCHostParts -----------------------------
(***************************************************************************)
(* The four parts of a host beside the managed files, each by itself:      *)
(* their variables are disjoint, and part says which of them moves.        *)
(***************************************************************************)
EXTENDS UdpBuffer, Fail2ban, PortHop, Subscription

VARIABLE part

partsVars == <<part, udpVars, jailVars, hopVars, subVars>>

\* The parts that do not move have one initial state.
Init ==
  /\ part \in {"udp", "jail", "hop", "subscription"}
  /\ UdpInit /\ JailInit /\ HopInit /\ SubInit
  /\ part # "udp" => host = Profile
  /\ part # "jail" => jail = NoJail /\ sshPort = CHOOSE n \in Port : TRUE
  /\ part # "hop" => listener = CHOOSE n \in Listener : TRUE

\* No command is under way, and none need come.
Rest ==
  /\ udpPc = "idle" /\ Idle /\ preparing = "no" /\ verified = NoSpan
  /\ \A p \in Shell : subPc[p] = "idle"
  /\ UNCHANGED partsVars

Next ==
  /\ UNCHANGED part
  /\ \/ part = "udp" /\ UdpNext /\ UNCHANGED <<jailVars, hopVars, subVars>>
     \/ part = "jail" /\ JailNext /\ UNCHANGED <<udpVars, hopVars, subVars>>
     \/ part = "hop" /\ HopNext /\ UNCHANGED <<udpVars, jailVars, subVars>>
     \/ part = "subscription" /\ SubNext /\ UNCHANGED <<udpVars, jailVars, hopVars>>
     \/ Rest

Spec == Init /\ [][Next]_partsVars
=============================================================================
