--------------------------- MODULE UdpBufferProofs ---------------------------
(***************************************************************************)
(* Proofs about UdpBuffer, for any number of parameters, any values of     *)
(* them and any number of kills and failures.                              *)
(***************************************************************************)
EXTENDS UdpBuffer, TLAPS

\* The parameters before the next one to write have their values.
SetUpTo(values) == \A i \in 1..Params : i < next => sysctl[i] = values[i]

\* A command under way holds the host's values, and until it can have written
\* a record the kernel has them too.
HoldsOriginal ==
  /\ owned \in {NoRecord, host}
  /\ udpPc # "idle" => previous = host
  /\ udpPc \in {"set", "reset", "forget", "refile", "retune", "release", "remove"} =>
       owned = host
  /\ udpPc \in {"idle", "unfile", "unrecord", "record"} /\ owned = NoRecord =>
       \/ udpPc = "idle" /\ sysctlFile # "absent"
       \/ sysctl = host
  /\ udpPc \in {"unset", "reset", "release"} => SetUpTo(host)
  /\ udpPc \in {"forget", "remove"} => sysctl = host

\* Where every file is, step by step, as long as nothing was cut off.
Orderly ==
  /\ udpPc = "idle" => \/ /\ owned = host /\ sysctlFile = "managed"
                          /\ sysctl = Profile /\ socket = Profile
                       \/ owned = host /\ sysctlFile = "edited"
                       \/ /\ owned = NoRecord \/ (owned = host /\ "kept" \in slips)
                          /\ sysctlFile = "absent" /\ sysctl = host /\ socket = host
  /\ udpPc \in {"record", "set", "retune", "release"} => sysctlFile = "managed"
  /\ udpPc \in {"unrecord", "unset", "reset", "forget", "remove"} => sysctlFile = "absent"
  /\ udpPc = "unset" => owned = NoRecord
  /\ udpPc \in {"set", "retune"} => SetUpTo(Profile)
  /\ udpPc = "forget" => socket = host

UdpInv ==
  /\ UdpTypeOK
  /\ "cut" \notin slips => "lost" \notin slips
  /\ "lost" \notin slips => HoldsOriginal
  /\ "cut" \notin slips => Orderly

-----------------------------------------------------------------------------
(* The invariant is inductive.                                             *)

LEMMA Initially == UdpInit => UdpInv
<1> SUFFICES ASSUME UdpInit PROVE UdpInv
  OBVIOUS
<1>1. UdpTypeOK
  BY UdpAssumption DEF UdpInit, UdpTypeOK, UdpStep
<1>2. HoldsOriginal /\ Orderly
  BY DEF UdpInit, HoldsOriginal, Orderly
<1>3. QED
  BY <1>1, <1>2 DEF UdpInit, UdpInv

\* One step per action; a step back that may be ignored has a case for each.
LEMMA StepKeeps == UdpInv /\ [UdpNext]_udpVars => UdpInv'
<1> SUFFICES ASSUME UdpInv, [UdpNext]_udpVars PROVE UdpInv'
  OBVIOUS
<1> USE UdpAssumption DEF UdpInv, UdpTypeOK, HoldsOriginal, Orderly, SetUpTo, Setting, Profile,
                          UdpStep, Setters, UdpGoto, First, Slip, UdpFault, udpCount
<1>1. CASE ApplyBegin
  BY <1>1 DEF ApplyBegin, Admitted
<1>2. CASE ApplyBeginLate
  BY <1>2 DEF ApplyBeginLate, Admitted
<1>3. CASE ApplyRecord
  BY <1>3 DEF ApplyRecord
<1>4. CASE ApplyRecordFails
  BY <1>4 DEF ApplyRecordFails
<1>5. CASE Put
  BY <1>5 DEF Put, Written
<1>6. CASE PutFails
  BY <1>6 DEF PutFails, Failing
<1>7. CASE UndoPutFails
  BY <1>7 DEF UndoPutFails
<1>8. CASE ReleaseFails
  BY <1>8 DEF ReleaseFails
<1>9. CASE RestartUdp
  BY <1>9 DEF RestartUdp
<1>10. CASE RestartUdpFails
  BY <1>10 DEF RestartUdpFails, Failing
<1>11. CASE Unfile
  <2>1. CASE sysctlFile' = "absent" /\ UNCHANGED <<slips, udpFaults>>
    BY <1>11, <2>1 DEF Unfile
  <2>2. CASE Slip({"cut"}) /\ UdpFault /\ UNCHANGED sysctlFile
    BY <1>11, <2>2 DEF Unfile
  <2> QED
    BY <1>11, <2>1, <2>2 DEF Unfile
<1>12. CASE Unrecord
  <2>1. CASE owned' = NoRecord /\ UNCHANGED <<slips, udpFaults>>
    BY <1>12, <2>1 DEF Unrecord
  <2>2. CASE Slip({"cut"}) /\ UdpFault /\ UNCHANGED owned
    BY <1>12, <2>2 DEF Unrecord
  <2> QED
    BY <1>12, <2>1, <2>2 DEF Unrecord
<1>13. CASE RollbackBegin
  BY <1>13 DEF RollbackBegin, Matches
<1>14. CASE Forget
  BY <1>14 DEF Forget
<1>15. CASE ForgetFails
  BY <1>15 DEF ForgetFails, Failing
<1>16. CASE Refile
  <2>1. CASE sysctlFile' = "managed" /\ UNCHANGED <<slips, udpFaults>>
    BY <1>16, <2>1 DEF Refile
  <2>2. CASE Slip({"cut"}) /\ UdpFault /\ sysctlFile' \in {sysctlFile, "managed"}
    BY <1>16, <2>2 DEF Refile
  <2> QED
    BY <1>16, <2>1, <2>2 DEF Refile
<1>17. CASE UninstallBegin
  BY <1>17 DEF UninstallBegin, Matches
<1>18. CASE Drop
  BY <1>18 DEF Drop
<1>19. CASE DropFails
  BY <1>19 DEF DropFails
<1>20. CASE RemoveState
  <2>1. CASE owned' = NoRecord /\ UNCHANGED slips
    BY <1>20, <2>1 DEF RemoveState
  <2>2. CASE UNCHANGED owned /\ Slip({"kept"})
    BY <1>20, <2>2 DEF RemoveState
  <2> QED
    BY <1>20, <2>1, <2>2 DEF RemoveState
<1>21. CASE RemoveStateFails
  BY <1>21 DEF RemoveStateFails
<1>22. CASE EditFile
  BY <1>22 DEF EditFile
<1>23. CASE UdpKill
  BY <1>23 DEF UdpKill, Loses
<1>24. CASE UdpReboot
  BY <1>24 DEF UdpReboot, Loses
<1>25. CASE UNCHANGED udpVars
  BY <1>25 DEF udpVars
<1> QED
  BY <1>1, <1>2, <1>3, <1>4, <1>5, <1>6, <1>7, <1>8, <1>9, <1>10, <1>11, <1>12, <1>13,
     <1>14, <1>15, <1>16, <1>17, <1>18, <1>19, <1>20, <1>21, <1>22, <1>23, <1>24, <1>25
  DEF UdpNext

LEMMA Invariant == UdpSpec => []UdpInv
<1>1. UdpInit => UdpInv
  BY Initially
<1>2. UdpInv /\ [UdpNext]_udpVars => UdpInv'
  BY StepKeeps
<1>3. QED
  BY <1>1, <1>2, PTL DEF UdpSpec

-----------------------------------------------------------------------------
(* The theorems.                                                           *)

\* Every variable keeps its type (the commands of hysteria2_udp_buffer.go).
THEOREM UdpTypeCorrect == UdpSpec => []UdpTypeOK
<1>1. UdpInv => UdpTypeOK
  BY DEF UdpInv
<1>2. QED
  BY <1>1, Invariant, PTL

\* The host's own values are never lost: what applyHysteria2UDPBuffer records
\* as previous values are those, whatever was killed or failed before.
THEOREM UdpOriginalIsKept == UdpSpec => []UdpOriginalKept
<1>1. UdpInv => UdpOriginalKept
  BY DEF UdpInv, HoldsOriginal, UdpOriginalKept
<1>2. QED
  BY <1>1, Invariant, PTL

\* apply, rollback and uninstall take effect as a whole or not at all, also when
\* any parameter, file or restart fails and the deferred undo runs; only the
\* record may outlive a removal, with the certificate that it kept.
THEOREM UdpWholeOrNot == UdpSpec => []UdpAllOrNothing
<1>1. UdpInv => UdpAllOrNothing
  BY DEF UdpInv, Orderly, UdpAllOrNothing
<1>2. QED
  BY <1>1, Invariant, PTL
=============================================================================
