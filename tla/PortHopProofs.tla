---------------------------- MODULE PortHopProofs ----------------------------
(***************************************************************************)
(* Proofs about PortHop, for any ranges, ports and numbers of commands,    *)
(* failures and reboots.                                                   *)
(***************************************************************************)
EXTENDS PortHop, TLAPS

\* The unit that is up has loaded the file that is there and will load it
\* again after a reboot; one that is down has left no table.
UnitFollowsFile ==
  /\ Active => {"present", "enabled"} \subseteq unit /\ nftFile # NoRule /\ table = {nftFile}
  /\ ~Active => table = {}

\* What is published, or about to be, is what the file says.
FilePublished ==
  \A s \in Span : s \in {published, verified} =>
    Active /\ nftFile = [span |-> s, backend |-> listener]

HopInv ==
  /\ HopTypeOK
  /\ disturbed = {} => UnitFollowsFile /\ FilePublished

-----------------------------------------------------------------------------
(* The invariant is inductive.                                             *)

LEMMA HopInitially == HopInit => HopInv
  BY PortHopAssumption
     DEF HopInit, HopInv, HopTypeOK, UnitFollowsFile, FilePublished, Rule, Active

LEMMA RebootKeepsType == HopTypeOK /\ HopReboot => HopTypeOK'
<1> SUFFICES ASSUME HopTypeOK, HopReboot PROVE HopTypeOK'
  OBVIOUS
<1>1. unit' \subseteq {"present", "enabled", "active"} /\ table' \subseteq Rule
  BY DEF HopReboot, HopTypeOK
<1>2. hopCmds' \in Nat /\ hopCrashes' \in Nat /\ hopFaults' \in Nat
  BY DEF HopReboot, HopTypeOK
<1>3. listener' \in Listener /\ published' \in Span \cup {NoSpan} /\ nftFile' \in Rule \cup {NoRule}
      /\ backups' \subseteq [listener : Listener, published : Span \cup {NoSpan}]
      /\ verified' \in Span \cup {NoSpan} /\ preparing' \in {"no", "unit"}
      /\ disturbed' \subseteq {"prepare", "deactivate", "modify", "restore", "uninstall"}
  BY DEF HopReboot, HopTypeOK, hopState
<1>4. QED
  BY <1>1, <1>2, <1>3 DEF HopTypeOK

LEMMA HopStepKeeps == HopInv /\ [HopNext]_hopVars => HopInv'
<1> SUFFICES ASSUME HopInv, [HopNext]_hopVars PROVE HopInv'
  OBVIOUS
<1> USE PortHopAssumption DEF HopInv, HopTypeOK, UnitFollowsFile, FilePublished, Rule, Active,
                              Backup, HopCommand, HopFault, NoFault, hopState, hopUnit, hopWork
<1>1. ASSUME NEW s \in Span, NEW b \in Listener, Prepare(s, b) PROVE HopInv'
  BY <1>1 DEF Prepare, Disturb
<1>2. CASE PrepareUnit
  BY <1>2 DEF PrepareUnit
<1>3. CASE PrepareEnds
  BY <1>3 DEF PrepareEnds
<1>4. CASE Activate
  BY <1>4 DEF Activate, Prepared, Started
<1>5. CASE ActivateFails
  BY <1>5 DEF ActivateFails, Prepared
<1>6. CASE Deactivate
  BY <1>6 DEF Deactivate, Prepared, Disturb
<1>7. CASE DeactivateFails
  BY <1>7 DEF DeactivateFails, Prepared, Disturb
<1>8. ASSUME NEW s \in Span, Verify(s) PROVE HopInv'
  BY <1>8 DEF Verify, Redirects
<1>9. CASE Enable
  BY <1>9 DEF Enable
<1>10. CASE Disable
  BY <1>10 DEF Disable
<1>11. CASE ModifyListener
  BY <1>11 DEF ModifyListener, Disturb
<1>12. CASE DeleteInstance
  BY <1>12 DEF DeleteInstance
<1>13. CASE UninstallHop
  BY <1>13 DEF UninstallHop, Disturb
<1>14. CASE RestoreState
  BY <1>14 DEF RestoreState
<1>15. CASE HopReboot
  <2>1. HopTypeOK'
    BY <1>15, RebootKeepsType
  <2>2. disturbed = {} => UnitFollowsFile' /\ FilePublished'
    BY <1>15 DEF HopReboot
  <2>3. QED
    BY <1>15, <2>1, <2>2 DEF HopReboot
<1>16. CASE UNCHANGED hopVars
  BY <1>16 DEF hopVars
<1>17. CASE SaveState
  BY <1>17 DEF SaveState
<1> QED
  BY <1>1, <1>2, <1>3, <1>4, <1>5, <1>6, <1>7, <1>8, <1>9, <1>10, <1>11, <1>12, <1>13, <1>14,
     <1>15, <1>16, <1>17 DEF HopNext

LEMMA HopInvariant == HopSpec => []HopInv
<1>1. HopInit => HopInv
  BY HopInitially
<1>2. HopInv /\ [HopNext]_hopVars => HopInv'
  BY HopStepKeeps
<1>3. QED
  BY <1>1, <1>2, PTL DEF HopSpec

-----------------------------------------------------------------------------
(* The theorems.                                                           *)

\* Every variable keeps its type (the commands of hysteria2_porthop_component.go).
THEOREM HopTypeCorrect == HopSpec => []HopTypeOK
<1>1. HopInv => HopTypeOK
  BY DEF HopInv
<1>2. QED
  BY <1>1, HopInvariant, PTL

\* The checks of enableHysteria2PortHop are enough for what is published to be
\* redirected, and to be redirected after a reboot, as long as none of the
\* commands that do not look at it touches the redirect while it is up, and no
\* restore publishes a range again.
THEOREM PublishedIsRedirected == HopSpec => []HopRedirected
<1>1. HopInv => HopRedirected
  BY DEF HopInv, HopTypeOK, UnitFollowsFile, FilePublished, HopRedirected
<1>2. QED
  BY <1>1, HopInvariant, PTL
=============================================================================
