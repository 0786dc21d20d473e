------------------------------- MODULE PortHop -------------------------------
(***************************************************************************)
(* `vpskit hysteria2 port-hop`: prepare writes an nftables file and a      *)
(* oneshot unit, activate starts the unit, enable publishes the range to   *)
(* the clients once the redirect is up, disable withdraws it, deactivate   *)
(* stops the unit.  The kernel's table is loaded from the file when the    *)
(* unit starts and stays as it is until the unit stops; only enable        *)
(* compares the file with what it publishes; prepare, activate and         *)
(* deactivate, which take no lock, do not look at what is published, and   *)
(* a restore, which puts state.json back, leaves file and unit alone.      *)
(***************************************************************************)
EXTENDS Integers

CONSTANTS
  Span,         \* ranges of UDP ports
  Listener,     \* ports Hysteria2 may listen on, outside every range
  NoSpan, NoRule,
  MaxHopCmd,    \* bound: commands
  MaxHopCrash,  \* bound: kills and reboots
  MaxHopFault   \* bound: failing operations

Rule == [span : Span, backend : Listener]

ASSUME PortHopAssumption ==
  /\ NoSpan \notin Span /\ NoRule \notin Rule
  /\ {MaxHopCmd, MaxHopCrash, MaxHopFault} \subseteq Nat

VARIABLES
  listener,   \* state.json: the port Hysteria2 listens on
  published,  \* state.json: the range the clients are given
  backups,    \* the contents of state.json that a restore can put back
  nftFile,    \* /etc/vpskit/generated/hysteria2-port-hop.nft
  unit,       \* vpskit-hysteria2-port-hop.service: "present", "enabled", "active"
  table,      \* the rules in the kernel's table, which is there if there is one
  preparing,  \* "unit" when prepare has written the one file and not the other
  verified,   \* the range enable has verified and not yet published
  disturbed,  \* commands that changed the redirect beside what is published
  hopCmds, hopCrashes, hopFaults

hopVars == <<listener, published, backups, nftFile, unit, table, preparing,
             verified, disturbed, hopCmds, hopCrashes, hopFaults>>
hopState == <<listener, published, backups>>
hopUnit  == <<unit, table>>
hopWork  == <<preparing, verified>>

HopInit ==
  /\ listener \in Listener /\ published = NoSpan /\ backups = {}
  /\ nftFile = NoRule /\ unit = {} /\ table = {}
  /\ preparing = "no" /\ verified = NoSpan
  /\ disturbed = {} /\ hopCmds = 0 /\ hopCrashes = 0 /\ hopFaults = 0

HopCommand == hopCmds < MaxHopCmd /\ hopCmds' = hopCmds + 1
HopFault == hopFaults < MaxHopFault /\ hopFaults' = hopFaults + 1
NoFault == UNCHANGED <<hopCrashes, hopFaults>>

Active == "active" \in unit

\* A command is noted that may part the redirect from what is published, or
\* is about to be.
Disturb(c) ==
  disturbed' = IF published # NoSpan \/ verified # NoSpan \/ Active
               THEN disturbed \cup {c} ELSE disturbed

\* Whoever changes state.json saves it first (StateTx).
Backup == backups' = backups \cup {[listener |-> listener, published |-> published]}

-----------------------------------------------------------------------------
(* prepare                                                                 *)

Prepare(s, b) ==
  /\ HopCommand /\ preparing = "no"
  /\ nftFile' = [span |-> s, backend |-> b]
  /\ preparing' = "unit"
  /\ Disturb("prepare")
  /\ UNCHANGED <<hopState, hopUnit, verified>> /\ NoFault

PrepareUnit ==
  /\ preparing = "unit"
  /\ unit' = unit \cup {"present"} /\ preparing' = "no"
  /\ UNCHANGED <<hopState, nftFile, table, verified, disturbed, hopCmds>> /\ NoFault

\* It fails or is killed between the two: the new rules stay.
PrepareEnds ==
  /\ preparing = "unit" /\ HopFault
  /\ preparing' = "no"
  /\ UNCHANGED <<hopState, nftFile, hopUnit, verified, disturbed, hopCmds, hopCrashes>>

-----------------------------------------------------------------------------
(* activate, deactivate                                                    *)

Prepared == nftFile # NoRule /\ "present" \in unit

\* Starting the unit adds its rule to the table; not if it is active already.
Started == IF Active THEN table ELSE table \cup {nftFile}

\* systemctl enable --now
Activate ==
  /\ HopCommand /\ Prepared
  /\ unit' = unit \cup {"enabled", "active"} /\ table' = Started
  /\ disturbed' = IF Active \/ table # {} \/ published # NoSpan \/ verified # NoSpan
                  THEN disturbed ELSE {}
  /\ UNCHANGED <<hopState, nftFile, hopWork>> /\ NoFault

\* The unit is enabled but does not start.
ActivateFails ==
  /\ HopCommand /\ Prepared /\ HopFault
  /\ unit' \in {unit, unit \cup {"enabled"}}
  /\ UNCHANGED <<hopState, nftFile, table, hopWork, disturbed, hopCrashes>>

\* systemctl disable --now: a unit that is not up is not stopped.
Deactivate ==
  /\ HopCommand /\ Prepared
  /\ unit' = unit \ {"enabled", "active"}
  /\ table' = IF Active THEN {} ELSE table
  /\ Disturb("deactivate")
  /\ UNCHANGED <<hopState, nftFile, hopWork>> /\ NoFault

\* The unit is disabled and stays up, or its table cannot be deleted.
DeactivateFails ==
  /\ HopCommand /\ Prepared /\ HopFault
  /\ unit' \in {unit \ {"enabled"}, unit \ {"enabled", "active"}}
  /\ Disturb("deactivate")
  /\ UNCHANGED <<hopState, nftFile, table, hopWork, hopCrashes>>

-----------------------------------------------------------------------------
(* enable, disable                                                         *)

\* Faulty: the backend port of the rules is not compared.
RedirectsAnywhere(s) == Active /\ nftFile # NoRule /\ nftFile.span = s /\ table # {}

\* The unit is up, its file says what is asked for, and there is a table.
Redirects(s) == Active /\ nftFile = [span |-> s, backend |-> listener] /\ table # {}

Verify(s) ==
  /\ HopCommand /\ published = NoSpan /\ verified = NoSpan
  /\ Redirects(s)
  /\ verified' = s
  /\ UNCHANGED <<hopState, nftFile, hopUnit, preparing, disturbed>> /\ NoFault

\* The state change commits; or it fails and is undone, or is killed (StateTx).
Enable ==
  /\ verified # NoSpan
  /\ published' \in {verified, published} /\ Backup
  /\ verified' = NoSpan
  /\ UNCHANGED <<listener, nftFile, hopUnit, preparing, disturbed, hopCmds>> /\ NoFault

Disable ==
  /\ HopCommand /\ published # NoSpan
  /\ published' = NoSpan /\ Backup
  /\ UNCHANGED <<listener, nftFile, hopUnit, hopWork, disturbed>> /\ NoFault

-----------------------------------------------------------------------------
(* Commands elsewhere, kills and reboots.                                  *)

\* `instance modify --port`: the listener moves, the redirect does not.
ModifyListener ==
  /\ HopCommand
  /\ listener' \in Listener \ {listener} /\ Backup
  /\ Disturb("modify")
  /\ UNCHANGED <<published, nftFile, hopUnit, hopWork>> /\ NoFault

\* `instance delete`: nothing is published any more, the redirect stays.
DeleteInstance ==
  /\ HopCommand /\ published # NoSpan
  /\ published' = NoSpan /\ Backup
  /\ UNCHANGED <<listener, nftFile, hopUnit, hopWork, disturbed>> /\ NoFault

\* `backup`, or the backup of a change that leaves both alone.
SaveState ==
  /\ Backup
  /\ UNCHANGED <<listener, published, nftFile, hopUnit, hopWork, disturbed, hopCmds>> /\ NoFault

\* restore, rollback or a recovery: the listener and the range of a backup are
\* back, whatever the redirect does.
RestoreState ==
  /\ HopCommand
  /\ \E b \in backups : listener' = b.listener /\ published' = b.published
  /\ UNCHANGED backups
  /\ disturbed' = IF published' # NoSpan \/ verified # NoSpan
                  THEN disturbed \cup {"restore"} ELSE disturbed
  /\ UNCHANGED <<nftFile, hopUnit, hopWork>> /\ NoFault

\* uninstall removes the directory of the nftables file with everything else,
\* the backups unless the certificate is kept; it does not know the unit, which
\* stays up with its table.
UninstallHop ==
  /\ HopCommand
  /\ published' = NoSpan /\ nftFile' = NoRule /\ backups' \in {{}, backups}
  /\ preparing' = "no" /\ verified' = NoSpan
  /\ Disturb("uninstall")
  /\ UNCHANGED <<listener, hopUnit>> /\ NoFault

\* The unit starts again if it is enabled and its file is there.
HopReboot ==
  /\ hopCrashes < MaxHopCrash /\ hopCrashes' = hopCrashes + 1
  /\ IF {"present", "enabled"} \subseteq unit /\ nftFile # NoRule
     THEN unit' = unit \cup {"active"} /\ table' = {nftFile}
     ELSE unit' = unit \ {"active"} /\ table' = {}
  /\ preparing' = "no" /\ verified' = NoSpan
  /\ UNCHANGED <<hopState, nftFile, disturbed, hopCmds, hopFaults>>

HopNext ==
  \/ \E s \in Span : Verify(s) \/ \E b \in Listener : Prepare(s, b)
  \/ PrepareUnit \/ PrepareEnds \/ Activate \/ ActivateFails \/ Deactivate \/ DeactivateFails
  \/ Enable \/ Disable \/ ModifyListener \/ DeleteInstance
  \/ SaveState \/ RestoreState \/ UninstallHop \/ HopReboot

HopSpec == HopInit /\ [][HopNext]_hopVars

-----------------------------------------------------------------------------
(* Properties.                                                             *)

\* Every variable has its type.
HopTypeOK ==
  /\ listener \in Listener /\ published \in Span \cup {NoSpan} /\ verified \in Span \cup {NoSpan}
  /\ backups \subseteq [listener : Listener, published : Span \cup {NoSpan}]
  /\ nftFile \in Rule \cup {NoRule} /\ table \subseteq Rule
  /\ unit \subseteq {"present", "enabled", "active"} /\ preparing \in {"no", "unit"}
  /\ disturbed \subseteq {"prepare", "deactivate", "modify", "restore", "uninstall"}
  /\ hopCmds \in Nat /\ hopCrashes \in Nat /\ hopFaults \in Nat

\* The clients are given a range only while the kernel redirects exactly that
\* range to the port Hysteria2 listens on, also after a reboot; unless prepare,
\* deactivate, `instance modify` or uninstall changed one of the two while the
\* redirect was up, or a restore published a range again, which none of them
\* refuses.
HopRedirected ==
  published # NoSpan /\ disturbed = {} =>
    /\ [span |-> published, backend |-> listener] \in table
    /\ \A r \in table : r.span = published => r.backend = listener
=============================================================================
