------------------------------- MODULE Fail2ban -------------------------------
(***************************************************************************)
(* `vpskit security fail2ban`: apply writes a jail for sshd, restarts      *)
(* Fail2ban and records what it wrote; whitelist changes the jail and the  *)
(* record; remove takes both away.  A record whose digest is not that of   *)
(* the file stops every command.  Only whitelist undoes its failures, and  *)
(* none of the commands takes a lock.  An uninstall takes the record, with *)
(* /var/lib/vpskit, and not the jail.                                      *)
(***************************************************************************)
EXTENDS Integers, FiniteSets

CONSTANTS
  Admin,          \* invocations that may be alive together
  Port,           \* ports sshd may listen on
  Cidr,           \* trusted addresses
  MaxWhitelist,   \* maxFail2banWhitelistEntries
  NoJail,         \* no file, or no record
  Foreign,        \* a jail file that is not VPSKit's
  MaxJailCmd,     \* bound: commands
  MaxJailCrash,   \* bound: kills
  MaxJailFault    \* bound: failing operations

\* What renderFail2banSSHDJail is given; the digest in the record identifies it.
Jail == [port : Port, whitelist : {w \in SUBSET Cidr : Cardinality(w) <= MaxWhitelist}]

ASSUME Fail2banAssumption ==
  /\ IsFiniteSet(Cidr) /\ MaxWhitelist \in Nat
  /\ {NoJail, Foreign} \cap Jail = {} /\ NoJail # Foreign
  /\ {MaxJailCmd, MaxJailCrash, MaxJailFault} \subseteq Nat

VARIABLES
  sshPort,    \* the port sshd reports
  jail,       \* /etc/fail2ban/jail.d/vpskit-sshd.conf
  ownership,  \* /var/lib/vpskit/fail2ban.json
  enforced,   \* the jail Fail2ban was last started with
  left,       \* the jail that an uninstall left in force without its record
  jailPc, jailJob,
  alone,      \* whether each command has run without another beside it
  spoiled,    \* a command was cut off, failed half way, or ran beside another
  jailCmds, jailCrashes, jailFaults

jailVars == <<sshPort, jail, ownership, enforced, left, jailPc, jailJob, alone,
              spoiled, jailCmds, jailCrashes, jailFaults>>
jailFiles == <<jail, ownership, enforced>>
jailCount == <<jailCmds, jailCrashes, jailFaults>>

JailJob == [cmd : {"none", "apply", "whitelist", "remove"},
            new : Jail \cup {NoJail}, old : Jail \cup {NoJail, Foreign}]
NoJailJob == [cmd |-> "none", new |-> NoJail, old |-> NoJail]

JailInit ==
  /\ sshPort \in Port
  /\ jail \in {NoJail, Foreign} /\ ownership = NoJail /\ enforced = jail
  /\ left = NoJail
  /\ jailPc = [p \in Admin |-> "idle"] /\ jailJob = [p \in Admin |-> NoJailJob]
  /\ alone = [p \in Admin |-> TRUE] /\ spoiled = FALSE
  /\ jailCmds = 0 /\ jailCrashes = 0 /\ jailFaults = 0

JailFault == jailFaults < MaxJailFault /\ jailFaults' = jailFaults + 1
JailGoto(p, l) == jailPc' = [jailPc EXCEPT ![p] = l]
JailExit(p) == JailGoto(p, "idle") /\ jailJob' = [jailJob EXCEPT ![p] = NoJailJob]
Idle == \A q \in Admin : jailPc[q] = "idle"

\* A command starts: beside another one, neither is alone.
JailStart(p, l, job) ==
  /\ jailPc[p] = "idle" /\ jailCmds < MaxJailCmd /\ jailCmds' = jailCmds + 1
  /\ JailGoto(p, l) /\ jailJob' = [jailJob EXCEPT ![p] = job]
  /\ alone' = IF Idle THEN [alone EXCEPT ![p] = TRUE]
              ELSE [q \in Admin |-> q # p /\ alone[q] /\ jailPc[q] = "idle"]
  /\ spoiled' = (spoiled \/ ~Idle)

\* fail2banJailMatchesOwnership, for a file that exists.
Owned == ownership # NoJail /\ jail = ownership

-----------------------------------------------------------------------------
(* The commands, up to the jail file.                                      *)

\* apply replaces nothing but its own jail.
Replaceable == jail = NoJail \/ Owned

\* The checks come first; installing the package may take minutes.
JailApply(p) ==
  /\ Replaceable
  /\ JailStart(p, "package", [NoJailJob EXCEPT !.cmd = "apply",
                                               !.new = [port |-> sshPort, whitelist |-> {}]])
  /\ UNCHANGED <<sshPort, left, jailFiles, jailCrashes, jailFaults>>

\* The whitelist is that of the record, if there is one by now.
ApplyWrite(p) ==
  /\ jailPc[p] = "package"
  /\ LET new == [jailJob[p].new EXCEPT
                   !.whitelist = IF ownership = NoJail THEN {} ELSE ownership.whitelist]
     IN  jail' = new /\ jailJob' = [jailJob EXCEPT ![p].new = new]
  /\ JailGoto(p, "check")
  /\ UNCHANGED <<sshPort, left, ownership, enforced, alone, spoiled, jailCount>>

\* apt-get fails, or the write with nothing written.
PackageFails(p) ==
  /\ jailPc[p] = "package" /\ JailFault
  /\ JailExit(p)
  /\ UNCHANGED <<sshPort, left, jailFiles, alone, spoiled, jailCmds, jailCrashes>>

\* Faulty: one entry too many.
FitsOneMore(w) == Cardinality(w) <= MaxWhitelist + 1

Fits(w) == Cardinality(w) <= MaxWhitelist

\* mutateFail2banWhitelist: an address is added or taken out.
Whitelist(p) ==
  /\ Owned
  /\ \E c \in Cidr :
       LET w == IF c \in ownership.whitelist THEN ownership.whitelist \ {c}
                ELSE ownership.whitelist \cup {c}
       IN  /\ Fits(w)
           /\ JailStart(p, "list", [NoJailJob EXCEPT !.cmd = "whitelist",
                                      !.new = [ownership EXCEPT !.whitelist = w]])
  /\ UNCHANGED <<sshPort, left, jailFiles, jailCrashes, jailFaults>>

\* The contents to go back to are read again.
ListWrite(p) ==
  /\ jailPc[p] = "list" /\ jail # NoJail
  /\ jail' = jailJob[p].new
  /\ jailJob' = [jailJob EXCEPT ![p].old = jail]
  /\ JailGoto(p, "check")
  /\ UNCHANGED <<sshPort, left, ownership, enforced, alone, spoiled, jailCount>>

\* The file is gone meanwhile or cannot be written; where the error comes after
\* the rename, nothing is armed yet that would undo it.
ListWriteFails(p) ==
  /\ jailPc[p] = "list"
  /\ IF jail = NoJail THEN UNCHANGED <<jail, spoiled, jailFaults>>
     ELSE /\ JailFault
          /\ \/ UNCHANGED <<jail, spoiled>>
             \/ jail' = jailJob[p].new /\ spoiled' = TRUE
  /\ JailExit(p)
  /\ UNCHANGED <<sshPort, left, ownership, enforced, alone, jailCmds, jailCrashes>>

\* removeFail2ban: a jail that was changed stays, one that is gone is fine.
JailRemove(p) ==
  /\ ownership # NoJail /\ (jail = NoJail \/ Owned)
  /\ jail' = NoJail
  /\ JailStart(p, "reload", [NoJailJob EXCEPT !.cmd = "remove"])
  /\ UNCHANGED <<sshPort, left, ownership, enforced, jailCrashes, jailFaults>>

-----------------------------------------------------------------------------
(* Validation, restart, record.                                            *)

\* fail2ban-client -d
Check(p) ==
  /\ jailPc[p] = "check"
  /\ JailGoto(p, "restart")
  /\ UNCHANGED <<sshPort, left, jailFiles, jailJob, alone, spoiled, jailCount>>

RestartJail(p) ==
  /\ jailPc[p] \in {"restart", "reload"}
  /\ enforced' = jail
  /\ JailGoto(p, IF jailPc[p] = "restart" THEN "record" ELSE "disown")
  /\ UNCHANGED <<sshPort, left, jail, ownership, jailJob, alone, spoiled, jailCount>>

\* The record of what was written; none after a removal.
NewRecord(p) == jailJob[p].new

\* The jail is up: the record is written, or removed, and the command is done.
RecordJail(p) ==
  /\ jailPc[p] \in {"record", "disown"}
  /\ ownership' = NewRecord(p)
  /\ IF alone[p] THEN spoiled' = FALSE /\ left' = NoJail ELSE UNCHANGED <<spoiled, left>>
  /\ JailExit(p)
  /\ UNCHANGED <<sshPort, jail, enforced, alone, jailCount>>

\* Faulty: no failure is undone.
UndoesNothing(p) == FALSE

\* Only whitelist undoes a failure.
Undoes(p) == jailJob[p].cmd = "whitelist"

\* Any of these steps fails, before or after it took effect.
JailFails(p) ==
  /\ jailPc[p] \in {"check", "restart", "record", "reload", "disown"} /\ JailFault
  /\ enforced' \in {enforced} \cup IF jailPc[p] \in {"restart", "reload"} THEN {jail, NoJail} ELSE {}
  /\ \/ UNCHANGED ownership /\ spoiled' = (spoiled \/ jailJob[p].cmd # "whitelist")
     \/ jailPc[p] \in {"record", "disown"} /\ ownership' = NewRecord(p) /\ spoiled' = TRUE
  /\ IF Undoes(p)
     THEN JailGoto(p, "undo") /\ UNCHANGED jailJob
     ELSE JailExit(p)
  /\ UNCHANGED <<sshPort, left, jail, alone, jailCmds, jailCrashes>>

\* The deferred rollback; its errors are ignored.
JailUndo(p) ==
  /\ jailPc[p] = "undo"
  /\ \/ jail' = jailJob[p].old /\ UNCHANGED <<spoiled, jailFaults>>
     \/ JailFault /\ spoiled' = TRUE /\ UNCHANGED jail
  /\ JailGoto(p, "again")
  /\ UNCHANGED <<sshPort, left, ownership, enforced, jailJob, alone, jailCmds, jailCrashes>>

JailAgain(p) ==
  /\ jailPc[p] = "again"
  /\ \/ enforced' = jail /\ UNCHANGED <<spoiled, jailFaults>>
     \/ JailFault /\ spoiled' = TRUE /\ enforced' \in {enforced, NoJail}
  /\ JailExit(p)
  /\ UNCHANGED <<sshPort, left, jail, ownership, alone, jailCmds, jailCrashes>>

-----------------------------------------------------------------------------
(* Uninstall, the operator, kills.                                         *)

\* uninstall takes vpskit.lock, which stops none of the commands above.  One
\* that keeps the certificate keeps the record as well and is no step.
JailUninstall ==
  /\ ownership # NoJail /\ ownership' = NoJail
  /\ left' = IF Owned THEN jail ELSE left
  /\ alone' = [q \in Admin |-> alone[q] /\ jailPc[q] = "idle"]
  /\ spoiled' = (spoiled \/ ~Idle)
  /\ UNCHANGED <<sshPort, jail, enforced, jailPc, jailJob, jailCount>>

MovePort ==
  /\ Idle /\ sshPort' \in Port \ {sshPort}
  /\ UNCHANGED <<jailFiles, left, jailPc, jailJob, alone, spoiled, jailCount>>

JailKill(p) ==
  /\ jailPc[p] # "idle" /\ jailCrashes < MaxJailCrash /\ jailCrashes' = jailCrashes + 1
  /\ spoiled' = TRUE
  /\ JailExit(p)
  /\ UNCHANGED <<sshPort, left, jailFiles, alone, jailCmds, jailFaults>>

JailNext ==
  \/ \E p \in Admin :
       \/ JailApply(p) \/ ApplyWrite(p) \/ PackageFails(p)
       \/ Whitelist(p) \/ ListWrite(p) \/ ListWriteFails(p) \/ JailRemove(p)
       \/ Check(p) \/ RestartJail(p) \/ RecordJail(p) \/ JailFails(p)
       \/ JailUndo(p) \/ JailAgain(p) \/ JailKill(p)
  \/ JailUninstall \/ MovePort

JailSpec == JailInit /\ [][JailNext]_jailVars

-----------------------------------------------------------------------------
(* Properties.                                                             *)

\* Every variable has its type: the whitelist never exceeds its limit, and a
\* foreign jail is never on record.
JailTypeOK ==
  /\ sshPort \in Port
  /\ jail \in Jail \cup {NoJail, Foreign} /\ ownership \in Jail \cup {NoJail}
  /\ enforced \in Jail \cup {NoJail, Foreign} /\ left \in Jail \cup {NoJail}
  /\ jailJob \in [Admin -> JailJob]
  /\ \A p \in Admin : jailPc[p] \in {"idle", "package", "list", "check", "restart", "record",
                                    "reload", "disown", "undo", "again"}
  /\ alone \in [Admin -> BOOLEAN] /\ spoiled \in BOOLEAN
  /\ jailCmds \in Nat /\ jailCrashes \in Nat /\ jailFaults \in Nat

\* Between commands the jail on record is the jail in the file and the jail
\* that Fail2ban enforces, or there is neither: a success says so whatever was
\* wrong before, and a whitelist change that fails leaves it so, without the
\* record and the file ever parting, which no later command would mend.  Only
\* the very jail that was on record at an uninstall may be in force without one.
JailInForce ==
  Idle /\ ~spoiled =>
    /\ enforced = jail
    /\ IF ownership = NoJail THEN jail \in {NoJail, Foreign, left} ELSE jail = ownership
=============================================================================
