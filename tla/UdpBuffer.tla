------------------------------ MODULE UdpBuffer ------------------------------
(***************************************************************************)
(* `vpskit hysteria2 udp-buffer`: apply writes a file for sysctl.d and a   *)
(* record with the values the kernel had, sets the values one by one and   *)
(* restarts the service, whose socket takes them over; rollback goes back  *)
(* to the values of the record; uninstall does so before anything else.    *)
(* Each holds the process lock throughout, so one runs at a time.  A       *)
(* failure is undone, and nothing records that a command was under way.    *)
(***************************************************************************)
EXTENDS Integers

CONSTANTS
  Params,       \* number of kernel parameters, written in this order
  Value, Tuned, \* their values, and the one of the managed profile
  NoRecord,     \* udp-buffer.json does not exist
  MaxUdpCrash,  \* bound: kills and reboots
  MaxUdpFault   \* bound: failing operations

Setting == [1..Params -> Value]
Profile == [i \in 1..Params |-> Tuned]

ASSUME UdpAssumption ==
  /\ Params \in Nat \ {0} /\ Tuned \in Value /\ NoRecord \notin Setting
  /\ {MaxUdpCrash, MaxUdpFault} \subseteq Nat

VARIABLES
  host,         \* the values the kernel boots with
  sysctl,       \* the values in force
  sysctlFile,   \* /etc/sysctl.d/70-vpskit-hysteria2-udp-buffer.conf
  owned,        \* the previous values in udp-buffer.json
  socket,       \* the values the service's socket was opened with
  udpPc,        \* the step the running command is at, "idle" if there is none
  previous,     \* the previous values that command holds
  next,         \* the parameter it writes next
  slips,        \* what happened that the code cannot or does not react to
  udpCrashes, udpFaults

udpVars == <<host, sysctl, sysctlFile, owned, socket, udpPc, previous, next, slips,
             udpCrashes, udpFaults>>
udpCount == <<udpCrashes, udpFaults>>

\* apply: record, set; undone by unfile, unrecord, unset.
\* rollback: reset, forget; undone by refile, retune.
\* uninstall: release, remove.
Setters == {"set", "unset", "reset", "retune", "release"}
UdpStep == Setters \cup {"idle", "record", "unfile", "unrecord", "forget", "refile",
                         "remove"}

UdpInit ==
  /\ host \in Setting /\ sysctl = host /\ socket = host /\ previous = host
  /\ sysctlFile = "absent" /\ owned = NoRecord
  /\ udpPc = "idle" /\ next = 1
  /\ slips = {} /\ udpCrashes = 0 /\ udpFaults = 0

\* Faulty: counts from zero.
FirstZero == 0

First == 1

\* A command that gets to its first or next step.
UdpGoto(l) == udpPc' = l /\ next' = First
Slip(kinds) == slips' = slips \cup kinds
UdpFault == udpFaults < MaxUdpFault /\ udpFaults' = udpFaults + 1

-----------------------------------------------------------------------------
(* apply                                                                   *)

\* Faulty: an existing file is not looked for.
AdmittedByRecord == owned = NoRecord

\* A record, or any file in its place, is left alone.
Admitted == owned = NoRecord /\ sysctlFile = "absent"

\* The values in force are read, and the file is written.
ApplyBegin ==
  /\ udpPc = "idle" /\ Admitted
  /\ previous' = sysctl
  /\ sysctlFile' = "managed"
  /\ UdpGoto("record")
  /\ UNCHANGED <<host, sysctl, owned, socket, slips, udpCount>>

\* The file is in place but its write reports an error: nothing is armed yet
\* that would take it away.
ApplyBeginLate ==
  /\ udpPc = "idle" /\ Admitted /\ UdpFault
  /\ sysctlFile' = "managed"
  /\ Slip({"cut"})
  /\ UNCHANGED <<host, sysctl, owned, socket, udpPc, previous, next, udpCrashes>>

ApplyRecord ==
  /\ udpPc = "record"
  /\ owned' = previous
  /\ UdpGoto("set")
  /\ UNCHANGED <<host, sysctl, sysctlFile, socket, previous, slips, udpCount>>

ApplyRecordFails ==
  /\ udpPc = "record" /\ UdpFault
  /\ owned' \in {owned, previous}
  /\ UdpGoto("unfile")
  /\ UNCHANGED <<host, sysctl, sysctlFile, socket, previous, slips, udpCrashes>>

-----------------------------------------------------------------------------
(* Setting the parameters and restarting, on all paths.                    *)

\* Faulty: the record counts as removed whether it was or not.
FailingForgetful(step) ==
  IF step \in {"set", "record"} THEN "unfile" ELSE IF step = "reset" THEN "refile" ELSE "idle"

\* Where a failure at a step leads: the undo, or past the last step of one.
Failing(step) ==
  IF step \in {"set", "record"} THEN "unfile"
  ELSE IF step \in {"reset", "forget"} THEN "refile" ELSE "idle"

\* What a step writes: the profile, or what was read before.
Written(step) == IF step \in {"set", "retune"} THEN Profile ELSE previous

Put ==
  /\ udpPc \in Setters /\ next \in 1..Params
  /\ sysctl' = [sysctl EXCEPT ![next] = Written(udpPc)[next]]
  /\ next' = next + 1
  /\ UNCHANGED <<host, sysctlFile, owned, socket, udpPc, previous, slips, udpCount>>

\* A parameter is refused: apply and rollback undo what they did.
PutFails ==
  /\ udpPc \in {"set", "reset"} /\ next \in 1..Params /\ UdpFault
  /\ UdpGoto(Failing(udpPc))
  /\ UNCHANGED <<host, sysctl, sysctlFile, owned, socket, previous, slips, udpCrashes>>

\* An undo ignores it, leaves out the parameters that follow, and goes on.
UndoPutFails ==
  /\ udpPc \in {"unset", "retune"} /\ next \in 1..Params /\ UdpFault
  /\ next' = Params + 1
  /\ Slip({"cut"} \cup IF udpPc = "unset" THEN {"lost"} ELSE {})
  /\ UNCHANGED <<host, sysctl, sysctlFile, owned, socket, udpPc, previous, udpCrashes>>

\* uninstall stops with the error.
ReleaseFails ==
  /\ udpPc = "release" /\ next \in 1..Params /\ UdpFault
  /\ UdpGoto("idle") /\ Slip({"cut"})
  /\ UNCHANGED <<host, sysctl, sysctlFile, owned, socket, previous, udpCrashes>>

\* The service is restarted, and its socket seen with the right buffers.
RestartUdp ==
  /\ udpPc \in Setters \ {"release"} /\ next = Params + 1
  /\ socket' = sysctl
  /\ UdpGoto(IF udpPc = "reset" THEN "forget" ELSE "idle")
  /\ UNCHANGED <<host, sysctl, sysctlFile, owned, previous, slips, udpCount>>

\* It does not come up in time, before or after it opened its socket; an undo
\* does not look.
RestartUdpFails ==
  /\ udpPc \in Setters \ {"release"} /\ next = Params + 1 /\ UdpFault
  /\ socket' \in {socket, sysctl}
  /\ UdpGoto(Failing(udpPc))
  /\ Slip(IF udpPc \in {"unset", "retune"} THEN {"cut"} ELSE {})
  /\ UNCHANGED <<host, sysctl, sysctlFile, owned, previous, udpCrashes>>

-----------------------------------------------------------------------------
(* The deferred undo of apply                                              *)

\* A file that cannot be removed is ignored.
Unfile ==
  /\ udpPc = "unfile"
  /\ \/ sysctlFile' = "absent" /\ UNCHANGED <<slips, udpFaults>>
     \/ UdpFault /\ Slip({"cut"}) /\ UNCHANGED sysctlFile
  /\ UdpGoto("unrecord")
  /\ UNCHANGED <<host, sysctl, owned, socket, previous, udpCrashes>>

Unrecord ==
  /\ udpPc = "unrecord"
  /\ \/ owned' = NoRecord /\ UNCHANGED <<slips, udpFaults>>
     \/ UdpFault /\ Slip({"cut"}) /\ UNCHANGED owned
  /\ UdpGoto("unset")
  /\ UNCHANGED <<host, sysctl, sysctlFile, socket, previous, udpCrashes>>

-----------------------------------------------------------------------------
(* rollback                                                                *)

\* Only over the file the record describes.
Matches == owned # NoRecord /\ sysctlFile = "managed"

RollbackBegin ==
  /\ udpPc = "idle" /\ Matches
  /\ previous' = owned
  /\ sysctlFile' = "absent"
  /\ UdpGoto("reset")
  /\ UNCHANGED <<host, sysctl, owned, socket, slips, udpCount>>

Forget ==
  /\ udpPc = "forget"
  /\ owned' = NoRecord
  /\ UdpGoto("idle")
  /\ UNCHANGED <<host, sysctl, sysctlFile, socket, previous, slips, udpCount>>

ForgetFails ==
  /\ udpPc = "forget" /\ UdpFault
  /\ UdpGoto(Failing(udpPc))
  /\ UNCHANGED <<host, sysctl, sysctlFile, owned, socket, previous, slips, udpCrashes>>

\* Its undo puts the profile back.
Refile ==
  /\ udpPc = "refile"
  /\ \/ sysctlFile' = "managed" /\ UNCHANGED <<slips, udpFaults>>
     \/ UdpFault /\ Slip({"cut"}) /\ sysctlFile' \in {sysctlFile, "managed"}
  /\ UdpGoto("retune")
  /\ UNCHANGED <<host, sysctl, owned, socket, previous, udpCrashes>>

-----------------------------------------------------------------------------
(* uninstall (removeManagedHysteria2UDPBufferForUninstall), then the rest  *)

UninstallBegin ==
  /\ udpPc = "idle" /\ Matches
  /\ previous' = owned
  /\ UdpGoto("release")
  /\ UNCHANGED <<host, sysctl, sysctlFile, owned, socket, slips, udpCount>>

Drop ==
  /\ udpPc = "release" /\ next = Params + 1
  /\ sysctlFile' = "absent"
  /\ UdpGoto("remove")
  /\ UNCHANGED <<host, sysctl, owned, socket, previous, slips, udpCount>>

DropFails ==
  /\ udpPc = "release" /\ next = Params + 1 /\ UdpFault
  /\ UdpGoto("idle") /\ Slip({"cut"})
  /\ UNCHANGED <<host, sysctl, sysctlFile, owned, socket, previous, udpCrashes>>

\* The record goes with /var/lib/vpskit, unless that stays for a certificate
\* that other units use: then the record stays without its file, and after the
\* next installation apply, rollback and uninstall all refuse.  Whoever installs
\* the service again starts it with the values then in force.
RemoveState ==
  /\ udpPc = "remove"
  /\ \/ owned' = NoRecord /\ UNCHANGED slips
     \/ UNCHANGED owned /\ Slip({"kept"})
  /\ socket' = sysctl
  /\ UdpGoto("idle")
  /\ UNCHANGED <<host, sysctl, sysctlFile, previous, udpCount>>

\* A later step of the removal fails: the record stays as well.
RemoveStateFails ==
  /\ udpPc = "remove" /\ UdpFault
  /\ UdpGoto("idle") /\ Slip({"cut"})
  /\ UNCHANGED <<host, sysctl, sysctlFile, owned, socket, previous, udpCrashes>>

-----------------------------------------------------------------------------
(* The operator, kills and reboots                                         *)

\* The operator changes the file; every command then leaves it alone.
EditFile ==
  /\ udpPc = "idle" /\ sysctlFile = "managed"
  /\ sysctlFile' = "edited"
  /\ UNCHANGED <<host, sysctl, owned, socket, udpPc, previous, next, slips, udpCount>>

\* What a command that is cut off loses: the previous values, if the undo of
\* apply has removed the record and not yet written them.
Loses == IF udpPc = "idle" THEN {} ELSE {"cut"} \cup IF udpPc = "unset" THEN {"lost"} ELSE {}

UdpKill ==
  /\ udpPc # "idle" /\ udpCrashes < MaxUdpCrash /\ udpCrashes' = udpCrashes + 1
  /\ Slip(Loses) /\ UdpGoto("idle")
  /\ UNCHANGED <<host, sysctl, sysctlFile, owned, socket, previous, udpFaults>>

\* systemd-sysctl applies the file, if there is one; an edited one may say
\* anything.
UdpReboot ==
  /\ udpCrashes < MaxUdpCrash /\ udpCrashes' = udpCrashes + 1
  /\ \/ sysctlFile = "absent" /\ sysctl' = host
     \/ sysctlFile = "managed" /\ sysctl' = Profile
     \/ sysctlFile = "edited" /\ sysctl' \in {host, Profile}
  /\ socket' = sysctl'
  /\ Slip(Loses) /\ UdpGoto("idle")
  /\ UNCHANGED <<host, sysctlFile, owned, previous, udpFaults>>

UdpNext ==
  \/ ApplyBegin \/ ApplyBeginLate \/ ApplyRecord \/ ApplyRecordFails
  \/ Put \/ PutFails \/ UndoPutFails \/ ReleaseFails \/ RestartUdp \/ RestartUdpFails
  \/ Unfile \/ Unrecord
  \/ RollbackBegin \/ Forget \/ ForgetFails \/ Refile
  \/ UninstallBegin \/ Drop \/ DropFails \/ RemoveState \/ RemoveStateFails
  \/ EditFile \/ UdpKill \/ UdpReboot

UdpSpec == UdpInit /\ [][UdpNext]_udpVars

-----------------------------------------------------------------------------
(* Properties.                                                             *)

\* Every variable has its type.
UdpTypeOK ==
  /\ {host, sysctl, socket, previous} \subseteq Setting
  /\ sysctlFile \in {"absent", "managed", "edited"}
  /\ owned \in Setting \cup {NoRecord}
  /\ udpPc \in UdpStep /\ next \in 1..Params + 1
  /\ slips \subseteq {"cut", "lost", "kept"}
  /\ udpCrashes \in Nat /\ udpFaults \in Nat

\* The values the host had before are never lost: the record, whenever there
\* is one, holds them, and where there is neither record nor file they are in
\* force again, so that an apply cannot record tuned values as the previous
\* ones; whatever is killed, fails or reboots, except while the undo of an
\* apply sets the parameters, its record already removed.
UdpOriginalKept ==
  "lost" \notin slips =>
    /\ owned \in {NoRecord, host}
    /\ udpPc = "idle" /\ sysctlFile = "absent" /\ owned = NoRecord => sysctl = host

\* Between commands the profile is in force as a whole, with its file, record,
\* parameters and socket, or not at all, unless a command was cut off or met
\* an error that it ignores.  All that may stay behind is the record, with the
\* certificate that a removal kept.
UdpAllOrNothing ==
  udpPc = "idle" /\ "cut" \notin slips =>
    \/ owned = host /\ sysctlFile = "managed" /\ sysctl = Profile /\ socket = Profile
    \/ owned = host /\ sysctlFile = "edited"
    \/ /\ owned = NoRecord \/ (owned = host /\ "kept" \in slips)
       /\ sysctlFile = "absent" /\ sysctl = host /\ socket = host
=============================================================================
