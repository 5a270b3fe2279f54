---------------------------- MODULE OtaCoordinator ----------------------------
(***************************************************************************)
(* The decision state machine of an A/B update                             *)
(* (domain/ota/ota_coordinator.hpp) with the two slots and the boot marker *)
(* its injected SlotOps work on.  One action per method that is accepted;  *)
(* a call out of order returns REJECTED_STATE and changes nothing.         *)
(***************************************************************************)
EXTENDS Naturals

CONSTANTS
    Version,         \* version numbers of the images there are
    WritesLost       \* may a write come to nothing without being noticed?

ASSUME VersionAssumption ==
    /\ Version \subseteq Nat \ {0}
    /\ WritesLost \in BOOLEAN

VARIABLES
    state,              \* State of the coordinator
    active_slot,        \* the slot that holds the known-good system
    active_version,
    security_counter,
    candidate_version,
    slots,              \* what version.txt of each slot says, or Torn
    boot_target,        \* the slot the boot loader will start
    lost                \* history: files whose last write came to nothing

coordinator ==
    <<state, active_slot, active_version, security_counter, candidate_version>>
disk == <<slots, boot_target, lost>>
otavars == <<coordinator, disk>>

State == {"IDLE", "DOWNLOADING", "DOWNLOADED", "INSTALLING", "SWITCHING",
          "HEALTH_GATE", "COMMITTED", "ROLLED_BACK"}

Slot == {"A", "B"}

File == Slot \cup {"marker"}

\* An empty boot_target: read_boot_target() finds nothing.
NoSlot == "-"

\* The content of a slot whose writing was cut short.
Torn == 0

other_slot(s) == IF s = "A" THEN "B" ELSE "A"

\* A coordinator built over the system that is known to be good.
Init ==
    /\ state = "IDLE"
    /\ active_slot \in Slot
    /\ active_version \in Version
    /\ security_counter \in Version
    /\ candidate_version = 0
    /\ slots \in [Slot -> Version \cup {Torn}]
    /\ slots[active_slot] = active_version
    /\ boot_target = active_slot
    /\ lost = {}
-----------------------------------------------------------------------------
(***************************************************************************)
(* write_file(), returning true.  It tests the stream before the buffered  *)
(* text has left for the file, and never syncs: a full disk at close() or  *)
(* a power cut before the write-back leaves the file empty or as it was,   *)
(* and nobody is told.                                                     *)
(***************************************************************************)
WriteVersion(s, v) ==
    \/ /\ slots' = [slots EXCEPT ![s] = v]
       /\ lost' = lost \ {s}
    \/ /\ WritesLost
       /\ \E left \in {slots[s], Torn} : slots' = [slots EXCEPT ![s] = left]
       /\ lost' = lost \cup {s}

WriteMarker(s) ==
    \/ /\ boot_target' = s
       /\ lost' = lost \ {"marker"}
    \/ /\ WritesLost
       /\ boot_target' \in {boot_target, NoSlot}
       /\ lost' = lost \cup {"marker"}

RequestUpdate(v, signature_valid) ==
    /\ state = "IDLE" /\ signature_valid /\ v >= security_counter
    /\ candidate_version' = v
    /\ state' = "DOWNLOADING"
    /\ UNCHANGED <<active_slot, active_version, security_counter, disk>>

\* run_update(): fetch() failed.
FetchFails ==
    /\ state = "DOWNLOADING"
    /\ state' = "IDLE"
    /\ UNCHANGED <<active_slot, active_version, security_counter,
                   candidate_version, disk>>

OnDownloadComplete ==
    /\ state = "DOWNLOADING"
    /\ state' = "DOWNLOADED"
    /\ UNCHANGED <<active_slot, active_version, security_counter,
                   candidate_version, disk>>

\* Mutant: the slot to write is taken for the active one.
BeginInstallActive ==
    /\ state = "DOWNLOADED"
    /\ WriteVersion(active_slot, candidate_version)
    /\ state' = "INSTALLING"
    /\ UNCHANGED <<active_slot, active_version, security_counter,
                   candidate_version, boot_target>>

BeginInstall ==
    /\ state = "DOWNLOADED"
    /\ WriteVersion(other_slot(active_slot), candidate_version)
    /\ state' = "INSTALLING"
    /\ UNCHANGED <<active_slot, active_version, security_counter,
                   candidate_version, boot_target>>

\* begin_install(), write() reporting that it failed, be it before or after
\* it truncated the file.
InstallFails ==
    /\ state = "DOWNLOADED"
    /\ \E left \in {slots[other_slot(active_slot)], Torn} :
          slots' = [slots EXCEPT ![other_slot(active_slot)] = left]
    /\ state' = "IDLE"
    /\ UNCHANGED <<active_slot, active_version, security_counter,
                   candidate_version, boot_target, lost>>

OnInstallComplete ==
    /\ state = "INSTALLING"
    /\ state' = "SWITCHING"
    /\ UNCHANGED <<active_slot, active_version, security_counter,
                   candidate_version, disk>>

\* Mutant: the marker may be switched before the image is in place.
SwitchEarly ==
    /\ state \in {"DOWNLOADED", "SWITCHING"}
    /\ WriteMarker(other_slot(active_slot))
    /\ state' = "HEALTH_GATE"
    /\ UNCHANGED <<active_slot, active_version, security_counter,
                   candidate_version, slots>>

\* A set_boot_target() that reports its failure (the file cannot be opened)
\* leaves state and marker: ABORTED, a stutter.
SwitchBootTarget ==
    /\ state = "SWITCHING"
    /\ WriteMarker(other_slot(active_slot))
    /\ state' = "HEALTH_GATE"
    /\ UNCHANGED <<active_slot, active_version, security_counter,
                   candidate_version, slots>>

\* Mutant: the counter moves past the version that was committed.
OnHealthOkBumps ==
    /\ state = "HEALTH_GATE"
    /\ active_slot' = other_slot(active_slot)
    /\ active_version' = candidate_version
    /\ security_counter' = candidate_version + 1
    /\ state' = "COMMITTED"
    /\ UNCHANGED <<candidate_version, disk>>

\* on_health(true)
OnHealthOk ==
    /\ state = "HEALTH_GATE"
    /\ active_slot' = other_slot(active_slot)
    /\ active_version' = candidate_version
    /\ security_counter' = IF candidate_version > security_counter
                           THEN candidate_version ELSE security_counter
    /\ state' = "COMMITTED"
    /\ UNCHANGED <<candidate_version, disk>>

\* Mutant: the rejected image is wiped while the machine runs it.
RollBackWipes ==
    /\ state = "HEALTH_GATE"
    /\ WriteMarker(active_slot)
    /\ slots' = [slots EXCEPT ![other_slot(active_slot)] = Torn]
    /\ state' = "ROLLED_BACK"
    /\ UNCHANGED <<active_slot, active_version, security_counter,
                   candidate_version>>

(***************************************************************************)
(* on_health(false), and force_rollback(), which does the same.  The       *)
(* rollback callback drops what write_file() returns: also a marker that   *)
(* cannot be opened for writing is taken to have been put back.            *)
(***************************************************************************)
RollBack ==
    /\ state = "HEALTH_GATE"
    /\ WriteMarker(active_slot)
    /\ state' = "ROLLED_BACK"
    /\ UNCHANGED <<active_slot, active_version, security_counter,
                   candidate_version, slots>>

Next ==
    \/ \E v \in Version, sig \in BOOLEAN : RequestUpdate(v, sig)
    \/ FetchFails
    \/ OnDownloadComplete
    \/ BeginInstall
    \/ InstallFails
    \/ OnInstallComplete
    \/ SwitchBootTarget
    \/ OnHealthOk
    \/ RollBack

Spec == Init /\ [][Next]_otavars
-----------------------------------------------------------------------------
TypeOK ==
    /\ state \in State
    /\ active_slot \in Slot
    /\ active_version \in Version
    /\ security_counter \in Version
    /\ candidate_version \in Version \cup {0}
    /\ slots \in [Slot -> Version \cup {Torn}]
    /\ boot_target \in Slot \cup {NoSlot}
    /\ lost \in SUBSET File

(***************************************************************************)
(* I1: whatever is called and whatever fails, the slot the coordinator     *)
(* regards as active holds exactly the version it takes to be active:      *)
(* flashing only ever reaches the other slot, and a commit moves slot and  *)
(* version together.  The one exception is a committed slot whose own      *)
(* flashing came to nothing unnoticed.                                     *)
(***************************************************************************)
ActiveSlotIntact == slots[active_slot] = active_version \/ active_slot \in lost

(***************************************************************************)
(* I2 and I3: the boot marker leaves the active slot only for the health   *)
(* gate, and then it names a slot that holds the whole candidate; after a  *)
(* refusal, an abort, a commit or a rollback it names the active slot.     *)
(* A write that came to nothing unnoticed spoils what is said of its own   *)
(* file and nothing else, and only until that file is written again.       *)
(***************************************************************************)
MarkerFollowsGate ==
    /\ state = "HEALTH_GATE" =>
          LET candidate == other_slot(active_slot)
          IN  /\ boot_target = candidate \/ "marker" \in lost
              /\ slots[candidate] = candidate_version \/ candidate \in lost
    /\ state \in State \ {"HEALTH_GATE"} =>
          boot_target = active_slot \/ "marker" \in lost

(***************************************************************************)
(* An update under way is never older than the security counter, and the   *)
(* commit leaves the counter at the version that now runs.                 *)
(***************************************************************************)
NoDowngrade ==
    /\ state \in State \ {"IDLE", "COMMITTED"} =>
          candidate_version >= security_counter
    /\ state = "COMMITTED" => security_counter = active_version
=============================================================================
