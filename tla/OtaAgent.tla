------------------------------- MODULE OtaAgent -------------------------------
(***************************************************************************)
(* The OTA agent (infrastructure/ota_agent_node.cpp): a 1 Hz poll compares *)
(* two parameters with the values it saw last, drives a coordinator up to  *)
(* the health gate and hands it the health report.  The executor has one   *)
(* thread, so parameters change only between polls; the machine may lose   *)
(* power, or the agent be killed, between any two steps of a poll.         *)
(*                                                                         *)
(* `running` is the slot the machine was booted from, `good` the slot last *)
(* committed and `newest` the newest version this run of the agent has     *)
(* committed; no code reads them.  They say what I1, I3 and the downgrade  *)
(* rule are about.                                                         *)
(***************************************************************************)
EXTENDS OtaCoordinator, Integers

CONSTANTS
    FirstCounter,    \* parameter ota.security_counter
    Patient,         \* the operator waits for an update to be settled
    MarkerTears      \* may a crash hit the write of boot_target?

ASSUME AgentAssumption ==
    /\ FirstCounter \in Version
    /\ {Patient, MarkerTears} \subseteq BOOLEAN

VARIABLES
    counter,         \* OtaAgentNode::security_counter_
    target,          \* parameter ota.target_version
    last_target,
    report,          \* parameter ota.health_report
    last_report,
    pc,              \* where the poll is, or "idle"
    running,         \* the slot the machine was booted from
    good,            \* history: the slot committed last
    newest           \* history: the newest version this agent committed, or 0

params == <<target, last_target, report, last_report>>
history == <<good, newest>>
machine == <<running, history>>
vars == <<otavars, counter, params, pc, machine>>

Verdict == {"", "ok", "fail"}

\* No coordinator: std::optional ota_ is empty.
NoCoordinator == "NONE"

AgentInit ==
    /\ state = NoCoordinator
    /\ slots \in [Slot -> Version]
    /\ active_slot = "A" /\ active_version = slots["A"]
    /\ candidate_version = 0 /\ security_counter = FirstCounter
    /\ boot_target = "A" /\ running = "A" /\ lost = {}
    /\ good = "A" /\ newest = 0
    /\ counter = FirstCounter
    /\ target = 0 /\ last_target = 0
    /\ report = "" /\ last_report = ""
    /\ pc = "idle"
-----------------------------------------------------------------------------
(***************************************************************************)
(* The operator.  A patient one asks for an update only of a settled       *)
(* machine (or of one without a marker, where the agent refuses), and      *)
(* reports on a system only after having booted it.                        *)
(***************************************************************************)
Settled == boot_target = good /\ running = good

SetTarget(v) ==
    /\ pc = "idle" /\ (Patient => Settled \/ boot_target = NoSlot)
    /\ target' = v
    /\ UNCHANGED <<otavars, counter, last_target, report, last_report,
                   pc, machine>>

SetReport(h) ==
    /\ pc = "idle" /\ (Patient => running = boot_target)
    /\ report' = h
    /\ UNCHANGED <<otavars, counter, target, last_target, last_report,
                   pc, machine>>
-----------------------------------------------------------------------------
\* ota_.emplace(): a new coordinator takes the marked slot for the active one.
Emplaced(slot) ==
    /\ active_slot' = slot
    /\ active_version' = slots[slot]
    /\ security_counter' = counter

\* on_param_change() up to and including request_update().
OnParamChange ==
    \/ /\ boot_target = NoSlot
       /\ pc' = "report"
       /\ UNCHANGED coordinator
    \/ /\ boot_target # NoSlot
       /\ Emplaced(boot_target)
       /\ IF target < counter
          THEN state' = "IDLE" /\ candidate_version' = 0 /\ pc' = "report"
          ELSE state' = "DOWNLOADING" /\ candidate_version' = target
               /\ pc' = "update"

\* The poll timer fires on a machine that has come up.
Poll ==
    /\ pc = "idle" /\ running # NoSlot
    /\ last_target' = target
    /\ IF target # last_target /\ target > 0
       THEN OnParamChange
       ELSE pc' = "report" /\ UNCHANGED coordinator
    /\ UNCHANGED <<disk, counter, target, report, last_report, machine>>

\* run_update(): the coordinator's steps follow each other until one ends it.
RunUpdate ==
    /\ pc = "update"
    /\ \/ /\ OnDownloadComplete \/ BeginInstall \/ OnInstallComplete
          /\ pc' = "update"
       \/ /\ \/ FetchFails
             \/ InstallFails
             \/ SwitchBootTarget
             \/ state = "SWITCHING" /\ UNCHANGED otavars
          /\ pc' = "report"
    /\ UNCHANGED <<counter, params, machine>>

\* A version committed, as the counter of the agent follows it.
Later(v, w) == IF v > w THEN v ELSE w

\* Mutant: the agent keeps its own counter when an update is committed.
OnHealthReportForgets ==
    \/ /\ report = "ok" /\ OnHealthOk
       /\ good' = active_slot' /\ newest' = Later(candidate_version, newest)
       /\ UNCHANGED counter
    \/ /\ report = "fail" /\ RollBack
       /\ UNCHANGED <<counter, history>>

\* Mutant: the report of a failure is noted and nothing is rolled back.
OnHealthReportLogsFail ==
    \/ /\ report = "ok" /\ OnHealthOk
       /\ counter' = Later(candidate_version, counter)
       /\ good' = active_slot' /\ newest' = Later(candidate_version, newest)
    \/ /\ report = "fail"
       /\ UNCHANGED <<otavars, counter, history>>

\* on_health_report() at the health gate.
OnHealthReport ==
    \/ /\ report = "ok" /\ OnHealthOk
       /\ counter' = Later(candidate_version, counter)
       /\ good' = active_slot' /\ newest' = Later(candidate_version, newest)
    \/ /\ report = "fail" /\ RollBack
       /\ UNCHANGED <<counter, history>>

\* A report is news when it is set and not the one seen last.
NewReport == report # "" /\ report # last_report

PollReport ==
    /\ pc = "report"
    /\ pc' = "idle"
    /\ last_report' = IF NewReport THEN report ELSE last_report
    /\ IF NewReport /\ state = "HEALTH_GATE"
       THEN OnHealthReport
       ELSE UNCHANGED <<otavars, counter, history>>
    /\ UNCHANGED <<target, last_target, report, running>>
-----------------------------------------------------------------------------
\* The agent starts again from its parameters' defaults (constructor).  The
\* counter file that on_health_report() writes is read nowhere.
AgentRestarts ==
    /\ state' = NoCoordinator
    /\ counter' = FirstCounter
    /\ target' = 0 /\ last_target' = 0
    /\ report' = "" /\ last_report' = ""
    /\ pc' = "idle"
    /\ newest' = 0
    /\ UNCHANGED <<active_slot, active_version, security_counter,
                   candidate_version>>

\* The boot loader starts what the marker names; when that is nothing, or
\* not a whole image, the machine does not come up.
Booted ==
    IF boot_target # NoSlot /\ slots[boot_target] # Torn
    THEN boot_target ELSE NoSlot

(***************************************************************************)
(* A reboot between two polls.  It ends the agent with everything else; in *)
(* the tests and in ota_sim.sh it is a point in time that the agent        *)
(* outlives.                                                               *)
(***************************************************************************)
Reboot ==
    /\ pc = "idle" /\ running # Booted
    /\ running' = Booted
    /\ \/ AgentRestarts
       \/ UNCHANGED <<coordinator, counter, params, pc, newest>>
    /\ UNCHANGED <<disk, good>>

\* What a crash leaves on disk: a file that is being written is empty.
Interrupted ==
    \/ UNCHANGED disk
    \/ /\ pc = "update" /\ state = "DOWNLOADED"
       /\ slots' = [slots EXCEPT ![other_slot(active_slot)] = Torn]
       /\ UNCHANGED <<boot_target, lost>>
    \/ /\ MarkerTears
       /\ \/ pc = "update" /\ state = "SWITCHING"
          \/ /\ pc = "report" /\ state = "HEALTH_GATE"
             /\ NewReport /\ report = "fail"
       /\ boot_target' = NoSlot
       /\ UNCHANGED <<slots, lost>>

\* The agent is killed, alone or with the machine.
Crash ==
    /\ running # NoSlot
    /\ Interrupted
    /\ running' \in {running, Booted'}
    /\ AgentRestarts
    /\ UNCHANGED good

AgentNext ==
    \/ \E v \in Version : SetTarget(v)
    \/ \E h \in Verdict : SetReport(h)
    \/ Poll
    \/ RunUpdate
    \/ PollReport
    \/ Reboot
    \/ Crash

AgentSpec == AgentInit /\ [][AgentNext]_vars
-----------------------------------------------------------------------------
AgentTypeOK ==
    /\ state \in State \cup {NoCoordinator}
    /\ active_slot \in Slot
    /\ {active_version, candidate_version} \subseteq Version \cup {0}
    /\ {security_counter, counter} \subseteq Version
    /\ slots \in [Slot -> Version \cup {Torn}]
    /\ {boot_target, running} \subseteq Slot \cup {NoSlot}
    /\ lost \in SUBSET File
    /\ good \in Slot /\ newest \in Version \cup {0}
    /\ {target, last_target} \subseteq Version \cup {0}
    /\ {report, last_report} \subseteq Verdict
    /\ pc \in {"idle", "update", "report"}

(***************************************************************************)
(* The machine can boot: the marker names a slot that holds a whole image, *)
(* whenever power fails and however updates, refusals, reports and reboots *)
(* follow each other.  What write_file() does can break this in just three *)
(* ways: a crash in the write of the marker, which is not atomic, a write  *)
(* of the marker that came to nothing, and one of the slot it names.       *)
(***************************************************************************)
BootsCompleteImage ==
    IF boot_target = NoSlot
    THEN MarkerTears \/ "marker" \in lost
    ELSE slots[boot_target] # Torn \/ boot_target \in lost

(***************************************************************************)
(* I3 for the whole agent: a new report "fail" that is taken on a booted   *)
(* but uncommitted system leaves the marker on the slot committed last,    *)
(* unless the very write that should put it there came to nothing.  The    *)
(* agent has to be the one that made the update: after a real reboot, or   *)
(* its own restart, a new one knows of no gate and the report is void.     *)
(***************************************************************************)
FailRollsBack ==
    [][(NewReport /\ report = "fail" /\ last_report' = report
          /\ running # good /\ state # NoCoordinator)
             => boot_target' = good \/ "marker" \in lost']_vars

(***************************************************************************)
(* No update is accepted that is older than any version this run of the    *)
(* agent has committed, through whatever requests, refusals and rollbacks  *)
(* came in between, and although every request builds a new coordinator    *)
(* from the agent's copy of the counter.  (A restarted agent begins with   *)
(* its parameter again: nothing reads the counter file.)                   *)
(***************************************************************************)
NeverOlderThanCommitted ==
    [][state' = "DOWNLOADING" /\ state # "DOWNLOADING" =>
          candidate_version' >= newest]_vars

\* No image at all.
NoImage == -1

\* What the boot loader finds in the slot a marker names.
ImageIn(slot) == IF slot = NoSlot THEN NoImage ELSE slots[slot]

Abstract == INSTANCE AtomicUpdate
    WITH committed <- slots[good], next <- ImageIn(boot_target),
         booted <- ImageIn(running), kept <- (lost = {}),
         Nothing <- NoImage, Broken <- Torn, MayTear <- MarkerTears

(***************************************************************************)
(* Slots, marker, coordinator, agent, operator and crashes together are an *)
(* atomic update: what the marker and the two version files say at any     *)
(* time is the good system or one whole offered system, and flashing,      *)
(* failing, polling and restarting the agent change none of the three, so  *)
(* that the slot the machine runs from is never written (I1).  While the   *)
(* last write of some file is lost only the running system is warranted.   *)
(***************************************************************************)
UpdatesAtomically == Abstract!Spec
=============================================================================
