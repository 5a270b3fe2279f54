------------------------------- MODULE OtaProofs -------------------------------
(***************************************************************************)
(* Theorems about the OTA coordinator and agent.                           *)
(***************************************************************************)
EXTENDS OtaAgent, TLAPS

\* An image and a torn file are told apart by their version.
LEMMA TornIsNoVersion == Torn \notin Version /\ Version \subseteq Nat
  BY VersionAssumption DEF Torn

-----------------------------------------------------------------------------
(***************************************************************************)
(* The inductive invariant of the coordinator.  An image being installed   *)
(* is the candidate's, or its writing was lost; this is what makes the     *)
(* switch safe.                                                            *)
(***************************************************************************)
Candidate ==
    /\ state \notin {"IDLE"} => candidate_version \in Version
    /\ state \in {"INSTALLING", "SWITCHING", "HEALTH_GATE"} =>
          \/ slots[other_slot(active_slot)] = candidate_version
          \/ other_slot(active_slot) \in lost

CoordinatorInv ==
    /\ TypeOK
    /\ Candidate
    /\ ActiveSlotIntact
    /\ MarkerFollowsGate
    /\ NoDowngrade

(***************************************************************************)
(* What a call of write_file() may do to the version files: the slot it is *)
(* for holds what was written or is among the lost ones, and no other file *)
(* is touched.                                                             *)
(***************************************************************************)
LEMMA VersionWritten ==
    ASSUME NEW s \in Slot, NEW v \in Version, WriteVersion(s, v),
           slots \in [Slot -> Version \cup {Torn}], lost \in SUBSET File
    PROVE  /\ slots' \in [Slot -> Version \cup {Torn}]
           /\ lost' \in SUBSET File
           /\ slots'[s] = v \/ s \in lost'
           /\ \A t \in File : t # s => (t \in lost' <=> t \in lost)
           /\ \A t \in Slot : t # s => slots'[t] = slots[t]
  BY DEF WriteVersion, File

\* A new coordinator satisfies the invariant.
LEMMA CoordinatorInit == Init => CoordinatorInv
  BY TornIsNoVersion
  DEF Init, CoordinatorInv, TypeOK, Candidate, ActiveSlotIntact,
      MarkerFollowsGate, NoDowngrade, State, Slot, File

\* Every method of the coordinator preserves it.
LEMMA CoordinatorStep == CoordinatorInv /\ [Next]_otavars => CoordinatorInv'
<1> SUFFICES ASSUME CoordinatorInv, [Next]_otavars
             PROVE  CoordinatorInv'
  OBVIOUS
<1> USE TornIsNoVersion
        DEF CoordinatorInv, TypeOK, Candidate, ActiveSlotIntact,
            MarkerFollowsGate, NoDowngrade, State, Slot, File, NoSlot,
            other_slot, WriteVersion, WriteMarker
<1>1. ASSUME NEW v \in Version, NEW sig \in BOOLEAN, RequestUpdate(v, sig)
      PROVE  CoordinatorInv'
  BY <1>1 DEF RequestUpdate, disk
<1>2. CASE FetchFails
  BY <1>2 DEF FetchFails, disk
<1>3. CASE OnDownloadComplete
  BY <1>3 DEF OnDownloadComplete, disk
<1>4. CASE BeginInstall
  <2>1. other_slot(active_slot) \in Slot /\ candidate_version \in Version
    BY <1>4 DEF BeginInstall
  <2>2. WriteVersion(other_slot(active_slot), candidate_version)
    BY <1>4 DEF BeginInstall
  <2> HIDE DEF WriteVersion
  <2>3. slots \in [Slot -> Version \cup {Torn}] /\ lost \in SUBSET File
    BY Zenon
  <2>4. /\ slots' \in [Slot -> Version \cup {Torn}] /\ lost' \in SUBSET File
        /\ \/ slots'[other_slot(active_slot)] = candidate_version
           \/ other_slot(active_slot) \in lost'
        /\ active_slot \in lost' <=> active_slot \in lost
        /\ "marker" \in lost' <=> "marker" \in lost
        /\ slots'[active_slot] = slots[active_slot]
    BY <2>1, <2>2, <2>3, VersionWritten
  <2> QED
    BY <1>4, <2>4 DEF BeginInstall
<1>5. CASE InstallFails
  BY <1>5 DEF InstallFails
<1>6. CASE OnInstallComplete
  BY <1>6 DEF OnInstallComplete, disk
<1>7. CASE SwitchBootTarget
  BY <1>7 DEF SwitchBootTarget
<1>8. CASE OnHealthOk
  BY <1>8 DEF OnHealthOk, disk
<1>9. CASE RollBack
  BY <1>9 DEF RollBack
<1>10. CASE UNCHANGED otavars
  BY <1>10 DEF otavars, coordinator, disk
<1> QED
  BY <1>1, <1>2, <1>3, <1>4, <1>5, <1>6, <1>7, <1>8, <1>9, <1>10 DEF Next

(***************************************************************************)
(* The coordinator's methods keep its state and the two slots in type, for *)
(* every set of versions.                                                  *)
(***************************************************************************)
THEOREM CoordinatorType == Spec => []TypeOK
<1>1. CoordinatorInv => TypeOK
  BY DEF CoordinatorInv
<1> QED
  BY <1>1, CoordinatorInit, CoordinatorStep, PTL DEF Spec

(***************************************************************************)
(* I1 to I3 of ota_coordinator.hpp: the active slot is never written, the  *)
(* marker leaves it only for the health gate over a whole candidate, and   *)
(* refusals, aborts and rollbacks bring it back, whether or not writes may *)
(* be lost: a lost write costs the claim about its own file, no other.     *)
(***************************************************************************)
THEOREM CoordinatorSafe ==
    Spec => [](ActiveSlotIntact /\ MarkerFollowsGate)
<1>1. CoordinatorInv => ActiveSlotIntact /\ MarkerFollowsGate
  BY DEF CoordinatorInv
<1> QED
  BY <1>1, CoordinatorInit, CoordinatorStep, PTL DEF Spec

(***************************************************************************)
(* request_update() and the commit keep every update at or above the       *)
(* security counter, and the counter at the version that runs.             *)
(***************************************************************************)
THEOREM CoordinatorNoDowngrade == Spec => []NoDowngrade
<1>1. CoordinatorInv => NoDowngrade
  BY DEF CoordinatorInv
<1> QED
  BY <1>1, CoordinatorInit, CoordinatorStep, PTL DEF Spec

-----------------------------------------------------------------------------
(***************************************************************************)
(* The inductive invariant of the agent.  The coordinator's own invariant  *)
(* is too strong here: a new one may take an uncommitted slot for the      *)
(* active one, and a crash forgets it.  What survives is that an update    *)
(* under way writes the slot the marker does not name, and that both ways  *)
(* out of the health gate lead to a whole image, lost writes apart.        *)
(***************************************************************************)
UpdateUnderWay ==
    pc = "update" =>
        /\ state \in {"DOWNLOADING", "DOWNLOADED", "INSTALLING", "SWITCHING"}
        /\ active_slot = boot_target
        /\ candidate_version \in Version
        /\ state \in {"INSTALLING", "SWITCHING"} =>
              \/ slots[other_slot(active_slot)] = candidate_version
              \/ other_slot(active_slot) \in lost

GateIsSafe ==
    state = "HEALTH_GATE" =>
        /\ slots[active_slot] # Torn \/ active_slot \in lost
        /\ candidate_version \in Version

AgentInv ==
    /\ AgentTypeOK
    /\ BootsCompleteImage
    /\ UpdateUnderWay
    /\ GateIsSafe

\* A target above 0 is a version.
LEMMA PositiveTarget ==
    ASSUME NEW t \in Version \cup {0}, t > 0
    PROVE  t \in Version
  OBVIOUS

\* The counter parameter is the version of some image.
LEMMA FirstCounterIsVersion == FirstCounter \in Version
  BY AgentAssumption

\* The agent starts on a machine that boots.
LEMMA AgentInitInv == AgentInit => AgentInv
  BY TornIsNoVersion, FirstCounterIsVersion
  DEF AgentInit, AgentInv, AgentTypeOK, BootsCompleteImage, UpdateUnderWay,
      GateIsSafe, State, Slot, File, NoCoordinator, NoSlot, Verdict

\* A request that is accepted is not older than the agent's counter.
LEMMA AcceptedTarget ==
    ASSUME AgentInv, OnParamChange, target > 0, boot_target # NoSlot
    PROVE  /\ active_slot' = boot_target /\ active_version' = slots[boot_target]
           /\ security_counter' = counter
           /\ \/ state' = "IDLE" /\ candidate_version' = 0 /\ pc' = "report"
              \/ /\ state' = "DOWNLOADING" /\ candidate_version' = target
                 /\ target \in Nat /\ counter \in Nat /\ counter <= target
                 /\ target \in Version /\ pc' = "update"
<1>1. target \in Version \cup {0} /\ counter \in Version
  BY Zenon DEF AgentInv, AgentTypeOK
<1>2. target \in Version /\ target \in Nat /\ counter \in Nat
  BY <1>1, PositiveTarget, TornIsNoVersion, Zenon
<1> QED
  BY <1>2 DEF OnParamChange, Emplaced

\* Every step of operator, agent and machine preserves the invariant.
LEMMA AgentStep == AgentInv /\ [AgentNext]_vars => AgentInv'
<1> SUFFICES ASSUME AgentInv, [AgentNext]_vars
             PROVE  AgentInv'
  OBVIOUS
<1> USE TornIsNoVersion, FirstCounterIsVersion
        DEF AgentInv, AgentTypeOK, BootsCompleteImage, UpdateUnderWay,
            GateIsSafe, State, Slot, File, NoCoordinator, NoSlot, Verdict,
            other_slot, WriteVersion, WriteMarker, history
<1>1. ASSUME NEW v \in Version, SetTarget(v)
      PROVE  AgentInv'
  BY <1>1 DEF SetTarget, otavars, coordinator, disk, machine
<1>2. ASSUME NEW h \in Verdict, SetReport(h)
      PROVE  AgentInv'
  BY <1>2 DEF SetReport, otavars, coordinator, disk, machine
<1>3. CASE Poll
  <2>1. CASE ~(target # last_target /\ target > 0)
    BY <1>3, <2>1 DEF Poll, coordinator, disk, machine
  <2>2. CASE target # last_target /\ target > 0
    <3>1. OnParamChange /\ UNCHANGED <<disk, counter, target, report,
                                      last_report, machine>>
          /\ last_target' = target
      BY <1>3, <2>2 DEF Poll
    <3>2. target \in Version \cup {0} /\ counter \in Version
      BY Zenon
    <3>3. target \in Version /\ target \in Nat /\ counter \in Nat
      BY <2>2, <3>2, PositiveTarget, TornIsNoVersion, Zenon
    <3>4. CASE boot_target = NoSlot
      BY <3>1, <3>4 DEF OnParamChange, coordinator, disk, machine
    <3>5. CASE boot_target # NoSlot
      <4>1. active_slot' = boot_target /\ active_version' = slots[boot_target]
            /\ security_counter' = counter
            /\ \/ state' = "IDLE" /\ candidate_version' = 0 /\ pc' = "report"
               \/ /\ state' = "DOWNLOADING" /\ candidate_version' = target
                  /\ pc' = "update"
        BY <2>2, <3>1, <3>5, AcceptedTarget
      <4>a. /\ active_slot' \in Slot /\ security_counter' \in Version
            /\ state' \in State /\ pc' \in {"update", "report"}
        BY <3>2, <3>5, <4>1
      <4>b. active_version' \in Version \cup {0}
        <5>1. slots \in [Slot -> Version \cup {Torn}]
              /\ boot_target \in Slot \cup {NoSlot}
          BY Zenon
        <5>2. slots[boot_target] \in Version \cup {Torn}
          BY <3>5, <5>1
        <5> QED
          BY <4>1, <5>2, Zenon DEF Torn
      <4>c. candidate_version' \in Version \cup {0}
        BY <3>3, <4>1
      <4>d. /\ UNCHANGED <<disk, counter, target, report, last_report, machine>>
            /\ last_target' = target
        BY <3>1
      <4>2. AgentTypeOK'
        BY <4>a, <4>b, <4>c, <4>d DEF disk, machine
      <4>3. BootsCompleteImage' /\ GateIsSafe'
        BY <3>1, <3>5, <4>1 DEF disk
      <4>4. UpdateUnderWay'
        BY <3>1, <3>3, <3>5, <4>1 DEF disk
      <4> QED
        BY <4>2, <4>3, <4>4
    <3> QED
      BY <3>4, <3>5
  <2> QED
    BY <2>1, <2>2
<1>4. CASE RunUpdate
  <2>1. CASE OnDownloadComplete /\ pc' = "update"
    BY <1>4, <2>1 DEF RunUpdate, OnDownloadComplete, disk, params, machine
  <2>2. CASE BeginInstall /\ pc' = "update"
    <3>1. /\ other_slot(active_slot) \in Slot /\ candidate_version \in Version
          /\ active_slot = boot_target /\ pc = "update"
      BY <1>4 DEF RunUpdate
    <3>2. WriteVersion(other_slot(active_slot), candidate_version)
      BY <2>2 DEF BeginInstall
    <3> HIDE DEF WriteVersion
    <3>3. /\ slots' \in [Slot -> Version \cup {Torn}] /\ lost' \in SUBSET File
          /\ \/ slots'[other_slot(active_slot)] = candidate_version
             \/ other_slot(active_slot) \in lost'
          /\ active_slot \in lost' <=> active_slot \in lost
          /\ slots'[active_slot] = slots[active_slot]
      <4>1. slots \in [Slot -> Version \cup {Torn}] /\ lost \in SUBSET File
        BY Zenon
      <4> QED
        BY <3>1, <3>2, <4>1, VersionWritten
    <3> QED
      BY <1>4, <2>2, <3>1, <3>3 DEF RunUpdate, BeginInstall, params, machine
  <2>3. CASE OnInstallComplete /\ pc' = "update"
    BY <1>4, <2>3 DEF RunUpdate, OnInstallComplete, disk, params, machine
  <2>4. CASE FetchFails /\ pc' = "report"
    BY <1>4, <2>4 DEF RunUpdate, FetchFails, disk, params, machine
  <2>5. CASE InstallFails /\ pc' = "report"
    BY <1>4, <2>5 DEF RunUpdate, InstallFails, params, machine
  <2>6. CASE SwitchBootTarget /\ pc' = "report"
    BY <1>4, <2>6 DEF RunUpdate, SwitchBootTarget, params, machine
  <2>7. CASE state = "SWITCHING" /\ UNCHANGED otavars /\ pc' = "report"
    BY <1>4, <2>7 DEF RunUpdate, otavars, coordinator, disk, params, machine
  <2> QED
    BY <1>4, <2>1, <2>2, <2>3, <2>4, <2>5, <2>6, <2>7 DEF RunUpdate
<1>5. CASE PollReport
  <2>1. CASE ~(NewReport /\ state = "HEALTH_GATE")
    <3>1. /\ UNCHANGED <<otavars, counter, history, target, last_target, report,
                         running>>
          /\ pc' = "idle" /\ last_report' \in {report, last_report}
      BY <1>5, <2>1, Zenon DEF PollReport
    <3> QED
      BY <3>1 DEF otavars, coordinator, disk
  <2>2. CASE NewReport /\ state = "HEALTH_GATE" /\ report = "ok"
    <3>1. OnHealthReport /\ pc' = "idle"
      BY <1>5, <2>2 DEF PollReport
    <3>2. OnHealthOk
      BY <2>2, <3>1 DEF OnHealthReport
    <3>3. /\ counter' \in {counter, candidate_version} /\ good' = active_slot'
          /\ newest' \in {newest, candidate_version}
      BY <2>2, <3>1, Zenon DEF OnHealthReport, Later
    <3>4. security_counter' \in {security_counter, candidate_version}
      BY <3>2, Zenon DEF OnHealthOk
    <3>5. candidate_version \in Version
      BY <2>2
    <3> QED
      BY <1>5, <3>1, <3>2, <3>3, <3>4, <3>5 DEF PollReport, OnHealthOk, disk
  <2>3. CASE NewReport /\ state = "HEALTH_GATE" /\ report = "fail"
    BY <1>5, <2>3 DEF PollReport, OnHealthReport, RollBack
  <2> QED
    BY <1>5, <2>1, <2>2, <2>3 DEF NewReport
<1>6. CASE Reboot
  <2>1. CASE UNCHANGED <<coordinator, counter, params, pc, newest>>
    BY <1>6, <2>1 DEF Reboot, Booted, coordinator, params, disk
  <2>2. CASE AgentRestarts
    BY <1>6, <2>2 DEF Reboot, Booted, AgentRestarts, disk
  <2> QED
    BY <1>6, <2>1, <2>2 DEF Reboot
<1>7. CASE Crash
  BY <1>7 DEF Crash, Interrupted, AgentRestarts, Booted, disk
<1>8. CASE UNCHANGED vars
  BY <1>8 DEF vars, otavars, coordinator, disk, params, machine
<1> QED
  BY <1>1, <1>2, <1>3, <1>4, <1>5, <1>6, <1>7, <1>8 DEF AgentNext

(***************************************************************************)
(* The machine boots a whole image: through a kill or a power cut between  *)
(* any two steps of a poll, a fetch, write or switch that is reported to   *)
(* have failed, an impatient operator and late reports.  The exceptions    *)
(* are those BootsCompleteImage names: a marker torn by a crash, and a     *)
(* marker or an image whose last write came to nothing unnoticed.          *)
(***************************************************************************)
THEOREM BootsCompleteImageTheorem == AgentSpec => []BootsCompleteImage
<1>1. AgentInv => BootsCompleteImage
  BY DEF AgentInv
<1>2. AgentInv /\ [AgentNext]_vars => AgentInv'
  BY AgentStep
<1> QED
  BY <1>1, <1>2, AgentInitInv, PTL DEF AgentSpec

(***************************************************************************)
(* Type correctness of the agent, in every setting.                        *)
(***************************************************************************)
THEOREM AgentType == AgentSpec => []AgentTypeOK
<1>1. AgentInv => AgentTypeOK
  BY DEF AgentInv
<1>2. AgentInv /\ [AgentNext]_vars => AgentInv'
  BY AgentStep
<1> QED
  BY <1>1, <1>2, AgentInitInv, PTL DEF AgentSpec

-----------------------------------------------------------------------------
(***************************************************************************)
(* What the coordinator's three invariants become for the agent: whatever  *)
(* coordinator there is has slot, version, counter and marker in           *)
(* agreement, and the agent's own counter, which outlives a coordinator,   *)
(* covers all that this run of the agent has committed.                    *)
(***************************************************************************)
CounterCovers == newest <= counter

VersionsAgree ==
    /\ ActiveSlotIntact
    /\ NoDowngrade
    /\ MarkerFollowsGate
    /\ CounterCovers

\* The machine is set up with slots, versions and counter in agreement.
LEMMA VersionsInit == AgentInit => VersionsAgree
<1>1. FirstCounter \in Nat
  BY TornIsNoVersion, FirstCounterIsVersion
<1> SUFFICES ASSUME AgentInit PROVE VersionsAgree
  OBVIOUS
<1>2. state \notin State
  BY DEF AgentInit, State, NoCoordinator
<1>3. ActiveSlotIntact
  BY DEF AgentInit, ActiveSlotIntact
<1>4. NoDowngrade
  BY <1>2 DEF NoDowngrade, State
<1>a. newest = 0 /\ counter = FirstCounter
  BY DEF AgentInit
<1>b. newest <= counter
  BY <1>1, <1>a
<1>5. CounterCovers
  BY <1>b DEF CounterCovers
<1>6. MarkerFollowsGate
  BY <1>2 DEF AgentInit, MarkerFollowsGate, State
<1> QED
  BY <1>3, <1>4, <1>5, <1>6 DEF VersionsAgree

\* Every step of operator, agent and machine keeps them in agreement.
LEMMA VersionsStep ==
    AgentInv /\ VersionsAgree /\ [AgentNext]_vars => VersionsAgree'
<1> SUFFICES ASSUME AgentInv, VersionsAgree, [AgentNext]_vars
             PROVE  VersionsAgree'
  OBVIOUS
<1> USE TornIsNoVersion
        DEF VersionsAgree, ActiveSlotIntact, NoDowngrade, MarkerFollowsGate,
            CounterCovers, State, Slot, File, NoCoordinator, NoSlot,
            other_slot, WriteVersion, WriteMarker, history
<1>0. /\ state \in State \cup {NoCoordinator} /\ active_slot \in Slot
      /\ slots \in [Slot -> Version \cup {Torn}]
      /\ boot_target \in Slot \cup {NoSlot} /\ lost \in SUBSET File
  BY Zenon DEF AgentInv, AgentTypeOK
<1>f. AgentRestarts => newest' <= counter'
  <2>1. FirstCounter \in Nat
    BY FirstCounterIsVersion
  <2>2. 0 <= FirstCounter
    BY <2>1
  <2> QED
    BY <2>2, Zenon DEF AgentRestarts
<1>1. ASSUME NEW v \in Version, SetTarget(v)
      PROVE  VersionsAgree'
  BY <1>1 DEF SetTarget, otavars, coordinator, disk, machine
<1>2. ASSUME NEW h \in Verdict, SetReport(h)
      PROVE  VersionsAgree'
  BY <1>2 DEF SetReport, otavars, coordinator, disk, machine
<1>3. CASE Poll
  <2>1. CASE ~(target # last_target /\ target > 0)
    BY <1>3, <2>1 DEF Poll, coordinator, disk, machine
  <2>2. CASE target # last_target /\ target > 0
    <3>1. OnParamChange /\ UNCHANGED <<disk, counter, newest>>
      BY <1>3, <2>2 DEF Poll, machine
    <3>2. CASE boot_target = NoSlot
      BY <3>1, <3>2 DEF OnParamChange, coordinator, disk
    <3>3. CASE boot_target # NoSlot
      BY <2>2, <3>1, <3>3, AcceptedTarget DEF disk
    <3> QED
      BY <3>2, <3>3
  <2> QED
    BY <2>1, <2>2
<1>4. CASE RunUpdate
  <2> USE <1>4 DEF AgentInv, UpdateUnderWay, RunUpdate, params, machine
  <2>1. CASE OnDownloadComplete /\ pc' = "update"
    BY <1>0, <2>1 DEF OnDownloadComplete, disk
  <2>2. CASE BeginInstall /\ pc' = "update"
    BY <1>0, <2>2 DEF BeginInstall
  <2>3. CASE OnInstallComplete /\ pc' = "update"
    BY <1>0, <2>3 DEF OnInstallComplete, disk
  <2>4. CASE FetchFails /\ pc' = "report"
    BY <1>0, <2>4 DEF FetchFails, disk
  <2>5. CASE InstallFails /\ pc' = "report"
    BY <1>0, <2>5 DEF InstallFails
  <2>6. CASE SwitchBootTarget /\ pc' = "report"
    BY <1>0, <2>6 DEF SwitchBootTarget
  <2>7. CASE state = "SWITCHING" /\ UNCHANGED otavars /\ pc' = "report"
    BY <1>0, <2>7 DEF otavars, coordinator, disk
  <2> QED
    BY <2>1, <2>2, <2>3, <2>4, <2>5, <2>6, <2>7
<1>5. CASE PollReport
  <2>1. CASE ~(NewReport /\ state = "HEALTH_GATE")
    BY <1>5, <2>1 DEF PollReport, otavars, coordinator, disk
  <2>2. CASE NewReport /\ state = "HEALTH_GATE" /\ report = "ok"
    <3>1. OnHealthReport
      BY <1>5, <2>2 DEF PollReport
    <3>2. /\ OnHealthOk
          /\ counter' = Later(candidate_version, counter)
          /\ newest' = Later(candidate_version, newest)
      BY <2>2, <3>1 DEF OnHealthReport
    <3>3. candidate_version \in Version /\ security_counter \in Version
          /\ counter \in Version /\ newest \in Version \cup {0}
      BY <2>2, Zenon DEF AgentInv, AgentTypeOK, GateIsSafe
    <3>4. candidate_version \in Nat /\ security_counter \in Nat
          /\ counter \in Nat /\ newest \in Nat
      BY <3>3
    <3> QED
      BY <1>0, <2>2, <3>2, <3>4 DEF OnHealthOk, Later, disk
  <2>3. CASE NewReport /\ state = "HEALTH_GATE" /\ report = "fail"
    BY <1>0, <1>5, <2>3 DEF PollReport, OnHealthReport, RollBack
  <2> QED
    BY <1>5, <2>1, <2>2, <2>3 DEF NewReport, AgentInv, AgentTypeOK, Verdict
<1>6. CASE Reboot
  <2>1. CASE UNCHANGED <<coordinator, counter, newest>>
    BY <1>6, <2>1 DEF Reboot, coordinator, disk
  <2>2. CASE AgentRestarts
    BY <1>6, <1>f, <2>2 DEF Reboot, AgentRestarts, disk
  <2> QED
    BY <1>6, <2>1, <2>2 DEF Reboot
<1>7. CASE Crash
  <2>1. AgentRestarts /\ Interrupted
    BY <1>7 DEF Crash
  <2>2. ActiveSlotIntact'
    BY <1>0, <2>1 DEF Interrupted, AgentRestarts, disk
  <2>3. NoDowngrade' /\ MarkerFollowsGate' /\ CounterCovers'
    BY <1>f, <2>1 DEF AgentRestarts
  <2> QED
    BY <2>2, <2>3
<1>8. CASE UNCHANGED vars
  BY <1>8 DEF vars, otavars, coordinator, disk, params, machine
<1> QED
  BY <1>1, <1>2, <1>3, <1>4, <1>5, <1>6, <1>7, <1>8 DEF AgentNext

\* Both invariants of the agent hold throughout.
LEMMA AgentAlways == AgentSpec => [](AgentInv /\ VersionsAgree)
<1>1. AgentInv /\ [AgentNext]_vars => AgentInv'
  BY AgentStep
<1>2. AgentInv /\ VersionsAgree /\ [AgentNext]_vars => VersionsAgree'
  BY VersionsStep
<1> QED
  BY <1>1, <1>2, AgentInitInv, VersionsInit, PTL DEF AgentSpec

(***************************************************************************)
(* I1 and the downgrade rule for the whole agent, whatever crashes, kills  *)
(* and impatient operators do: the slot that a coordinator regards as      *)
(* active holds the version it has noted, and no update under way is older *)
(* than the counter it was built with.                                     *)
(***************************************************************************)
THEOREM AgentSlotsSafe == AgentSpec => [](ActiveSlotIntact /\ NoDowngrade)
<1>1. VersionsAgree => ActiveSlotIntact /\ NoDowngrade
  BY DEF VersionsAgree
<1> QED
  BY <1>1, AgentAlways, PTL

(***************************************************************************)
(* Whatever coordinator the agent has, the marker has left its active slot *)
(* only for the health gate, through every order of polls, requests,       *)
(* reports, crashes and reboots.  (After a restart there is no coordinator *)
(* and nobody remembers the gate.)                                         *)
(***************************************************************************)
THEOREM AgentMarkerSafe == AgentSpec => []MarkerFollowsGate
<1>1. VersionsAgree => MarkerFollowsGate
  BY DEF VersionsAgree
<1> QED
  BY <1>1, AgentAlways, PTL

(***************************************************************************)
(* No request is accepted below any version this run of the agent has      *)
(* committed, whatever was refused, aborted or rolled back since and       *)
(* although the coordinators that enforced it are gone: the agent's own    *)
(* copy of the counter covers them all.  (After a restart it does not.)    *)
(***************************************************************************)
THEOREM AgentNeverOlder == AgentSpec => NeverOlderThanCommitted
<1>1. AgentInv /\ VersionsAgree /\ [AgentNext]_vars =>
        [state' = "DOWNLOADING" /\ state # "DOWNLOADING" =>
          candidate_version' >= newest]_vars
  <2> SUFFICES ASSUME AgentInv, VersionsAgree, AgentNext,
                      state' = "DOWNLOADING", state # "DOWNLOADING"
               PROVE  candidate_version' >= newest
    OBVIOUS
  <2>1. Poll
    BY DEF AgentNext, SetTarget, SetReport, RunUpdate, PollReport, Reboot,
           Crash, AgentRestarts, OnDownloadComplete, BeginInstall,
           OnInstallComplete, FetchFails, InstallFails, SwitchBootTarget,
           OnHealthReport, OnHealthOk, RollBack, NoCoordinator, otavars,
           coordinator
  <2>2. target > 0 /\ OnParamChange /\ boot_target # NoSlot
    BY <2>1 DEF Poll, OnParamChange, coordinator
  <2>3. /\ candidate_version' = target /\ target \in Nat /\ counter \in Nat
        /\ counter <= target
    BY <2>2, AcceptedTarget
  <2>4. newest <= counter
    BY DEF VersionsAgree, CounterCovers
  <2>5. newest \in Version \cup {0}
    BY Zenon DEF AgentInv, AgentTypeOK
  <2>6. newest \in Nat
    BY <2>5, TornIsNoVersion
  <2> QED
    BY <2>3, <2>4, <2>6
<1> QED
  BY <1>1, AgentAlways, PTL DEF AgentSpec, NeverOlderThanCommitted

-----------------------------------------------------------------------------
(***************************************************************************)
(* What a patient operator adds.  A request that a poll has still to see   *)
(* was made of a settled machine and nothing has unsettled it since, short *)
(* of a boot that failed; so an update is under way only on the good       *)
(* system, and what waits at the gate is measured against the slot         *)
(* committed last.                                                         *)
(***************************************************************************)
RequestPending == target # last_target /\ target > 0

PatientInv ==
    /\ pc # "idle" => target = last_target
    /\ pc = "idle" /\ RequestPending =>
          \/ boot_target = NoSlot
          \/ boot_target = good /\ running \in {good, NoSlot}
    /\ pc = "update" => Settled
    /\ state = "HEALTH_GATE" => active_slot = good
    /\ state \notin {"HEALTH_GATE", NoCoordinator} =>
          boot_target = good \/ "marker" \in lost

\* The machine is set up settled and without a request.
LEMMA PatientInit == AgentInit => PatientInv
  BY DEF AgentInit, PatientInv, RequestPending, Settled, NoCoordinator

\* Patience is kept by every step of operator, agent and machine.
LEMMA PatientStep ==
    ASSUME Patient, AgentInv, VersionsAgree, PatientInv, [AgentNext]_vars
    PROVE  PatientInv'
<1> USE Patient
        DEF PatientInv, RequestPending, Settled, NoCoordinator, NoSlot, history
<1>0. /\ state \in State \cup {NoCoordinator} /\ active_slot \in Slot
      /\ boot_target \in Slot \cup {NoSlot} /\ good \in Slot
  BY Zenon DEF AgentInv, AgentTypeOK
<1>1. ASSUME NEW v \in Version, SetTarget(v)
      PROVE  PatientInv'
  BY <1>1 DEF SetTarget, otavars, coordinator, disk, machine
<1>2. ASSUME NEW h \in Verdict, SetReport(h)
      PROVE  PatientInv'
  BY <1>2 DEF SetReport, otavars, coordinator, disk, machine
<1>3. CASE Poll
  <2>1. CASE ~RequestPending
    BY <1>3, <2>1 DEF Poll, coordinator, disk, machine
  <2>2. CASE RequestPending
    <3>1. /\ OnParamChange /\ last_target' = target
          /\ UNCHANGED <<disk, target, machine>>
          /\ (Settled \/ boot_target = NoSlot)
      BY <1>3, <2>2 DEF Poll
    <3> QED
      BY <3>1 DEF OnParamChange, Emplaced, coordinator, disk, machine
  <2> QED
    BY <2>1, <2>2
<1>4. CASE RunUpdate
  <2> USE <1>4 DEF RunUpdate, params, machine
  <2>1. active_slot = good
    BY DEF AgentInv, UpdateUnderWay
  <2>2. CASE OnDownloadComplete /\ pc' = "update"
    BY <2>1, <2>2 DEF OnDownloadComplete, disk
  <2>3. CASE BeginInstall /\ pc' = "update"
    BY <2>1, <2>3 DEF BeginInstall
  <2>4. CASE OnInstallComplete /\ pc' = "update"
    BY <2>1, <2>4 DEF OnInstallComplete, disk
  <2>5. CASE FetchFails /\ pc' = "report"
    BY <2>1, <2>5 DEF FetchFails, disk
  <2>6. CASE InstallFails /\ pc' = "report"
    BY <2>1, <2>6 DEF InstallFails
  <2>7. CASE SwitchBootTarget /\ pc' = "report"
    BY <2>1, <2>7 DEF SwitchBootTarget
  <2>8. CASE state = "SWITCHING" /\ UNCHANGED otavars /\ pc' = "report"
    BY <2>1, <2>8 DEF otavars, coordinator, disk
  <2> QED
    BY <2>2, <2>3, <2>4, <2>5, <2>6, <2>7, <2>8
<1>5. CASE PollReport
  <2>1. CASE ~(NewReport /\ state = "HEALTH_GATE")
    BY <1>5, <2>1 DEF PollReport, otavars, coordinator, disk
  <2>2. CASE NewReport /\ state = "HEALTH_GATE"
    <3>1. /\ OnHealthReport /\ pc' = "idle"
          /\ UNCHANGED <<target, last_target, running>>
      BY <1>5, <2>2 DEF PollReport
    <3>2. boot_target = other_slot(active_slot) \/ "marker" \in lost
      BY <2>2 DEF VersionsAgree, MarkerFollowsGate
    <3>3. pc = "report" /\ active_slot = good
      BY <1>5, <2>2 DEF PollReport
    <3> QED
      BY <3>1, <3>2, <3>3
      DEF OnHealthReport, OnHealthOk, RollBack, WriteMarker, disk
  <2> QED
    BY <2>1, <2>2
<1>6. CASE Reboot
  <2>1. CASE UNCHANGED <<coordinator, counter, params, pc, newest>>
    BY <1>6, <2>1 DEF Reboot, Booted, coordinator, params, disk
  <2>2. CASE AgentRestarts
    BY <1>6, <2>2 DEF Reboot, AgentRestarts, disk
  <2> QED
    BY <1>6, <2>1, <2>2 DEF Reboot
<1>7. CASE Crash
  BY <1>7 DEF Crash, AgentRestarts
<1>8. CASE UNCHANGED vars
  BY <1>8 DEF vars, otavars, coordinator, disk, params, machine
<1> QED
  BY <1>1, <1>2, <1>3, <1>4, <1>5, <1>6, <1>7, <1>8 DEF AgentNext

\* The three invariants together hold throughout.
LEMMA PatientAlways ==
    ASSUME Patient
    PROVE  AgentSpec => [](AgentInv /\ VersionsAgree /\ PatientInv)
<1>1. AgentInv /\ VersionsAgree /\ PatientInv /\ [AgentNext]_vars => PatientInv'
  BY PatientStep
<1> QED
  BY <1>1, AgentAlways, PatientInit, PTL DEF AgentSpec

(***************************************************************************)
(* I3 for the agent and a patient operator: a new report of failure on a   *)
(* system that was booted and never committed leaves the marker on the     *)
(* slot committed last, whichever coordinator takes the report, unless the *)
(* last write of the marker was lost.  (A real reboot takes the agent and  *)
(* its coordinator with it, and then the report is ignored.)               *)
(***************************************************************************)
THEOREM AgentFailRollsBack ==
    ASSUME Patient
    PROVE  AgentSpec => FailRollsBack
<1>1. AgentInv /\ VersionsAgree /\ PatientInv /\ [AgentNext]_vars =>
        [(NewReport /\ report = "fail" /\ last_report' = report
            /\ running # good /\ state # NoCoordinator)
               => boot_target' = good \/ "marker" \in lost']_vars
  <2> SUFFICES ASSUME PatientInv, AgentNext, NewReport, report = "fail",
                      last_report' = report, state # NoCoordinator
               PROVE  boot_target' = good \/ "marker" \in lost'
    OBVIOUS
  <2>1. last_report' # last_report
    BY DEF NewReport
  <2>2. PollReport
    BY <2>1
    DEF AgentNext, SetTarget, SetReport, Poll, RunUpdate, Reboot, Crash,
        AgentRestarts, params
  <2>3. CASE state = "HEALTH_GATE"
    <3>1. RollBack /\ active_slot = good
      BY <2>2, <2>3 DEF PollReport, OnHealthReport, PatientInv
    <3> QED
      BY <3>1 DEF RollBack, WriteMarker
  <2>4. CASE state # "HEALTH_GATE"
    BY <2>2, <2>4 DEF PollReport, PatientInv, otavars, disk
  <2> QED
    BY <2>3, <2>4
<1> QED
  BY <1>1, PatientAlways, PTL DEF AgentSpec, FailRollsBack

-----------------------------------------------------------------------------
\* The machine that is set up is one that an atomic update may start from.
LEMMA RefinesInit == AgentInit => Abstract!Init
  BY DEF AgentInit, Abstract!Init, ImageIn, Slot, NoSlot

(***************************************************************************)
(* A step that begins or ends with a lost write is one the abstract        *)
(* specification allows, provided the running system changes by a boot.    *)
(***************************************************************************)
LEMMA LossIsAllowed ==
    ASSUME AgentTypeOK, AgentTypeOK', ~(lost = {} /\ lost' = {}),
           \/ running' = NoSlot
           \/ running' = running /\ ImageIn(running)' = ImageIn(running)
           \/ /\ running' = boot_target
              /\ ImageIn(running)' = ImageIn(boot_target)
    PROVE  Abstract!Next
<1>1. /\ slots' \in [Slot -> Version \cup {Torn}] /\ good' \in Slot
      /\ boot_target' \in Slot \cup {NoSlot}
  BY Zenon DEF AgentTypeOK
<1>2. /\ slots'[good'] \in Version \cup {Torn}
      /\ ImageIn(boot_target)' \in Version \cup {Torn, NoImage}
  BY <1>1 DEF ImageIn
<1>3. ImageIn(running)' \in {ImageIn(running), ImageIn(boot_target), NoImage}
  BY DEF ImageIn
<1>4. Abstract!Lose
  BY <1>2, <1>3 DEF Abstract!Lose
<1> QED
  BY <1>4 DEF Abstract!Next

\* Every step of operator, agent and machine is a step of the atomic update.
LEMMA RefinesStep ==
    ASSUME Patient, AgentInv, VersionsAgree, PatientInv, [AgentNext]_vars
    PROVE  [Abstract!Next]_(Abstract!vars)
<1> USE DEF history
<1>t. AgentTypeOK /\ AgentTypeOK'
  <2>1. AgentInv'
    BY AgentStep
  <2> QED
    BY <2>1 DEF AgentInv
<1>0. /\ slots \in [Slot -> Version \cup {Torn}]
      /\ boot_target \in Slot \cup {NoSlot} /\ running \in Slot \cup {NoSlot}
      /\ good \in Slot /\ active_slot \in Slot
  BY Zenon DEF AgentInv, AgentTypeOK
<1>a. ASSUME UNCHANGED <<slots, boot_target, running, good, lost>>
      PROVE  UNCHANGED Abstract!vars
  BY <1>a DEF Abstract!vars, ImageIn
<1>b. ASSUME Abstract!Offer \/ Abstract!Boot \/ Abstract!Commit
             \/ Abstract!RollBack \/ Abstract!Tear, lost = {}, lost' = {}
      PROVE  Abstract!Next
  BY <1>b DEF Abstract!Next
<1>1. ASSUME NEW v \in Version, SetTarget(v)
      PROVE  UNCHANGED Abstract!vars
  BY <1>1, <1>a DEF SetTarget, otavars, disk, machine
<1>2. ASSUME NEW h \in Verdict, SetReport(h)
      PROVE  UNCHANGED Abstract!vars
  BY <1>2, <1>a DEF SetReport, otavars, disk, machine
<1>3. CASE Poll
  BY <1>3, <1>a DEF Poll, disk, machine
<1>4. CASE RunUpdate
  <2>0. /\ running' = running /\ good' = good /\ pc = "update"
    BY <1>4 DEF RunUpdate, machine
  <2>1. /\ boot_target = good /\ running = good /\ active_slot = good
        /\ candidate_version \in Version
        /\ state = "SWITCHING" =>
              \/ slots[other_slot(active_slot)] = candidate_version
              \/ other_slot(active_slot) \in lost
    BY <2>0 DEF AgentInv, UpdateUnderWay, PatientInv, Settled
  <2>2. other_slot(active_slot) \in Slot /\ other_slot(active_slot) # good
        /\ good # NoSlot
    BY <1>0, <2>1 DEF other_slot, Slot, NoSlot
  <2>3. CASE OnDownloadComplete \/ OnInstallComplete \/ FetchFails
             \/ UNCHANGED otavars
    BY <2>0, <2>3, <1>a
    DEF OnDownloadComplete, OnInstallComplete, FetchFails, otavars, disk
  <2>4. CASE BeginInstall \/ InstallFails
    <3>1. slots'[good] = slots[good] /\ boot_target' = boot_target
      <4>1. CASE BeginInstall
        <5>1. lost \in SUBSET File
          BY <1>t, Zenon DEF AgentTypeOK
        <5> QED
          BY <1>0, <2>1, <2>2, <4>1, <5>1, VersionWritten DEF BeginInstall
      <4>2. CASE InstallFails
        BY <1>0, <2>2, <4>2 DEF InstallFails
      <4> QED
        BY <2>4, <4>1, <4>2
    <3>2. ImageIn(running)' = ImageIn(running)
          /\ ImageIn(boot_target)' = ImageIn(boot_target)
      BY <2>0, <2>1, <2>2, <3>1 DEF ImageIn
    <3>3. CASE lost = {} /\ lost' = {}
      BY <2>0, <3>1, <3>2, <3>3 DEF Abstract!vars
    <3>4. CASE ~(lost = {} /\ lost' = {})
      BY <1>t, <2>0, <3>2, <3>4, LossIsAllowed
    <3> QED
      BY <3>3, <3>4
  <2>5. CASE SwitchBootTarget
    <3>1. /\ WriteMarker(other_slot(active_slot)) /\ slots' = slots
          /\ state = "SWITCHING"
      BY <2>5 DEF SwitchBootTarget
    <3>2. CASE lost = {} /\ lost' = {}
      <4>1. /\ boot_target' = other_slot(active_slot) /\ slots' = slots
            /\ slots[boot_target'] \in Version /\ boot_target' # NoSlot
        BY <2>1, <2>2, <3>1, <3>2 DEF WriteMarker, Slot, NoSlot
      <4>2. Abstract!Offer
        BY <2>0, <2>1, <2>2, <4>1 DEF Abstract!Offer, ImageIn
      <4> QED
        BY <1>b, <3>2, <4>2
    <3>3. CASE ~(lost = {} /\ lost' = {})
      <4>1. ImageIn(running)' = ImageIn(running)
        BY <2>0, <3>1 DEF ImageIn
      <4> QED
        BY <1>t, <2>0, <3>3, <4>1, LossIsAllowed
    <3> QED
      BY <3>2, <3>3
  <2> QED
    BY <1>4, <2>3, <2>4, <2>5 DEF RunUpdate
<1>5. CASE PollReport
  <2>1. CASE ~(NewReport /\ state = "HEALTH_GATE")
    BY <1>5, <2>1, <1>a DEF PollReport, otavars, disk
  <2>2. CASE NewReport /\ state = "HEALTH_GATE"
    <3>1. OnHealthReport /\ running' = running
      BY <1>5, <2>2 DEF PollReport
    <3>2. slots' = slots
      BY <3>1 DEF OnHealthReport, OnHealthOk, RollBack, disk
    <3>3. CASE ~(lost = {} /\ lost' = {})
      <4>1. ImageIn(running)' = ImageIn(running)
        BY <3>1, <3>2 DEF ImageIn
      <4> QED
        BY <1>t, <3>1, <3>3, <4>1, LossIsAllowed
    <3>4. CASE lost = {} /\ lost' = {}
      <4>1. /\ boot_target = other_slot(active_slot) /\ boot_target # NoSlot
            /\ slots[boot_target] \in Version
            /\ active_slot = good /\ good # NoSlot
        BY <1>0, <2>2, <3>4
        DEF VersionsAgree, MarkerFollowsGate, AgentInv, GateIsSafe,
            PatientInv, other_slot, Slot, NoSlot
      <4>2. CASE OnHealthOk /\ good' = active_slot'
        <5>1. Abstract!Commit
          BY <3>1, <3>2, <4>1, <4>2 DEF Abstract!Commit, OnHealthOk, disk, ImageIn
        <5> QED
          BY <1>b, <3>4, <5>1
      <4>3. CASE RollBack /\ good' = good
        <5>1. boot_target' = good
          BY <3>4, <4>1, <4>3 DEF RollBack, WriteMarker
        <5>2. Abstract!RollBack
          BY <3>1, <3>2, <4>1, <4>3, <5>1 DEF Abstract!RollBack, ImageIn
        <5> QED
          BY <1>b, <3>4, <5>2
      <4> QED
        BY <3>1, <4>2, <4>3 DEF OnHealthReport
    <3> QED
      BY <3>3, <3>4
  <2> QED
    BY <2>1, <2>2
<1>c. ASSUME running' = Booted, UNCHANGED <<disk, good>>
      PROVE  [Abstract!Next]_(Abstract!vars)
  <2>1. slots' = slots /\ boot_target' = boot_target /\ lost' = lost
    BY <1>c DEF disk
  <2>2. CASE lost = {}
    <3>1. running' = boot_target
      BY <1>c, <2>2 DEF Booted, AgentInv, BootsCompleteImage, NoSlot
    <3>2. Abstract!Boot
      BY <1>c, <2>1, <3>1 DEF Abstract!Boot, ImageIn
    <3> QED
      BY <1>b, <2>1, <2>2, <3>2
  <2>3. CASE lost # {}
    <3>1. running' \in {NoSlot, boot_target}
      BY <1>c DEF Booted
    <3>2. running' = boot_target => ImageIn(running)' = ImageIn(boot_target)
      BY <2>1 DEF ImageIn
    <3> QED
      BY <1>t, <2>1, <2>3, <3>1, <3>2, LossIsAllowed
  <2> QED
    BY <2>2, <2>3
<1>6. CASE Reboot
  BY <1>6, <1>c DEF Reboot
<1>7. CASE Crash
  <2>1. running' \in {running, Booted'} /\ good' = good /\ Interrupted
    BY <1>7 DEF Crash
  <2>2. CASE UNCHANGED disk
    <3>1. Booted' = Booted
      BY <2>2 DEF Booted, disk
    <3>2. CASE running' = running
      BY <1>a, <2>1, <2>2, <3>2 DEF disk
    <3>3. CASE running' = Booted'
      BY <1>c, <2>1, <2>2, <3>1, <3>3
    <3> QED
      BY <2>1, <3>2, <3>3
  <2>3. CASE /\ pc = "update"
             /\ slots' = [slots EXCEPT ![other_slot(active_slot)] = Torn]
             /\ UNCHANGED <<boot_target, lost>>
    <3>1. /\ boot_target = good /\ running = good /\ active_slot = good
          /\ good # NoSlot
      BY <1>0, <2>3 DEF AgentInv, UpdateUnderWay, PatientInv, Settled, Slot, NoSlot
    <3>2. slots'[good] = slots[good]
      BY <1>0, <2>3, <3>1 DEF other_slot, Slot
    <3>3. Booted' \in {boot_target, NoSlot}
      BY <2>3 DEF Booted
    <3>4. ImageIn(boot_target)' = ImageIn(boot_target)
      BY <2>3, <3>1, <3>2 DEF ImageIn
    <3>5. CASE lost # {}
      BY <1>t, <2>1, <2>3, <3>1, <3>3, <3>4, <3>5, LossIsAllowed DEF ImageIn
    <3>6. CASE lost = {}
      <4>1. slots[boot_target] # Torn
        BY <3>1, <3>6 DEF AgentInv, BootsCompleteImage
      <4>2. Booted' = boot_target
        BY <2>3, <3>1, <3>2, <4>1 DEF Booted
      <4>3. running' = running
        BY <2>1, <3>1, <4>2
      <4> QED
        BY <2>1, <2>3, <3>1, <3>2, <3>4, <4>3 DEF Abstract!vars, ImageIn
    <3> QED
      BY <3>5, <3>6
  <2>4. CASE MarkerTears /\ boot_target' = NoSlot /\ UNCHANGED <<slots, lost>>
    <3>1. running' \in {running, NoSlot} /\ ImageIn(boot_target)' = NoImage
      BY <2>1, <2>4 DEF Booted, ImageIn
    <3>2. running' = running => ImageIn(running)' = ImageIn(running)
      BY <2>4 DEF ImageIn
    <3>3. CASE lost = {}
      <4>1. Abstract!Tear
        BY <2>1, <2>4, <3>1, <3>2 DEF Abstract!Tear, ImageIn
      <4> QED
        BY <1>b, <2>4, <3>3, <4>1
    <3>4. CASE lost # {}
      BY <1>t, <3>1, <3>2, <3>4, LossIsAllowed
    <3> QED
      BY <3>3, <3>4
  <2> QED
    BY <2>1, <2>2, <2>3, <2>4 DEF Interrupted
<1>8. CASE UNCHANGED vars
  BY <1>8, <1>a DEF vars, otavars, disk, machine
<1> QED
  BY <1>1, <1>2, <1>3, <1>4, <1>5, <1>6, <1>7, <1>8 DEF AgentNext

(***************************************************************************)
(* The whole update implements AtomicUpdate: with a patient operator, for  *)
(* every set of versions, whether or not a reboot ends the agent, crashes  *)
(* may tear the marker and writes may be lost.  Flashing, failing, polling *)
(* and restarting are invisible to the boot loader; the switch, the boot,  *)
(* the commit, the rollback and the torn marker are the abstract steps, as *)
(* long as no write is lost; with one lost, the running slot is still not  *)
(* written.                                                                *)
(***************************************************************************)
THEOREM AgentUpdatesAtomically ==
    ASSUME Patient
    PROVE  AgentSpec => UpdatesAtomically
<1>1. AgentInv /\ VersionsAgree /\ PatientInv /\ [AgentNext]_vars
        => [Abstract!Next]_(Abstract!vars)
  BY RefinesStep
<1> QED
  BY <1>1, RefinesInit, PatientAlways, PTL
  DEF AgentSpec, UpdatesAtomically, Abstract!Spec
=============================================================================
