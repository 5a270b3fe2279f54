# Specifications of the AMR middleware

TLA+ models of `ros2_robot_middleware`, the TLC runs that check them on small
instances, and TLAPS proofs of the properties that matter most. Every
definition is translated from the code; `PROJECT.json` says from which lines.

## The system

A ROS 2 (C++) framework for an autonomous mobile robot: pure decision kernels
in `include/.../domain`, nodes that wire them to ROS in `src/infrastructure`.

| component | state | operations | interacts with | what makes it correct |
|---|---|---|---|---|
| process supervisor (`supervisor_policy.hpp`, `supervisor_node.cpp`) | per child: phase, restarts, backoff step, phase start, resume time, pid, completed | 250 ms tick (reap, confirm, stable, retry, timeout, bring-up), health callback, lifecycle callbacks | spawns and kills processes; health feed calls it back | nothing runs over a dead dependency; no process lost or left behind; the budget is exact; crashes are recovered from |
| health feed (`health_feed.hpp`) | last view per node, last verdict per child | one `/health/report` | health monitor -> supervisor | a healthy report confirms, an unhealthy one restarts |
| health monitor (`health_monitor_node.cpp`, `domain/monitoring`) | heartbeat ages, attempts, the restart in progress | 1 Hz check, heartbeats, probe answers, transition responses, `/health/check` | change_state services of the watched nodes | one restart at a time, bounded, ended, effective; no node given up untried |
| node classes (`*_node.cpp`, `amr_node.hpp`) | timers, publishers, sensors, subscriptions | lifecycle callbacks | restarted by the health monitor | what a timer uses exists as long as the timer does |
| OTA coordinator and agent (`domain/ota`, `ota_agent_node.cpp`) | coordinator state; two slots, boot marker on disk; parameters last seen | 1 Hz poll of two parameters, download, install, switch, commit, roll back | operator, boot loader, power | I1 active slot never written, I2 refusals harmless, I3 failed health rolls back; an update is atomic |
| goal dispatch (`decision_node.cpp`, `goal_dispatch_gate.hpp`, `motor_ctrl_node.cpp`) | goal parameters, gate, active goal, latest path, pose | perception frame, goal pose, fusion heartbeat, goal response, result, path | action and topic between two nodes of one process, several threads | a goal asked for is reached, once, and success means being there |
| grid and planner (`grid_updater.hpp`, `scan_to_grid.hpp`, `astar_planner.hpp`) | one cost grid shared by threads; queue and closed list of a search | inject, raytrace, inflate, copy, snap, search | called by `on_perception()` | a path is drivable, avoids what was seen and is the cheapest |
| control loop, guard and base (`collision_guard.hpp`, `cmd_vel_guard_node.cpp`, `velocity_smoother.hpp`, `track_error_monitor.hpp`, `simulated_scene.hpp`) | last scan, hold timer, last command | scan, control step, NAV2 command, period | scanner thread, action server, base | no advance on a missing or blocked scan; no goal held for ever; rest between goals |
| tracker and avoidance (`pure_pursuit.hpp`, `vfh_avoidance.hpp`) | progress on the path; remembered gap | `track()`, `steer()` | control loop | the end of the path is reached; only free sectors are steered into |
| fusion and perception (`fusion_node.cpp`, `perception_service.hpp`, `degradation_policy.hpp`, `stamp_gate.hpp`, `tracker.hpp`, `sick_tim781_adapter.hpp`) | sensor ages, level, tracks, last scan of the adapter | lifecycle callbacks, timer, heartbeat, scan | sensors; its heartbeat opens the dispatch gate | a lost sensor is told in time; tracks follow objects, identities last |
| detectors (`cluster_detector.hpp`, `depth_obstacle_detector.hpp`) | none | cluster points, cut a scanline, merge | perception service | separate objects stay separate, dense ones are found |
| Kalman filter, path smoother, simulated sensors, signer, metrics, RPC, log pipeline, task scheduler, registries | | | | not modelled, see below |

Hard behaviours: processes dying between two steps of a callback, callbacks
of one reentrant group overlapping, power failing between two writes, answers
that never come, topic and service messages overtaking each other, sensors
that fall silent while their last data stay, values cached across the life of
what they describe. `PROJECT.json` lists them as hazards, at their lines, with
the properties that catch them.

## Modules

| module | models |
|---|---|
| `SupervisorPolicy` | `transition()` and `backoff_ns()` as operators on a child's state. The absolute times of the code become `age` (time in phase) and `wait` (time to resume), the two differences it compares |
| `HealthFeed` | `dispatch()` and `evaluate()` as operators |
| `Supervisor` | the node. A callback is a sequence of steps, one per child, so that processes may exit between them; one `feed()` with its cascade, kills and spawn is one step, as nothing else can run inside it. `proc` is what `waitpid` would say, `leaked` records overwritten pids |
| `TopoOrder` | the child list and `topo_order()`, with the definition of an order to compare it with |
| `MCSupervisor` | a simulator, a health-gated stack on it, a oneshot on that, as in `launch/`; an assumption checks that `Topo` is what `topo_order()` makes of them |
| `SupervisorProofs` | theorems about `Supervisor` and `TopoOrder` |
| `OtaCoordinator` | the coordinator with the slots and the marker its callbacks work on. A write that `write_file()` reports as done may have come to nothing (`WritesLost`); `lost` remembers the files whose last write did |
| `OtaAgent` | the agent around it: operator, poll, crash, and a reboot that ends the agent or, as in the tests and `ota_sim.sh`, does not. `running` (slot booted from), `good` (slot committed last) and `newest` (newest version this run of the agent committed) are what I1, I3 and the downgrade rule are about; the code does not keep them |
| `AtomicUpdate` | the abstract specification of an update: a committed, a next and a booted system. `OtaAgent` implements it under the mapping committed <- the image in the slot committed last, next <- the image the marker names, booted <- the image in the slot booted from, kept <- no file is lost |
| `OtaProofs` | theorems about coordinator and agent |
| `HealthMonitor`, `MCHealthMonitor`, `HealthMonitorProofs` | the monitor with the nodes it watches (well, sick, hung, gone), their lifecycle states and what they hold; theorems |
| `NodeClasses` | per node class, what each lifecycle callback makes and drops, and whether configuring it twice throws; `HealthMonitor` runs these callbacks when it restarts a node |
| `GoalDispatch`, `GoalDispatchProofs` | decision, gate and motor control. A perception frame is five steps (read x, read y, gate, plan, send) per thread. `overlaps` counts the frames that pass the gate while it does not know of another's goal (`Blind`), `overtaken` notes that a goal was executed with a path still on its way; theorems |
| `CostGrid`, `Planning`, `MCPlanning`, `PlanningProofs`, `PlanningBestProofs` | the grid with inflation and raytracing; `on_perception()` as its writers; the A* search and `reconstruct()`, one step per turn of their loops, on the copy. Any of several cheapest queue entries may be on top. Inflation only raises costs, to the maximum over all obstacles, so it is one operator on their set; theorems |
| `CollisionGuard`, `Motion`, `MCMotion`, `MotionProofs` | the guard as operators on its record; the control loop of `motor_ctrl` or `cmd_vel_guard_node` around it, the smoother, the error monitor and the base with its command timeout; the process may end in the middle of a goal (`Ends`), without a stop, and come back. Time is in control periods; theorems |
| `PurePursuit`, `VfhAvoidance` | tracker and avoidance as operators on whole numbers; theorems in `MotionProofs`. `Turned` is a turn of `execute()` along a path: track, move, and put the robot's place at the head of the path (`path[0] = current`); with odometry that is the place read at the head of the turn, without it the one just computed |
| `Tracker`, `Perception`, `MCPerception`, `PerceptionProofs` | tracks as a set with identities and misses, in the order of their identities, and the greedy association of `update()` by distances in grades up to the radius; fusion's lifecycle, ages, level, gate and heartbeat, the adapter of the external scan, and the decision node's view of it (`ready`); theorems |
| `Detectors` | DBSCAN, depth runs and merging as operators on whole numbers; theorems in `PerceptionProofs` |

`Motion`, `Planning` and `GoalDispatch` cut one story at the messages between
its parts: `GoalDispatch` has the order of goals, paths and results and takes
a plan and a drive as outcomes; `Planning` has what is inside `Plan`, `Motion`
what is inside a drive. `Perception` has what sends the heartbeat that
`OnFusionHeartbeat` of `GoalDispatch` receives.

Each mutant in these modules is a plausible slip in the code, used to see
that a property notices it; none is part of a specification.

What the models leave out of the code they cover, and why it is sound:

- `kill_child()` always reaps; its 200 ms give-up branch and the `ECHILD`
  branch of `tick()` (nothing else waits for the children) are not taken.
- The first `on_configure()` of the supervisor is its `Init`; a second one, after
  `on_cleanup()`, throws on the second `declare_parameter` (`Configure`).
- A node that a report omits counts like one that is STALE. A health node
  belongs to one child, as `node_to_child_` keeps only the last.
- In the monitor, ages stop one past the timeout, and a restart's clock one
  past its deadline: no comparison tells more apart. The branch that sets
  FATAL by hand (lines 226-230) cannot be reached, because `escalate()` has
  already done so. The monitor's own lifecycle is not restarted by anyone.
- `execute()` never sees a cancel request: the action server's callback group
  is occupied by it, and nothing calls `cancel_active_goal()`. A rejection
  needs a non-finite goal, which `on_goal_pose()` does not let through.
- Path ends and goals coincide in `GoalDispatch`: endpoint snapping (which is
  in `Planning`) and the map-to-odom transform move points, not control.
- `SendGoal` sends and notes in one step. Only an abort could come between,
  and that takes more than 3 s.
- A search sees nothing but its copy, so one search at a time stands for all;
  the grid's lock makes each of inject, raytrace, inflate and copy one step.
- Where the Kalman filter has a track is known by its distances from the
  detections alone, any that keep it within the radius of its own object when
  that is detected (`OnItsObject`). Two objects may both be within the radius
  of a track; unless `Crowded`, its own is then detected and nearer
  (`ToldApart`). Identities begin anew with every `on_configure()`, which makes
  a new tracker; `IdsPersist` speaks of the time between.
- Rotation is a Boolean, speeds are whole millimetres per second, and the scale
  of a track error warning is a half.

## Runs

Every passing run finishes within three minutes. Deadlock is checked in them,
except in `ota` (a machine whose marker or image was lost does not come up
again).

| run | shows |
|---|---|
| `supervisor_safety` | dependency order, no process outside STARTING and RUNNING, exact budget, oneshots, an empty machine once the ticks have ended; against children that exit at any step, failing spawns, arbitrary reports, activate, deactivate, cleanup and shutdown at will. Its assumption checks `topo_order()` on every list of up to three children |
| `supervisor_liveness` | `Recovers` under fairness; no lost process and no child reported up without one, for a node that is activated once |
| `ota` | I1-I3 and the version rule for the agent, what the marker may name, and `UpdatesAtomically` for a patient operator (one update is settled before the next); with crashes between any two steps and in a write, reboots that end the agent and reboots that spare it, and writes that come to nothing |
| `health_monitor_safety` | restart chain, budget and timers against nodes that hang, die, throw, refuse and return; a lidar and a motor controller that may be driving |
| `health_monitor_revives` | cure of a node when nodes answer in time; two restartable nodes compete for the one restart, one of them of any class |
| `goal_dispatch` | truthful success and arrival; with torn goals, paths and goals that overtake each other, late responses, aborts, degraded fusion, failing plans and a server that is away |
| `goal_dispatch_threads` | two threads: no second goal under way but by an overlap at the gate |
| `motion` | both stacks: standing still without scans, no advance against or without one, bounded hold, a window of its own for every goal, rest between goals and after the end of the process. Its assumptions check `VfhAvoidance` (every histogram of eight sectors, goal and memory), the points `PurePursuit` chases on every path of four cells, and that with odometry the end of every path of five cells is reached from everywhere (`FollowsToEnd`) |
| `perception` | losses told, tracks and identities, through reconfiguration, sensors that come and go and scans that lag. Its assumptions check `Detectors` and that the association is determined |
| `planning` | drivable, safe and cheapest paths, and none missed by a search that the iteration limit does not cut short (`CutShort`), with two threads writing the grid |

### Departures

These runs end in a violation: the code departs there from what the repository
says of it, and the findings in `PROJECT.json` quote the line.

| run | violated | because |
|---|---|---|
| `health_monitor_deadline` | `RestartEnds` | the deadline is looked at only when a response comes; a node that hangs in a transition never answers, and the restart stays in progress for ever |
| `planning_barrier` | `BarrierStands` | a scan that looks past a static obstacle removes its safety distance before the copy is searched |

More are one constant, or one exception of a property, away from a passing run:

| change | then fails | because |
|---|---|---|
| `Supervisor_liveness`: `Reactivates = TRUE` | `NoGhostChild` | `teardown_children()` leaves phases as they are and only STOPPED children are brought up, so a killed child stays RUNNING |
| `Supervisor_liveness`: `BackoffBase`, `BackoffMax <- AllZero` | `NoProcessLost` | the retry is spawned inside the crash event, in phase BACKOFF, and again at the next tick, which overwrites the pid |
| `Ota`: `Patient = FALSE` | `UpdatesAtomically` | a second target before the reboot takes the marked slot for the active one and writes the slot the machine runs from, against I1 (`ota_coordinator.hpp:11`) |
| `FailRollsBack` without `state # NoCoordinator` | `FailRollsBack` | coordinator and gate are held in memory: after a reboot that ends the agent the report is ignored and the marker stays on the failed system, against I3 (`ota_coordinator.hpp:145`) |
| `AgentRestarts` without the reset of `newest` | `NeverOlderThanCommitted` | the file with the security counter is written at a commit and read nowhere, so that a restarted agent accepts an older update |
| `MarkerFollowsGate` without `"marker" \in lost` | `MarkerFollowsGate` | the rollback drops the result of the marker's write and announces ROLLED_BACK with the marker on the candidate |
| `OneOutstanding` without `overlaps = 0` | `OneOutstanding` | two frames pass the gate before either notes its goal, and the same goal is sent twice, against `goal_dispatch_gate.hpp:40` |
| `SuccessMeansThere` without `~overtaken` | `SuccessMeansThere` | a goal that overtakes its path is driven along the previous one and reported as reached |
| `Perception`: `Crowded = TRUE` | `IdsPersist` | the track of an object that is not detected is taken over by another within the radius |
| `FollowsToEnd` without odometry | `FollowsToEnd` | the head of the path is the nearest point in every turn, the progress stays 0 and points behind are chased; `MCMotion` has this as an example |

More are visible in the models without a property that names them:

- A health verdict announced while a child is down has no effect, is tied to no
  process and is not announced again after the restart (`health_feed.hpp:107`):
  a healthy child may stay STARTING until its startup timeout.
- A node in ERROR uses up its attempts while the restart of another is in
  progress, and may be FATAL without one restart.
- `on_shutdown()` of an active supervisor leaves its tick running: children that
  were in BACKOFF or STOPPED are started again after the teardown, until
  `main()` tears down once more.
- A crash in the write of `boot_target` leaves no marker, because
  `write_file()` truncates first (`MarkerTears`; `BootsCompleteImage` excepts
  that state). A second update whose report equals the first one's is never
  settled; a report set before an update is asked for commits it unbooted.
- The watchdog's restart finalizes decision,
  motor control, temperature and ultrasonic nodes, whose `on_configure()`
  declares parameters; it may hit a motor controller only because its
  heartbeat waits for `execute()`. Subscriptions of fusion, decision and motor
  control outlive `on_cleanup()`; fusion's goes on using the freed lidar.
- A frame between the writes of `goal_x` and `goal_y` dispatches a place
  nobody asked for. A goal that `send_goal()` drops is noted as dispatched.
- A motor controller whose process ends in the middle of a goal publishes no
  stop; the base's own timeout ends the motion.
- The guard lets everything pass before its first scan, and after a respawn of
  `cmd_vel_guard_node` again. VFH's memory is never reset between goals
  (`vfh_avoidance.hpp:55` asks for it), and its gap centre is off by half a
  sector, which makes the memory void for gaps of exactly three sectors.
- DBSCAN starts a cluster at a point with `min_pts` points around it, itself
  included, and expands from one only without itself, so that a thin object
  may be cut in two (an example is in `MCPerception`).
- A sensor that was never read is noticed later than one that was lost.
- The search gives up after 200000 turns (`decision_node.cpp:23`), the stale
  queue entries among them, on a grid of 400 x 400 cells. An existing path may
  therefore be reported as none; `FindsBest` excepts exactly these searches
  (`CutShort`). Eight turns per cell would always suffice.

**Bounds.** Supervisor: three children, a chain with a gated and a oneshot
member, so that cascades have a middle; one restart in the budget, so that
backoff, forgiveness and FATAL occur; windows and timeouts of one step, so
that each can be missed or met. OTA: three versions, so that older, equal and
newer exist. Health monitor: two restartable nodes and, in `revives`, one that is
only probed; timeouts of one or two checks. Goal dispatch: a 2 x 2 grid, so that a torn
goal is a third place; a first goal and `MaxTasks` = 1 more, `MaxFaults` = 2
faults (a goal may be aborted and its next plan fail), `MaxOverlaps` = 1 frame
past a blind gate, which suffices for two goals. Two threads are a run of their
own without faults, since both at once are out of reach of a liveness check;
with one thread a frame is still past a blind gate before the response to a
goal. Motion: the distances and the speed of
the code, with one scan on each side of every threshold; timeouts of two and
three periods, and braking that takes two; histories stop at `HistoryCap`,
beyond every bound they are compared with. Perception: two objects, a track
limit they just reach, timeouts of zero or one period that keep the code's
order, three identities, distances of two grades within the radius and one
outside. Path tracking: 4 x 3 cells, paths that visit none twice, a lookahead
of one and a half cells; eight turns are enough. Planning: five by four cells, an obstacle with a way
around it, scans that look past it or close the way. The code's limit is 5/4
of a turn per cell; `MaxIterations` = 10 for 20 cells is smaller, so that in so
small a grid some searches are cut short while others find a path or run dry.

**Fairness.** Supervisor: the timer is served (strongly: an executor takes
ready timers before subscriptions), callbacks end, time goes on; nothing is
assumed of children. Health monitor: timer and responses are served, a node
that can answer or beat does, and a drive ends; requests are served strongly,
since one that waits for a drive finds the executor between two drives, where
services are looked at before the action server. Goal dispatch: callbacks are
served, fusion becomes nominal again, a robot that is not held up arrives.
Faults are finite there by `MaxFaults`. `Motion`, `Perception` and `Planning`
state bounds in their own time instead of fairness.

**Assumptions as constants.** What the code relies on and does not enforce is
a constant, so that a run can drop it: `Patient`, `MarkerTears` and
`WritesLost` for OTA, `Faulty` for the monitor, `Reactivates` and the backoff
values for the supervisor, `Crashes` for the guard node and motor control,
`Jitter` and `MaxLag` for fusion's timer and its scans, `Crowded` for its
objects. The dispatch model has none: frames overlap and goals overtake paths
as they may, and history variables say in which behaviours they have. The
assumptions on other constants say what the code's values are: scans are
lists of ranges, there is a top speed, the safe distance is below what an open
field reads, the dt beyond which a tick is skipped (`TickLimit`) is longer than
the timer's jitter, and there are finitely many objects.

What the liveness properties do not say: a goal that `send_goal()` dropped
while the server was away, or whose drive took another goal's path, is excepted
(`lost`) and stays undriven; a node that loses the race for the one restart may
be given up; a
dependency that flaps may keep a child from ever being confirmed; a dependent
of a finished oneshot never starts, as its dependency is not RUNNING; a node
that never beat stays STALE and is left alone; a restart that is refused or
late halfway strands its node, since the next sequence begins with a
transition it cannot take.

## Proofs

For every value of the constants that satisfies the named assumptions. Each
module has one inductive invariant (or a chain of them), which TLC checked on
the run's instance before it was proved; a lemma per operator and a step per
action; and the theorems that follow from it. A hypothesis of a theorem is one
the code relies on, and the departures above show what fails without it. The
last rows are about algorithms and hold for every input of the stated type.

| theorem | property | hypothesis |
|---|---|---|
| `TypeCorrect` | `Supervisor!TypeOK` | |
| `DownstreamTheorem` | `DownstreamOverLiveDeps` | `PositiveBackoff` |
| `NoProcessLostTheorem`, `ProcessOnlyWhileUpTheorem` | `NoProcessLost`, `ProcessOnlyWhileUp` | `PositiveBackoff` |
| `BudgetTheorem`, `OneshotTheorem` | `BudgetExact`, `OneshotRerunOnlyAfterDeath` | `PositiveBackoff` |
| `NoChildWithoutSupervisorTheorem` | `NoChildWithoutSupervisor` | |
| `NoGhostChildTheorem` | `NoGhostChild` | `~Reactivates` |
| `CoordinatorType`, `CoordinatorSafe`, `CoordinatorNoDowngrade` | I1-I3 for the coordinator alone | |
| `AgentType`, `BootsCompleteImageTheorem` | `BootsCompleteImage` | |
| `AgentSlotsSafe` | `ActiveSlotIntact`, `NoDowngrade` | |
| `AgentMarkerSafe`, `AgentNeverOlder` | `MarkerFollowsGate`, `NeverOlderThanCommitted` (action property) | |
| `AgentFailRollsBack` | `FailRollsBack` (action property) | `Patient` |
| `AgentUpdatesAtomically` | `UpdatesAtomically` (refinement of `AtomicUpdate`) | `Patient` |
| `MonitorType`, `MonitorOneTransition`, `MonitorTimers`, `MonitorBudget`, `MonitorServiceAgrees` | the invariants of `HealthMonitor` | |
| `MotionStill`, `MotionHoldBounded`, `MotionStandsStill` | `IdleMeansStill`, `HoldBounded`, `StandsStill` | |
| `MotionNoAdvanceBlind`, `MotionOwnWindow` | `NoAdvanceBlind`, `OwnWindow` (action properties) | |
| `DispatchType`, `DispatchOneOutstanding`, `DispatchSuccess` | `GoalDispatch!TypeOK`, `OneOutstanding`, `SuccessMeansThere` | |
| `PlannedPathSound`, `PlannedPathAvoids` | `PathSound`, `AvoidsObstacles` | |
| `PerceptionLossIsTold` | `LossIsTold` | |
| `PerceptionTracksFollow`, `PerceptionIdsPersist` | `TracksFollowDetections`, `IdsPersist` (action property) | `~Crowded` |
| `PlannedPathBest` | `FindsBest` | |
| `TopoOrderCorrect` | `OrdersOrRefuses` | `specs` is a sequence of child records |
| `TopoOrderServes` | what `DepsAssumption` asks of `Topo` | the list is accepted |
| `AvoidanceSteersFree`, `AvoidanceKeepsItsGap` | `SteersFree`, `KeepsItsGap` | gaps of at least two, or three, sectors (the code's `min_gap_bins` is 3) |
| `PursuitChasesAhead` | `ChasesAhead` | distances and lookahead are naturals, the progress lies on the path |
| `DepthRunsMaximal` | `RunsAreMaximal` | depths and limits are naturals, `MinRun` is not 0 |
| `ClusteringSound`, `ClusteringStandard` | `ClustersSound`, `ClustersStandard` | coordinates are integers |

`SupervisorProofs`. The invariant is `IInv == TypeOK /\ Sound /\ Tracked` over
the value `feed()` works on: `Sound` joins the budget with the dependency order
for all children at once, `Tracked` says that a process belongs to a child that
is up and that nothing is leaked. The order alone is not inductive: a process
in BACKOFF could exit 0 late and be taken for a finished job, which `Tracked`
excludes. The lemmas follow the calls: transition, cascade, feed, spawn; then
one step per action. `NoGhostChild` needs another invariant, as it must hold
with a zero backoff too (`Backed`): an exit or a timeout takes its child down,
a cascade takes the dependents down, and only a spawn brings one up.

`OtaProofs`. For the coordinator the three invariants need one more fact, that
an image being installed is the candidate's. For the agent that is too strong
(a new coordinator may take an uncommitted slot for the active one); what is
inductive in every setting (`AgentInv`) is that an update under way writes the
slot the marker does not name, and that both ways out of the health gate lead
to a whole image. Each of these excepts the one file it is about when that
file's last write was lost. `VersionsAgree` adds that slot, version, counter
and marker of whatever coordinator there is go together, and that the agent's
own counter covers all that this run of it has committed. `PatientInv` ties them to the slots the code does not keep: a
request not yet polled was made of a settled machine, so an update is under way
only on the good system, and the gate is measured against it. With these every
step of the agent is one of `AtomicUpdate` or leaves its systems alone; a step
that begins or ends with a lost file is the abstract `Lose`, in which the
running system still changes by a boot alone. A gate that a restart forgets
only leaves the abstract update uncommitted.

`HealthMonitorProofs`. The heart of `MonitorInv` is `OneTransitionUnderWay`
itself: a restart in progress has one request of its own under way. It is the
only reason why `restart_`, as the response handler finds it, is the restart
the response belongs to. `HoldsByState` says for each node class what a node
holds in each lifecycle state, also when a callback throws halfway, from a
lemma on the tables of `NodeClasses`. No fault is excluded: nodes may hang,
die, refuse and come back.

`MotionProofs`. `Sight` ties what could be seen to the guard's own clock,
`Window` a goal's histories to the guard's hold timer, which every goal starts
anew. `Braking` bounds the speed of a base that sees nothing by the turns the
loop has had to brake (the bound in `StandsStill` is exact in it), `NavBraking`
does the same for the Nav2 stack by the age of the last command. `Deserting`
compares the time since the process ended with the age of the base's command.

`GoalDispatchProofs`. `DispatchInv` holds as long as no frame has passed a
blind gate (`overlaps = 0`): then one frame at most is past the gate and knows
every goal answered, and the newest path, delivered or not, is that of the goal
about to be sent or executed. As long as no goal has overtaken a path either,
the goal executed is on its own track (`DriveInv`). The invariant is the
implication from the history variables, so the theorems need no hypothesis.

`PlanningProofs`. The expanded nodes form a tree of moves with the start as
its root (`Tree`), queue entries are one move from it (`Queued`), and what
`reconstruct()` has read off it so far is a drivable path that joins the node
to come (`Joins`). Cells reported as obstacles are lethal in grid and copy
(`Marked`), as inflation never lowers a cost and raytracing spares them.

`PlanningBestProofs`. The reference is relaxation (`Costs`), as many rounds as
there are cells. The heuristic never drops by more than a move costs
(`Consistent`), so the queue never falls below what was expanded; and every
neighbour of an expanded node is itself expanded for the price of that move or
waits in the queue for it. This is `Guided`, which each kind of turn keeps. By
induction over the rounds, a cell that could be part of a way cheaper than the
one found has been expanded at its reference cost (`NoneCheaper`); by induction
over the order of expansion no node is cheaper than the reference
(`NoneDearer`); and with an empty queue every cell the reference reaches is
expanded (`NoneMissed`). `SearchInv` adds a count: a turn or a queue entry is
owed to an expansion, each of which pushes eight at most (`FewPushed`), so that
a search can be cut short only by a limit below eight turns per cell.

`PerceptionProofs`. The tracker first. Where tracks can tell objects apart the
greedy association pairs each with its own object (`AssociatesRight`, by
induction over the order of the tracks), so that `Update` is what it would be if
detections carried their object's name (`Ideal`). That update keeps one track per object and
one object per identity (`Sound`), because new identities are counted from
`next_id` in the order of the unmatched detections; and the misses of a track
are the frames its object was unseen (`Follows`); every identity ever given is
below `next_id` (`Known`), so that none comes back. That no object goes without
a track while the limit admits all of them is a count of tracks by objects.
Then the node: `Ticking` says that the timer's ticks leave no gap from its
first call on, from which age, level and what the heartbeat told follow the
silence of a sensor in this order, each with its own slack; their sum is the
bound of `LossIsTold`.

Induction. The library's induction theorems take an operator as parameter,
which the installed provers cannot instantiate. The modules use one for sets
instead: a set of naturals that has 0 and is closed under the successor has
them all (`Induct`, from the least number of its complement, `LeastNat`). A
function defined by recursion is a CHOOSE in TLA+, so a first induction shows
that such a function exists and a second what it computes.

- `SupervisorProofs`: a pass of `topo_order()` appends only children whose
  dependencies are in the order, and if a pass appends none the children left
  over wait for each other, which is the set `WellFormed` excludes. So as many
  passes as there are children are enough.
- `MotionProofs`: the centre of a gap lies on a sector of it or between two,
  with free ones around; and free sectors side by side are part of a gap, found
  by extending them both ways as far as they go. For the tracker, the nearest
  point exists and the way walked to each point is a number.
- `PerceptionProofs`: after each ray the clusters are the surfaces that have
  ended and the run is the one that is open (`Told`, `Open`). For the
  clustering, `Linked` is the least set closed under being near; an expansion
  stays in it, being near is mutual, and an expansion is complete after as many
  rounds as there are points, because a round that adds none is the last.
  Where a dense point does not spread (the departure above) only
  `ClustersSound` holds.

Only model-checked: everything under fairness (`Recovers`, `Revives`,
`Reaches`), which the prover cannot do; `FollowsToEnd`, on short paths; and
`Merge`, an example.
Every invariant and action property of the passing runs has a theorem. The runs
that end in a violation are counterexamples and need no proof.

## Not modelled

- Kalman filter, path smoother, simulated sensors and ray casting, the
  `ros2_control` plugin, pose integration: floating-point computation without
  control of its own.
- Package signing (a Boolean in the OTA model), metrics, tracing, Prometheus
  and diagnostics output.
- RPC, log pipeline, task scheduler, device registry: no node uses them, only
  the tests under `quality/` do. The HAL registry is a table filled at start.
- What the sensor nodes' timers publish, and the sum the fleet manager
  publishes (it counts the last report of a robot for ever).

## Plan

What would come next: health monitor, feed and supervisor composed, with the
restart of a hung process as one story and the theorem that the supervisor's
gate and the monitor's report agree on it; goals, drive and guard in one
module, with the theorem that the guard's stop is what reaches the base;
path following on finer grids, with the error monitor's stop in the loop.
