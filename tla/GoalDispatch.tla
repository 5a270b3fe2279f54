----------------------------- MODULE GoalDispatch -----------------------------
(***************************************************************************)
(* From a task's goal to the end of the drive: decision_node.cpp plans and *)
(* dispatches, goal_dispatch_gate.hpp refuses a goal that was dispatched   *)
(* before, motor_ctrl_node.cpp follows the path and reports the result.    *)
(* Both nodes live in compute_container under a multi-threaded executor:   *)
(* the perception callback is reentrant, the action client's callbacks     *)
(* exclude each other, and execute() occupies the action server until it   *)
(* returns, so that goals are started one after the other.                 *)
(*                                                                         *)
(* Places are points of a small grid; the path is known by its end.        *)
(***************************************************************************)
EXTENDS Naturals, Sequences

CONSTANTS
    Coord,          \* coordinates of the places tasks ask for
    NoPlace,        \* nowhere: no path, no goal
    Between,        \* a pose on the way
    Thread,         \* the executor threads that run on_perception()
    ServerMayBeDown,
    MaxTasks,       \* bound: goals asked for
    MaxFaults,      \* bound: aborts, degraded frames, missing paths or TF
    MaxOverlaps     \* bound: frames that pass the gate while it is blind

Place == [x : Coord, y : Coord]

ASSUME DispatchAssumption ==
    /\ 0 \in Coord /\ NoPlace \notin Place /\ Between \notin Place
    /\ ServerMayBeDown \in BOOLEAN
    /\ MaxTasks \in Nat /\ MaxFaults \in Nat /\ MaxOverlaps \in Nat

VARIABLES
    goal,        \* parameters goal_x and goal_y
    writing,     \* a /goal_pose whose y is still to be written, or NoPlace
    asked,       \* history: the goals asked for, in order
    pc,          \* per thread: where on_perception() is
    at,          \* per thread: its gx and gy
    gate,        \* GoalDispatchGate
    active,      \* active_goal_: index into goals, 0 = none
    goals,       \* the MoveToPose goals sent, in order
    paths,       \* paths published and not yet delivered
    latest_path, \* MotorCtrlNode::latest_path_
    track,       \* the path execute() follows
    pose,        \* where the robot is
    cmd,         \* the last /cmd_vel
    lost,        \* history: goals noted as dispatched that no drive aims at
    overlaps,    \* history: the frames that passed the gate while it was blind
    overtaken,   \* history: has a goal overtaken a path?
    faults       \* faults there may still be

decision == <<pc, at, gate, active>>
motor == <<latest_path, track, pose, cmd>>
task == <<goal, writing, asked>>
history == <<lost, overlaps, overtaken>>
vars == <<decision, motor, task, goals, paths, history, faults>>

Home == [x |-> 0, y |-> 0]

want == asked[Len(asked)]

Init ==
    /\ goal = Home /\ writing = NoPlace /\ asked = <<Home>>
    /\ pc = [t \in Thread |-> "idle"]
    /\ at = [t \in Thread |-> Home]
    /\ gate = [ready |-> FALSE, dispatched |-> FALSE, last |-> NoPlace]
    /\ active = 0 /\ goals = <<>>
    /\ paths = <<>> /\ latest_path = NoPlace /\ track = NoPlace
    /\ pose = Home /\ cmd = "zero"
    /\ lost = {} /\ overlaps = 0 /\ overtaken = FALSE /\ faults = MaxFaults

\* One of the faults the run allows happens.
Fault == faults > 0 /\ faults' = faults - 1
-----------------------------------------------------------------------------
\* on_goal_pose() sets the two parameters one after the other.
OnGoalPose(g) ==
    /\ writing = NoPlace /\ Len(asked) <= MaxTasks /\ g # want
    /\ goal' = [goal EXCEPT !.x = g.x]
    /\ writing' = g
    /\ UNCHANGED <<asked, decision, motor, goals, paths, history, faults>>

OnGoalPoseEnds ==
    /\ writing # NoPlace
    /\ goal' = [goal EXCEPT !.y = writing.y]
    /\ asked' = Append(asked, writing)
    /\ writing' = NoPlace
    /\ UNCHANGED <<decision, motor, goals, paths, history, faults>>

\* on_fusion_heartbeat(): anything but a nominal level closes the gate.
OnFusionHeartbeat(ready) ==
    /\ gate.ready # ready
    /\ IF ready THEN UNCHANGED faults ELSE Fault
    /\ gate' = [gate EXCEPT !.ready = ready]
    /\ UNCHANGED <<pc, at, active, motor, task, goals, paths, history>>
-----------------------------------------------------------------------------
Answered(i) == goals[i].seen # "nothing"

\* on_perception() begins and reads goal_x ...
ReadX(t) ==
    /\ pc[t] = "idle"
    /\ pc' = [pc EXCEPT ![t] = "read y"]
    /\ at' = [at EXCEPT ![t].x = goal.x]
    /\ UNCHANGED <<gate, active, motor, task, goals, paths, history, faults>>

\* ... and then goal_y.
ReadY(t) ==
    /\ pc[t] = "read y"
    /\ pc' = [pc EXCEPT ![t] = "gate"]
    /\ at' = [at EXCEPT ![t].y = goal.y]
    /\ UNCHANGED <<gate, active, motor, task, goals, paths, history, faults>>

\* GoalDispatchGate::should_dispatch()
should_dispatch(g) ==
    /\ gate.ready
    /\ ~(gate.dispatched /\ gate.last = g)

Leave(t) == pc' = [pc EXCEPT ![t] = "idle"] /\ at' = [at EXCEPT ![t] = Home]

\* Neither gate nor goal lock knows yet of a goal that is about to be sent
\* by another frame, or whose response is still to come.
Blind(t) ==
    \/ \E s \in Thread \ {t} : pc[s] \in {"plan", "send"}
    \/ \E i \in 1..Len(goals) : ~Answered(i)

\* Arrived, or refused by the gate: return.  Otherwise go on to A*.
CheckGate(t) ==
    /\ pc[t] = "gate"
    /\ IF pose # at[t] /\ should_dispatch(at[t])
       THEN /\ pc' = [pc EXCEPT ![t] = "plan"]
            /\ UNCHANGED at
            /\ IF Blind(t)
               THEN overlaps < MaxOverlaps /\ overlaps' = overlaps + 1
               ELSE UNCHANGED overlaps
       ELSE Leave(t) /\ UNCHANGED overlaps
    /\ UNCHANGED <<gate, active, motor, task, goals, paths, lost, overtaken, faults>>

\* Mutant: an executing goal does not hold back the next one.
NoGoalLock == active \in Nat

\* The goal lock.
NoActiveGoal == active = 0

\* A* has ended: without a path, or with an active goal, return.
Plan(t) ==
    /\ pc[t] = "plan"
    /\ \/ Leave(t) /\ Fault /\ UNCHANGED paths
       \/ ~NoActiveGoal /\ Leave(t) /\ UNCHANGED <<paths, faults>>
       \/ /\ NoActiveGoal
          /\ pc' = [pc EXCEPT ![t] = "send"]
          /\ paths' = Append(paths, at[t])
          /\ UNCHANGED <<at, faults>>
    /\ UNCHANGED <<gate, active, motor, task, goals, history>>

\* Mutant: the gate remembers the odom-frame value that was sent.
NotedInOdom(g) ==
    [gate EXCEPT !.dispatched = TRUE, !.last = [frame |-> "odom", place |-> g]]

\* note_dispatched()
Noted(g) == [gate EXCEPT !.dispatched = TRUE, !.last = g]

NewGoal(g) == [to |-> g, st |-> "sent", seen |-> "nothing"]

(***************************************************************************)
(* The TF lookup, send_goal() and note_dispatched().  send_goal() returns  *)
(* without a word when the server is not ready.  An abort takes more than  *)
(* 3 s to come, so that none falls between sending and noting.             *)
(***************************************************************************)
SendGoal(t) ==
    /\ pc[t] = "send"
    /\ \/ /\ Fault /\ UNCHANGED <<gate, goals, lost>>
       \/ /\ gate' = Noted(at[t])
          /\ goals' = Append(goals, NewGoal(at[t]))
          /\ UNCHANGED <<lost, faults>>
       \/ /\ ServerMayBeDown
          /\ gate' = Noted(at[t])
          /\ lost' = lost \cup {at[t]}
          /\ UNCHANGED <<goals, faults>>
    /\ Leave(t)
    /\ UNCHANGED <<active, motor, task, paths, overlaps, overtaken>>
-----------------------------------------------------------------------------
\* on_goal_response(): an accepted goal; no finite goal is rejected.
OnGoalResponse(i) ==
    /\ goals[i].st # "sent" /\ goals[i].seen = "nothing"
    /\ active' = i
    /\ goals' = [goals EXCEPT ![i].seen = "response"]
    /\ UNCHANGED <<pc, at, gate, motor, task, paths, history, faults>>

\* Mutant: an aborted goal stays in the gate's memory.
OnResultKeepsGate(i) ==
    /\ goals[i].st \in {"succeeded", "aborted"} /\ goals[i].seen = "response"
    /\ active' = 0
    /\ goals' = [goals EXCEPT ![i].seen = "result"]
    /\ UNCHANGED <<pc, at, gate, motor, task, paths, history, faults>>

OnResult(i) ==
    /\ goals[i].st \in {"succeeded", "aborted"} /\ goals[i].seen = "response"
    /\ active' = 0
    /\ gate' = [gate EXCEPT !.dispatched = @ /\ goals[i].st = "succeeded"]
    /\ goals' = [goals EXCEPT ![i].seen = "result"]
    /\ UNCHANGED <<pc, at, motor, task, paths, history, faults>>
-----------------------------------------------------------------------------
\* Mutant: a path that is held already is not replaced.
OnPathKeepsFirst ==
    /\ paths # <<>>
    /\ latest_path' = IF latest_path = NoPlace THEN Head(paths) ELSE latest_path
    /\ paths' = Tail(paths)
    /\ UNCHANGED <<decision, track, pose, cmd, task, goals, history, faults>>

\* MotorCtrlNode::on_path()
OnPath ==
    /\ paths # <<>>
    /\ latest_path' = Head(paths)
    /\ paths' = Tail(paths)
    /\ UNCHANGED <<decision, track, pose, cmd, task, goals, history, faults>>

Executing == {i \in 1..Len(goals) : goals[i].st = "executing"}

(***************************************************************************)
(* handle_goal() accepts, and execute() copies the last path that has come *)
(* or, without one, draws a line to the goal.  Paths and goals come over   *)
(* different ways, so that the goal may overtake its path.                 *)
(***************************************************************************)
Execute(i) ==
    /\ goals[i].st = "sent" /\ Executing = {}
    /\ \A j \in 1..(i-1) : goals[j].st # "sent"
    /\ goals' = [goals EXCEPT ![i].st = "executing"]
    /\ track' = IF latest_path = NoPlace THEN goals[i].to ELSE latest_path
    /\ lost' = IF track' = goals[i].to THEN lost ELSE lost \cup {goals[i].to}
    /\ overtaken' = (overtaken \/ paths # <<>>)
    /\ UNCHANGED <<decision, latest_path, pose, cmd, task, paths, overlaps, faults>>

\* One or more turns of the control loop; p is where they take the robot.
Drive(i, p) ==
    /\ i \in Executing /\ pose # track /\ pose # p
    /\ pose' = p
    /\ cmd' = "moving"
    /\ UNCHANGED <<decision, latest_path, track, task, goals, paths, history, faults>>

Ended(i, how) ==
    /\ goals' = [goals EXCEPT ![i].st = how]
    /\ cmd' = "zero"
    /\ UNCHANGED <<decision, latest_path, track, pose, task, paths, history>>

\* The tracker asks for no more motion: stop and succeed.
Arrive(i) ==
    /\ i \in Executing /\ pose = track
    /\ Ended(i, "succeeded")
    /\ UNCHANGED faults

\* The collision guard held the robot for more than 3 s: stop and abort.
Abort(i) ==
    /\ i \in Executing /\ pose # track
    /\ Fault
    /\ Ended(i, "aborted")
-----------------------------------------------------------------------------
Perceive(t) ==
    \/ ReadX(t)
    \/ ReadY(t)
    \/ CheckGate(t)
    \/ Plan(t)
    \/ SendGoal(t)

Next ==
    \/ \E g \in Place : OnGoalPose(g)
    \/ OnGoalPoseEnds
    \/ \E ready \in BOOLEAN : OnFusionHeartbeat(ready)
    \/ \E t \in Thread : Perceive(t)
    \/ OnPath
    \/ \E i \in 1..Len(goals) :
          \/ OnGoalResponse(i)
          \/ OnResult(i)
          \/ Execute(i)
          \/ Drive(i, track)
          \/ Drive(i, Between)
          \/ Arrive(i)
          \/ Abort(i)

Spec == Init /\ [][Next]_vars

(***************************************************************************)
(* The executor serves every callback that is ready, fusion is nominal     *)
(* again in the end, and a robot that is not held up arrives.              *)
(***************************************************************************)
Fairness ==
    /\ WF_vars(OnGoalPoseEnds)
    /\ WF_vars(OnFusionHeartbeat(TRUE))
    /\ \A t \in Thread : WF_vars(Perceive(t))
    /\ WF_vars(OnPath)
    /\ WF_vars(\E i \in 1..Len(goals) : OnGoalResponse(i))
    /\ WF_vars(\E i \in 1..Len(goals) : OnResult(i))
    /\ WF_vars(\E i \in 1..Len(goals) : Execute(i))
    /\ WF_vars(\E i \in 1..Len(goals) : Drive(i, track))
    /\ WF_vars(\E i \in 1..Len(goals) : Arrive(i))

FairSpec == Spec /\ Fairness
-----------------------------------------------------------------------------
Goal == [to : Place, st : {"sent", "executing", "succeeded", "aborted"},
         seen : {"nothing", "response", "result"}]

TypeOK ==
    /\ goal \in Place
    /\ writing \in Place \cup {NoPlace}
    /\ asked \in Seq(Place)
    /\ pc \in [Thread -> {"idle", "read y", "gate", "plan", "send"}]
    /\ at \in [Thread -> Place]
    /\ gate \in [ready : BOOLEAN, dispatched : BOOLEAN, last : Place \cup {NoPlace}]
    /\ goals \in Seq(Goal)
    /\ active \in 0..Len(goals)
    /\ paths \in Seq(Place)
    /\ {latest_path, track} \subseteq Place \cup {NoPlace}
    /\ pose \in Place \cup {Between}
    /\ cmd \in {"zero", "moving"}
    /\ lost \subseteq Place
    /\ overlaps \in 0..MaxOverlaps
    /\ overtaken \in BOOLEAN
    /\ faults \in 0..MaxFaults

Outstanding == {i \in 1..Len(goals) : goals[i].seen # "result"}

(***************************************************************************)
(* Goal lock and gate together let one goal through at a time: two goals   *)
(* are between sending and the handling of their results only after a      *)
(* frame has passed the gate while another was past it, or while the       *)
(* response to a goal was still to come.                                   *)
(***************************************************************************)
OneOutstanding ==
    overlaps = 0 => \A i, j \in Outstanding : i = j

(***************************************************************************)
(* A goal is reported as reached only with the robot standing there.  (It  *)
(* may not: a goal that overtakes its path is driven along the last one.)  *)
(***************************************************************************)
ReachedIsThere ==
    \A i \in 1..Len(goals) :
        goals[i].st = "succeeded" /\ goals[i].seen # "result"
            => pose = goals[i].to

(***************************************************************************)
(* Outside these races the path execute() takes is the one planned for its *)
(* goal, through failed planning, missing TF, aborts and new tasks, and a  *)
(* goal reported as reached is one the robot stands at.                    *)
(***************************************************************************)
SuccessMeansThere == overlaps = 0 /\ ~overtaken => ReachedIsThere

(***************************************************************************)
(* The goal asked for is reached unless another one replaces it: after     *)
(* finitely many faults, aborts among them, the gate lets it through       *)
(* again and the drive ends there, however frames overlap.  Excepted is    *)
(* only the goal that the gate remembers and no drive aims at: send_goal() *)
(* dropped it because the server was not ready, or its drive took the path *)
(* of another.                                                             *)
(***************************************************************************)
Reaches ==
    \A g \in Place : want = g ~> (pose = g \/ want # g \/ g \in lost)
=============================================================================
