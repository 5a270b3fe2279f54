-------------------------- MODULE GoalDispatchProofs --------------------------
(***************************************************************************)
(* Theorems about goal dispatch, for every set of places and of threads,   *)
(* and every number of tasks, faults and overlapping frames.               *)
(***************************************************************************)
EXTENDS GoalDispatch, TLAPS

Status == {"sent", "executing", "succeeded", "aborted"}
Step == {"idle", "read y", "gate", "plan", "send"}

\* A goal is put together from its fields.
LEMMA GoalRecord ==
    ASSUME NEW to \in Place, NEW st \in Status, NEW seen \in {"nothing", "response", "result"}
    PROVE  [to |-> to, st |-> st, seen |-> seen] \in Goal
  BY DEF Goal, Status

\* A place keeps being one when a coordinate is replaced by that of another.
LEMMA PlaceExcept ==
    ASSUME NEW p \in Place, NEW q \in Place
    PROVE  [p EXCEPT !.x = q.x] \in Place /\ [p EXCEPT !.y = q.y] \in Place
  BY DEF Place

\* The state of one goal changes; the others, and its target, stay.
LEMMA GoalStatus ==
    ASSUME NEW s \in Seq(Goal), NEW i \in 1..Len(s), NEW st \in Status,
           NEW n, n = [s EXCEPT ![i].st = st]
    PROVE  /\ n \in Seq(Goal) /\ Len(n) = Len(s)
           /\ n[i].st = st /\ n[i].seen = s[i].seen /\ n[i].to = s[i].to
           /\ \A j \in 1..Len(s) : j # i => n[j] = s[j]
<1>1. s[i] \in Goal
  OBVIOUS
<1> DEFINE g == [s[i] EXCEPT !.st = st]
<1>2. g \in Goal /\ g.st = st /\ g.seen = s[i].seen /\ g.to = s[i].to
  BY <1>1 DEF Goal, Status
<1>3. n = [s EXCEPT ![i] = g]
  OBVIOUS
<1> HIDE DEF g
<1> QED
  BY <1>2, <1>3

LEMMA GoalSeen ==
    ASSUME NEW s \in Seq(Goal), NEW i \in 1..Len(s),
           NEW seen \in {"nothing", "response", "result"},
           NEW n, n = [s EXCEPT ![i].seen = seen]
    PROVE  /\ n \in Seq(Goal) /\ Len(n) = Len(s)
           /\ n[i].seen = seen /\ n[i].st = s[i].st /\ n[i].to = s[i].to
           /\ \A j \in 1..Len(s) : j # i => n[j] = s[j]
<1>1. s[i] \in Goal
  OBVIOUS
<1> DEFINE g == [s[i] EXCEPT !.seen = seen]
<1>2. g \in Goal /\ g.seen = seen /\ g.st = s[i].st /\ g.to = s[i].to
  BY <1>1 DEF Goal
<1>3. n = [s EXCEPT ![i] = g]
  OBVIOUS
<1> HIDE DEF g
<1> QED
  BY <1>2, <1>3

\* A goal is sent.
LEMMA GoalAppended ==
    ASSUME NEW s \in Seq(Goal), NEW g \in Place, NEW n, n = Append(s, NewGoal(g))
    PROVE  /\ n \in Seq(Goal) /\ Len(n) = Len(s) + 1
           /\ n[Len(n)] = NewGoal(g) /\ NewGoal(g) \in Goal
           /\ \A j \in 1..Len(s) : n[j] = s[j]
<1>1. NewGoal(g) \in Goal
  BY DEF NewGoal, Goal
<1> QED
  BY <1>1

-----------------------------------------------------------------------------
\* A goal under way has a path to follow.
HasTrack == \A i \in Executing : track \in Place

Typed == TypeOK /\ HasTrack

\* The states of the threads and of what they read.
LEMMA ThreadMoves ==
    ASSUME TypeOK, NEW t \in Thread, NEW step \in Step, NEW p \in Place
    PROVE  /\ [pc EXCEPT ![t] = step] \in [Thread -> Step]
           /\ [at EXCEPT ![t].x = p.x] \in [Thread -> Place]
           /\ [at EXCEPT ![t].y = p.y] \in [Thread -> Place]
           /\ [at EXCEPT ![t] = p] \in [Thread -> Place]
<1>1. /\ pc \in [Thread -> Step] /\ at \in [Thread -> Place]
  BY DEF TypeOK, Step
<1>2. at[t] \in Place
  BY <1>1
<1>3. [pc EXCEPT ![t] = step] \in [Thread -> Step]
  BY <1>1
<1>4. ASSUME NEW q \in Place
      PROVE  [at EXCEPT ![t] = q] \in [Thread -> Place]
  BY <1>1
<1>5. /\ [at EXCEPT ![t].x = p.x] = [at EXCEPT ![t] = [at[t] EXCEPT !.x = p.x]]
      /\ [at EXCEPT ![t].y = p.y] = [at EXCEPT ![t] = [at[t] EXCEPT !.y = p.y]]
  OBVIOUS
<1>6. [at[t] EXCEPT !.x = p.x] \in Place /\ [at[t] EXCEPT !.y = p.y] \in Place
  BY <1>2, PlaceExcept
<1> QED
  BY <1>3, <1>4, <1>5, <1>6

LEMMA HomeIsPlace == Home \in Place
  BY DispatchAssumption DEF Home, Place

LEMMA TypedInit == Init => Typed
<1> SUFFICES ASSUME Init PROVE Typed
  OBVIOUS
<1>1. /\ goal \in Place /\ writing \in Place \cup {NoPlace} /\ asked \in Seq(Place)
      /\ pc \in [Thread -> Step] /\ at \in [Thread -> Place]
      /\ paths \in Seq(Place) /\ {latest_path, track} \subseteq Place \cup {NoPlace}
      /\ pose \in Place \cup {Between} /\ lost \subseteq Place
  BY HomeIsPlace DEF Init, Step
<1>2. goals \in Seq(Goal) /\ Len(goals) = 0 /\ active \in 0..Len(goals)
  BY DEF Init
<1>3. gate \in [ready : BOOLEAN, dispatched : BOOLEAN, last : Place \cup {NoPlace}]
  BY DEF Init
<1>4. cmd \in {"zero", "moving"} /\ faults \in 0..MaxFaults /\ overlaps \in 0..MaxOverlaps
  BY DispatchAssumption DEF Init
<1>5. HasTrack
  BY <1>2 DEF HasTrack, Executing
<1>6. overtaken \in BOOLEAN
  BY Zenon DEF Init
<1> QED
  BY <1>1, <1>2, <1>3, <1>4, <1>5, <1>6 DEF Typed, TypeOK, Step

\* A fault there was, and those that may still be.
LEMMA FaultTyped ==
    ASSUME TypeOK, Fault \/ UNCHANGED faults
    PROVE  faults' \in 0..MaxFaults
<1>1. faults \in 0..MaxFaults /\ MaxFaults \in Nat
  BY DispatchAssumption DEF TypeOK
<1> QED
  BY <1>1 DEF Fault

\* The variables of one side stay while those of the others change.
LEMMA TaskTyped ==
    ASSUME Typed, OnGoalPoseEnds \/ \E g \in Place : OnGoalPose(g)
    PROVE  Typed'
<1>1. goal \in Place /\ writing \in Place \cup {NoPlace} /\ asked \in Seq(Place)
  BY DEF Typed, TypeOK
<1>2. UNCHANGED <<pc, at, gate, active, latest_path, track, pose, cmd, goals, paths,
                  history, faults>>
  BY DEF OnGoalPose, OnGoalPoseEnds, decision, motor
<1>3. goal' \in Place /\ writing' \in Place \cup {NoPlace} /\ asked' \in Seq(Place)
  <2>1. CASE OnGoalPoseEnds
    <3>1. writing \in Place
      BY <1>1, <2>1 DEF OnGoalPoseEnds
    <3>2. goal' \in Place
      BY <1>1, <2>1, <3>1, PlaceExcept DEF OnGoalPoseEnds
    <3>3. writing' = NoPlace /\ asked' = Append(asked, writing)
      BY <2>1 DEF OnGoalPoseEnds
    <3> QED
      BY <1>1, <3>1, <3>2, <3>3
  <2>2. ASSUME NEW g \in Place, OnGoalPose(g)
        PROVE  goal' \in Place /\ writing' = g /\ asked' = asked
    BY <1>1, <2>2, PlaceExcept DEF OnGoalPose
  <2> QED
    BY <1>1, <2>1, <2>2
<1> QED
  BY <1>2, <1>3 DEF Typed, TypeOK, HasTrack, Executing, history

LEMMA HeartbeatTyped ==
    ASSUME Typed, NEW ready \in BOOLEAN, OnFusionHeartbeat(ready)
    PROVE  Typed'
<1>1. UNCHANGED <<goal, writing, asked, pc, at, active, latest_path, track, pose, cmd,
                  goals, paths, history>>
  BY DEF OnFusionHeartbeat, task, motor
<1>2. gate' \in [ready : BOOLEAN, dispatched : BOOLEAN, last : Place \cup {NoPlace}]
  BY DEF OnFusionHeartbeat, Typed, TypeOK
<1>3. faults' \in 0..MaxFaults
  BY FaultTyped DEF OnFusionHeartbeat, Typed
<1> QED
  BY <1>1, <1>2, <1>3 DEF Typed, TypeOK, HasTrack, Executing, history

\* Leaving on_perception().
LEMMA LeaveTyped ==
    ASSUME Typed, NEW t \in Thread, Leave(t)
    PROVE  pc' \in [Thread -> Step] /\ at' \in [Thread -> Place]
  BY ThreadMoves, HomeIsPlace DEF Leave, Typed, Step

\* What a dispatched goal leaves in the gate.
LEMMA NotedFacts ==
    ASSUME TypeOK, NEW g \in Place
    PROVE  Noted(g) \in [ready : BOOLEAN, dispatched : BOOLEAN, last : Place \cup {NoPlace}]
<1> DEFINE yes == TRUE
           h == [gate EXCEPT !.dispatched = yes]
<1>1. yes \in BOOLEAN /\ Noted(g) = [h EXCEPT !.last = g]
  BY DEF Noted
<1> HIDE DEF yes
<1>2. h \in [ready : BOOLEAN, dispatched : BOOLEAN, last : Place \cup {NoPlace}]
  BY <1>1 DEF TypeOK
<1> HIDE DEF h
<1> QED
  BY <1>1, <1>2

\* on_perception() up to A*.
LEMMA ReadTyped ==
    ASSUME Typed, NEW t \in Thread, ReadX(t) \/ ReadY(t) \/ CheckGate(t)
    PROVE  Typed'
<1>1. UNCHANGED <<goal, writing, asked, gate, active, latest_path, track, pose, cmd,
                  goals, paths, lost, overtaken, faults>>
  BY DEF ReadX, ReadY, CheckGate, task, motor, history
<1>2. TypeOK /\ goal \in Place /\ pc \in [Thread -> Step] /\ at \in [Thread -> Place]
  BY DEF Typed, TypeOK, Step
<1>3. pc' \in [Thread -> Step] /\ at' \in [Thread -> Place]
  <2>1. CASE ReadX(t)
    BY <1>2, <2>1, ThreadMoves DEF ReadX, Step
  <2>2. CASE ReadY(t)
    BY <1>2, <2>2, ThreadMoves DEF ReadY, Step
  <2>3. CASE CheckGate(t)
    <3>1. Leave(t) \/ (pc' = [pc EXCEPT ![t] = "plan"] /\ UNCHANGED at)
      BY <2>3 DEF CheckGate
    <3> QED
      BY <1>2, <3>1, LeaveTyped, ThreadMoves, HomeIsPlace DEF Step
  <2> QED
    BY <2>1, <2>2, <2>3
<1>4. overlaps' \in 0..MaxOverlaps
  <2>1. overlaps \in 0..MaxOverlaps /\ MaxOverlaps \in Nat
    BY <1>2, DispatchAssumption DEF TypeOK
  <2>2. overlaps' = overlaps \/ (overlaps < MaxOverlaps /\ overlaps' = overlaps + 1)
    BY DEF ReadX, ReadY, CheckGate, history
  <2> QED
    BY <2>1, <2>2
<1> QED
  BY <1>1, <1>3, <1>4 DEF Typed, TypeOK, HasTrack, Executing, Step

LEMMA PlanTyped ==
    ASSUME Typed, NEW t \in Thread, Plan(t)
    PROVE  Typed'
<1>1. UNCHANGED <<goal, writing, asked, gate, active, latest_path, track, pose, cmd,
                  goals, history>>
  BY DEF Plan, task, motor
<1>2. /\ TypeOK /\ pc \in [Thread -> Step] /\ at \in [Thread -> Place]
      /\ at[t] \in Place /\ paths \in Seq(Place)
  BY DEF Typed, TypeOK, Step
<1>3. /\ Leave(t) \/ (pc' = [pc EXCEPT ![t] = "send"] /\ UNCHANGED at)
      /\ paths' = paths \/ paths' = Append(paths, at[t])
      /\ Fault \/ UNCHANGED faults
  BY DEF Plan
<1>4. pc' \in [Thread -> Step] /\ at' \in [Thread -> Place]
  BY <1>2, <1>3, LeaveTyped, ThreadMoves, HomeIsPlace DEF Step
<1>5. paths' \in Seq(Place) /\ faults' \in 0..MaxFaults
  BY <1>2, <1>3, FaultTyped
<1> QED
  BY <1>1, <1>4, <1>5 DEF Typed, TypeOK, HasTrack, Executing, Step, history

LEMMA SendGoalTyped ==
    ASSUME Typed, NEW t \in Thread, SendGoal(t)
    PROVE  Typed'
<1>1. UNCHANGED <<goal, writing, asked, active, latest_path, track, pose, cmd, paths,
                  overlaps, overtaken>>
  BY DEF SendGoal, task, motor
<1>2. /\ TypeOK /\ at[t] \in Place /\ goals \in Seq(Goal) /\ active \in 0..Len(goals)
      /\ gate \in [ready : BOOLEAN, dispatched : BOOLEAN, last : Place \cup {NoPlace}]
      /\ lost \subseteq Place
  BY DEF Typed, TypeOK
<1>3. /\ Leave(t)
      /\ gate' = gate \/ gate' = Noted(at[t])
      /\ goals' = goals \/ goals' = Append(goals, NewGoal(at[t]))
      /\ lost' = lost \/ lost' = lost \cup {at[t]}
      /\ Fault \/ UNCHANGED faults
  BY DEF SendGoal
<1>4. pc' \in [Thread -> Step] /\ at' \in [Thread -> Place]
  BY <1>3, LeaveTyped
<1>5. /\ gate' \in [ready : BOOLEAN, dispatched : BOOLEAN, last : Place \cup {NoPlace}]
      /\ lost' \subseteq Place /\ faults' \in 0..MaxFaults
  BY <1>2, <1>3, NotedFacts, FaultTyped
<1>6. goals' \in Seq(Goal) /\ active' \in 0..Len(goals') /\ HasTrack'
  <2>1. CASE goals' = goals
    BY <1>1, <1>2, <2>1 DEF Typed, HasTrack, Executing
  <2>2. CASE goals' = Append(goals, NewGoal(at[t]))
    <3>1. /\ goals' \in Seq(Goal) /\ Len(goals') = Len(goals) + 1
          /\ goals'[Len(goals')] = NewGoal(at[t])
          /\ \A j \in 1..Len(goals) : goals'[j] = goals[j]
      BY <1>2, <2>2, GoalAppended
    <3>2. Executing' \subseteq Executing
      <4>1. ASSUME NEW i \in 1..Len(goals'), goals'[i].st = "executing"
            PROVE  i \in 1..Len(goals) /\ goals[i].st = "executing"
        <5>1. i # Len(goals')
          BY <3>1, <4>1 DEF NewGoal
        <5>2. Len(goals) \in Nat
          BY <1>2
        <5>3. i \in 1..Len(goals)
          BY <3>1, <5>1, <5>2
        <5> QED
          BY <3>1, <4>1, <5>3
      <4> QED
        BY <4>1 DEF Executing
    <3>3. active' \in 0..Len(goals')
      BY <1>1, <1>2, <3>1
    <3> QED
      BY <1>1, <3>1, <3>2, <3>3 DEF Typed, HasTrack
  <2> QED
    BY <1>3, <2>1, <2>2
<1> QED
  BY <1>1, <1>4, <1>5, <1>6 DEF Typed, TypeOK, Step

\* The action client's callbacks.
LEMMA ClientTyped ==
    ASSUME Typed, NEW i \in 1..Len(goals), OnGoalResponse(i) \/ OnResult(i)
    PROVE  Typed'
<1>1. UNCHANGED <<goal, writing, asked, pc, at, latest_path, track, pose, cmd, paths,
                  history, faults>>
  BY DEF OnGoalResponse, OnResult, task, motor
<1>0. /\ goals \in Seq(Goal)
      /\ gate \in [ready : BOOLEAN, dispatched : BOOLEAN, last : Place \cup {NoPlace}]
  BY DEF Typed, TypeOK
<1>2. /\ goals \in Seq(Goal) /\ Len(goals) \in Nat
      /\ gate \in [ready : BOOLEAN, dispatched : BOOLEAN, last : Place \cup {NoPlace}]
  BY <1>0
<1>3. /\ goals' = [goals EXCEPT ![i].seen = "response"]
           \/ goals' = [goals EXCEPT ![i].seen = "result"]
      /\ active' = i \/ active' = 0
  BY DEF OnGoalResponse, OnResult
<1>4. /\ goals' \in Seq(Goal) /\ Len(goals') = Len(goals)
      /\ \A j \in 1..Len(goals) : goals'[j].st = goals[j].st
  <2>1. PICK seen \in {"nothing", "response", "result"} :
          goals' = [goals EXCEPT ![i].seen = seen]
    BY <1>3
  <2> QED
    BY <1>2, <2>1, GoalSeen
<1>5. gate' \in [ready : BOOLEAN, dispatched : BOOLEAN, last : Place \cup {NoPlace}]
  BY <1>2 DEF OnGoalResponse, OnResult
<1>6. active' \in 0..Len(goals')
  BY <1>2, <1>3, <1>4
<1>7. HasTrack'
  BY <1>1, <1>4 DEF Typed, HasTrack, Executing
<1> QED
  BY <1>1, <1>4, <1>5, <1>6, <1>7 DEF Typed, TypeOK, history

LEMMA OnPathTyped ==
    ASSUME Typed, OnPath
    PROVE  Typed'
<1>1. UNCHANGED <<goal, writing, asked, pc, at, gate, active, track, pose, cmd, goals,
                  history, faults>>
  BY DEF OnPath, task, decision
<1>2. paths \in Seq(Place) /\ paths # <<>> /\ latest_path' = Head(paths) /\ paths' = Tail(paths)
  BY DEF Typed, TypeOK, OnPath
<1>3. paths' \in Seq(Place) /\ latest_path' \in Place
  BY <1>2
<1> QED
  BY <1>1, <1>3 DEF Typed, TypeOK, HasTrack, Executing, history

LEMMA ExecuteTyped ==
    ASSUME Typed, NEW i \in 1..Len(goals), Execute(i)
    PROVE  Typed'
<1>1. UNCHANGED <<goal, writing, asked, pc, at, gate, active, latest_path, pose, cmd,
                  paths, overlaps, faults>>
  BY DEF Execute, task, decision
<1>0. goals \in Seq(Goal) /\ latest_path \in Place \cup {NoPlace}
  BY DEF Typed, TypeOK
<1>2. goals[i] \in Goal /\ goals[i].to \in Place
  <2>1. goals[i] \in Goal
    BY <1>0
  <2> QED
    BY <2>1 DEF Goal
<1>3. /\ goals' = [goals EXCEPT ![i].st = "executing"]
      /\ track' = IF latest_path = NoPlace THEN goals[i].to ELSE latest_path
  BY DEF Execute
<1>4. goals' \in Seq(Goal) /\ Len(goals') = Len(goals)
  <2>1. PICK st \in Status : goals' = [goals EXCEPT ![i].st = st]
    BY <1>3 DEF Status
  <2> QED
    BY <1>0, <2>1, GoalStatus
<1>5. track' \in Place
  BY <1>0, <1>2, <1>3
<1>6. lost' \subseteq Place
  <2>1. lost' = lost \/ lost' = lost \cup {goals[i].to}
    BY DEF Execute
  <2> QED
    BY <1>2, <2>1 DEF Typed, TypeOK
<1>7. overtaken' \in BOOLEAN
  BY Zenon DEF Execute
<1> QED
  BY <1>1, <1>4, <1>5, <1>6, <1>7 DEF Typed, TypeOK, HasTrack

LEMMA DriveTyped ==
    ASSUME Typed, NEW i \in 1..Len(goals), Drive(i, track) \/ Drive(i, Between)
    PROVE  Typed'
<1>1. UNCHANGED <<goal, writing, asked, pc, at, gate, active, latest_path, track, goals,
                  paths, history, faults>>
  BY DEF Drive, task, decision
<1>2. track \in Place
  BY DEF Drive, Typed, HasTrack
<1>3. cmd' = "moving" /\ pose' \in Place \cup {Between}
  BY <1>2 DEF Drive
<1> QED
  BY <1>1, <1>3 DEF Typed, TypeOK, HasTrack, Executing, history

LEMMA EndTyped ==
    ASSUME Typed, NEW i \in 1..Len(goals), Arrive(i) \/ Abort(i)
    PROVE  Typed'
<1>1. UNCHANGED <<goal, writing, asked, pc, at, gate, active, latest_path, track, pose,
                  paths, history>>
  BY DEF Arrive, Abort, Ended, task, decision
<1>2. /\ goals' = [goals EXCEPT ![i].st = "succeeded"]
           \/ goals' = [goals EXCEPT ![i].st = "aborted"]
      /\ cmd' = "zero"
      /\ Fault \/ UNCHANGED faults
  BY DEF Arrive, Abort, Ended
<1>3. goals \in Seq(Goal) /\ TypeOK
  BY DEF Typed, TypeOK
<1>4. /\ goals' \in Seq(Goal) /\ Len(goals') = Len(goals)
      /\ \A j \in 1..Len(goals) : goals'[j].st = "executing" => goals[j].st = "executing"
  BY <1>2, <1>3, GoalStatus DEF Status
<1>5. faults' \in 0..MaxFaults
  BY <1>2, <1>3, FaultTyped DEF Arrive, Abort
<1>6. HasTrack'
  BY <1>1, <1>4 DEF Typed, HasTrack, Executing
<1> QED
  BY <1>1, <1>2, <1>4, <1>5, <1>6 DEF Typed, TypeOK, history

LEMMA TypedStep == Typed /\ [Next]_vars => Typed'
<1> SUFFICES ASSUME Typed, [Next]_vars PROVE Typed'
  OBVIOUS
<1>1. CASE Next
  BY <1>1, TaskTyped, HeartbeatTyped, ReadTyped, PlanTyped, SendGoalTyped, OnPathTyped,
     ClientTyped, ExecuteTyped, DriveTyped, EndTyped DEF Next, Perceive
<1>2. CASE UNCHANGED vars
  BY <1>2 DEF vars, decision, motor, task, history, Typed, TypeOK, HasTrack, Executing
<1> QED
  BY <1>1, <1>2

(***************************************************************************)
(* Every variable of decision and motor_ctrl stays in its type, whatever   *)
(* the threads, responses and faults do; the robot is never sent nowhere.  *)
(***************************************************************************)
THEOREM DispatchType == Spec => []TypeOK
<1>1. Typed => TypeOK
  BY DEF Typed
<1> QED
  BY <1>1, TypedInit, TypedStep, PTL DEF Spec

-----------------------------------------------------------------------------
(***************************************************************************)
(* What holds until a frame passes the gate while it is blind.             *)
(*                                                                         *)
(* A frame past the gate is the only one there, and it has seen every      *)
(* earlier goal answered, so that the goal lock speaks for all of them: a  *)
(* goal that was answered and has no result yet is the active one.  The    *)
(* newest path, delivered or not, is that of the goal about to be sent or  *)
(* about to be executed.                                                   *)
(***************************************************************************)
NewestPath == IF paths = <<>> THEN latest_path ELSE paths[Len(paths)]

Progress ==
    \A i \in 1..Len(goals) :
        /\ goals[i].st = "sent" => goals[i].seen = "nothing"
        /\ goals[i].st = "executing" => goals[i].seen # "result"
        /\ goals[i].seen = "response" => active = i

PastGate(t) == pc[t] \in {"plan", "send"}

FrameKnows ==
    \A t \in Thread : PastGate(t) =>
        /\ \A i \in 1..Len(goals) : Answered(i)
        /\ \A s \in Thread : PastGate(s) => s = t
        /\ pc[t] = "send" => active = 0 /\ NewestPath = at[t]

PathFits == \A i \in 1..Len(goals) : goals[i].st = "sent" => NewestPath = goals[i].to

TrackFits == \A i \in Executing : track = goals[i].to

AtMostOne == \A i, j \in Outstanding : i = j

DispatchInv ==
    /\ Typed
    /\ Progress
    /\ FrameKnows
    /\ AtMostOne
    /\ PathFits

DriveInv == DispatchInv /\ TrackFits /\ ReachedIsThere

Invariant ==
    /\ Typed
    /\ overlaps = 0 => DispatchInv
    /\ overlaps = 0 /\ ~overtaken => DriveInv

LEMMA DriveInit == Init => DriveInv
<1> SUFFICES ASSUME Init PROVE DriveInv
  OBVIOUS
<1>1. Len(goals) = 0 /\ Typed /\ pc = [t \in Thread |-> "idle"]
  BY TypedInit DEF Init
<1>2. FrameKnows
  BY <1>1 DEF FrameKnows, PastGate
<1> QED
  BY <1>1, <1>2 DEF DriveInv, DispatchInv, Progress, AtMostOne, Outstanding, PathFits,
                    TrackFits, Executing, ReachedIsThere

\* What the invariant looks at besides types, when a step leaves it alone.
LEMMA DispatchKept ==
    ASSUME DispatchInv, Typed', UNCHANGED <<goals, active, pc, at, paths, latest_path>>
    PROVE  DispatchInv'
  BY DEF DispatchInv, Progress, FrameKnows, PastGate, Answered, NewestPath, AtMostOne,
         Outstanding, PathFits

LEMMA DriveKept ==
    ASSUME DriveInv, DispatchInv', UNCHANGED <<goals, track, pose>>
    PROVE  DriveInv'
  BY DEF DriveInv, TrackFits, ReachedIsThere, Executing

\* With no goal left to be answered, the goal lock open means no goal at all.
LEMMA LockOpen ==
    ASSUME DispatchInv, NEW t \in Thread, pc[t] = "send"
    PROVE  \A i \in 1..Len(goals) : goals[i].seen = "result"
<1>1. active = 0 /\ \A i \in 1..Len(goals) : goals[i].seen # "nothing"
  BY DEF DispatchInv, FrameKnows, PastGate, Answered
<1>2. \A i \in 1..Len(goals) : goals[i] \in Goal
  <2>1. goals \in Seq(Goal)
    BY DEF DispatchInv, Typed, TypeOK
  <2> QED
    BY <2>1
<1>3. ASSUME NEW i \in 1..Len(goals)
      PROVE  goals[i].seen = "result"
  <2>1. goals[i].seen \in {"nothing", "response", "result"}
    BY <1>2 DEF Goal
  <2>2. goals[i].seen # "response"
    BY <1>1 DEF DispatchInv, Progress
  <2> QED
    BY <1>1, <2>1, <2>2
<1> QED
  BY <1>3

\* A thread moves on, or returns.
LEMMA FrameStep ==
    ASSUME DispatchInv, overlaps = 0, overlaps' = 0, NEW t \in Thread,
           ReadX(t) \/ ReadY(t) \/ CheckGate(t) \/ Plan(t)
    PROVE  DispatchInv'
<1>1. Typed'
  BY ReadTyped, PlanTyped DEF DispatchInv
<1>2. UNCHANGED <<goals, active, latest_path>>
  BY DEF ReadX, ReadY, CheckGate, Plan, motor
<1>3. Progress' /\ AtMostOne'
  BY <1>2 DEF DispatchInv, Progress, AtMostOne, Outstanding
<1>4. pc \in [Thread -> Step] /\ at \in [Thread -> Place] /\ paths \in Seq(Place)
  BY DEF DispatchInv, Typed, TypeOK, Step
<1>5. /\ \A s \in Thread : s # t => pc'[s] = pc[s] /\ at'[s] = at[s]
      /\ pc'[t] \in {"idle", "read y", "gate", "plan", "send"}
  BY <1>4 DEF ReadX, ReadY, CheckGate, Plan, Leave
<1>6. PastGate(t)' => /\ \A i \in 1..Len(goals) : Answered(i)
                      /\ \A s \in Thread : PastGate(s) => s = t
  <2> SUFFICES ASSUME PastGate(t)'
               PROVE  /\ \A i \in 1..Len(goals) : Answered(i)
                      /\ \A s \in Thread : PastGate(s) => s = t
    OBVIOUS
  <2>1. CheckGate(t) \/ Plan(t)
    BY <1>4 DEF ReadX, ReadY, PastGate
  <2>2. CASE Plan(t)
    BY <2>2 DEF Plan, DispatchInv, FrameKnows, PastGate
  <2>3. CASE CheckGate(t)
    <3>1. ~Leave(t)
      BY <1>4 DEF Leave, PastGate
    <3>2. ~Blind(t)
      BY <2>3, <3>1 DEF CheckGate
    <3> QED
      BY <3>2 DEF Blind, PastGate
  <2> QED
    BY <2>1, <2>2, <2>3
<1>7. ReadX(t) \/ ReadY(t) \/ CheckGate(t) => paths' = paths
  BY DEF ReadX, ReadY, CheckGate, motor
<1>8. PathFits'
  <2>1. CASE Plan(t)
    <3>1. \A i \in 1..Len(goals) : Answered(i)
      BY <2>1 DEF Plan, DispatchInv, FrameKnows, PastGate
    <3>2. \A i \in 1..Len(goals) : goals[i].st # "sent"
      BY <3>1 DEF DispatchInv, Progress, Answered
    <3> QED
      BY <1>2, <3>2 DEF PathFits
  <2>2. CASE ~Plan(t)
    BY <1>2, <1>7, <2>2 DEF DispatchInv, PathFits, NewestPath
  <2> QED
    BY <2>1, <2>2
<1>9. pc'[t] = "send" => active' = 0 /\ NewestPath' = at'[t]
  <2>1. CASE Plan(t)
    <3>1. CASE Leave(t)
      BY <1>4, <3>1 DEF Leave
    <3>2. CASE ~Leave(t)
      <4>1. active = 0 /\ paths' = Append(paths, at[t]) /\ at' = at
        BY <2>1, <3>2 DEF Plan, NoActiveGoal
      <4>2. at[t] \in Place
        BY <1>4
      <4>3. paths' # <<>> /\ paths'[Len(paths')] = at[t]
        BY <1>4, <4>1, <4>2
      <4> QED
        BY <1>2, <4>1, <4>3 DEF NewestPath
    <3> QED
      BY <3>1, <3>2
  <2>2. CASE ReadX(t) \/ ReadY(t) \/ CheckGate(t)
    BY <1>4, <2>2 DEF ReadX, ReadY, CheckGate, Leave
  <2> QED
    BY <2>1, <2>2
<1>10. FrameKnows'
  <2> SUFFICES ASSUME NEW s \in Thread, PastGate(s)'
               PROVE  /\ \A i \in 1..Len(goals) : Answered(i)
                      /\ \A u \in Thread : PastGate(u)' => u = s
                      /\ pc'[s] = "send" => active' = 0 /\ NewestPath' = at'[s]
    BY <1>2 DEF FrameKnows, Answered
  <2>1. CASE s = t
    BY <1>5, <1>6, <1>9, <2>1 DEF PastGate
  <2>2. CASE s # t
    <3>1. PastGate(s)
      BY <1>5, <2>2 DEF PastGate
    <3>2. ~PastGate(t) /\ ~PastGate(t)'
      BY <1>6, <2>2, <3>1 DEF DispatchInv, FrameKnows
    <3>3. ~Plan(t)
      BY <3>2 DEF Plan, PastGate
    <3>4. NewestPath' = NewestPath
      BY <1>2, <1>7, <3>3 DEF NewestPath
    <3> QED
      BY <1>2, <1>5, <2>2, <3>1, <3>2, <3>4 DEF DispatchInv, FrameKnows, PastGate
  <2> QED
    BY <2>1, <2>2
<1> QED
  BY <1>1, <1>3, <1>8, <1>10 DEF DispatchInv

\* The goal goes out, or nothing does.
LEMMA SendGoalStep ==
    ASSUME DispatchInv, NEW t \in Thread, SendGoal(t)
    PROVE  DispatchInv'
<1>1. Typed'
  BY SendGoalTyped DEF DispatchInv
<1>2. UNCHANGED <<active, latest_path, paths>> /\ pc[t] = "send" /\ Leave(t)
  BY DEF SendGoal, motor
<1>3. \A s \in Thread : PastGate(s) => s = t
  BY <1>2 DEF DispatchInv, FrameKnows, PastGate
<1>4. /\ pc \in [Thread -> Step] /\ at[t] \in Place /\ goals \in Seq(Goal)
  BY DEF DispatchInv, Typed, TypeOK, Step
<1>5. FrameKnows'
  <2>1. \A s \in Thread : ~PastGate(s)'
    BY <1>2, <1>3, <1>4 DEF Leave, PastGate
  <2> QED
    BY <2>1 DEF FrameKnows
<1>6. \A i \in 1..Len(goals) : goals[i].seen = "result"
  BY <1>2, LockOpen
<1>7. NewestPath = at[t] /\ NewestPath' = NewestPath
  BY <1>2 DEF DispatchInv, FrameKnows, PastGate, NewestPath
<1>8. CASE goals' = goals
  BY <1>1, <1>2, <1>5, <1>7, <1>8 DEF DispatchInv, Progress, AtMostOne,
     Outstanding, PathFits
<1>9. CASE goals' = Append(goals, NewGoal(at[t]))
  <2>1. /\ Len(goals') = Len(goals) + 1 /\ goals'[Len(goals')] = NewGoal(at[t])
        /\ \A j \in 1..Len(goals) : goals'[j] = goals[j]
    BY <1>4, <1>9, GoalAppended
  <2>2. /\ NewGoal(at[t]).to = at[t] /\ NewGoal(at[t]).st = "sent"
        /\ NewGoal(at[t]).seen = "nothing"
    BY DEF NewGoal
  <2>3. Len(goals) \in Nat
    BY <1>4
  <2>4. \A i \in 1..Len(goals') : i # Len(goals') => i \in 1..Len(goals)
    BY <2>1, <2>3
  <2>5. Progress'
    <3> SUFFICES ASSUME NEW i \in 1..Len(goals')
                 PROVE  /\ goals'[i].st = "sent" => goals'[i].seen = "nothing"
                        /\ goals'[i].st = "executing" => goals'[i].seen # "result"
                        /\ goals'[i].seen = "response" => active' = i
      BY DEF Progress
    <3>1. CASE i = Len(goals')
      BY <2>1, <2>2, <3>1
    <3>2. CASE i # Len(goals')
      BY <1>2, <2>1, <2>4, <3>2 DEF DispatchInv, Progress
    <3> QED
      BY <3>1, <3>2
  <2>6. \A i \in 1..Len(goals') : i # Len(goals') => goals'[i].seen = "result"
    BY <1>6, <2>1, <2>4
  <2>7. AtMostOne'
    BY <2>6 DEF AtMostOne, Outstanding
  <2>8. PathFits'
    <3> SUFFICES ASSUME NEW i \in 1..Len(goals'), goals'[i].st = "sent"
                 PROVE  NewestPath' = goals'[i].to
      BY DEF PathFits
    <3>1. CASE i = Len(goals')
      BY <1>7, <2>1, <2>2, <3>1
    <3>2. CASE i # Len(goals')
      BY <1>7, <2>1, <2>4, <3>2 DEF DispatchInv, PathFits
    <3> QED
      BY <3>1, <3>2
  <2> QED
    BY <1>1, <1>5, <2>5, <2>7, <2>8 DEF DispatchInv
<1> QED
  BY <1>8, <1>9 DEF SendGoal

\* on_goal_response() and the result callback.
LEMMA ClientStep ==
    ASSUME DispatchInv, NEW i \in 1..Len(goals), OnGoalResponse(i) \/ OnResult(i)
    PROVE  /\ DispatchInv'
           /\ Len(goals') = Len(goals)
           /\ \A j \in 1..Len(goals) : j # i => goals'[j] = goals[j]
           /\ goals'[i].st = goals[i].st /\ goals'[i].to = goals[i].to
           /\ goals'[i].seen # "result" => goals[i].seen # "result"
<1>1. Typed' /\ Typed /\ goals \in Seq(Goal)
  BY ClientTyped DEF DispatchInv, Typed, TypeOK
<1>2. UNCHANGED <<pc, at, latest_path, paths>>
  BY DEF OnGoalResponse, OnResult, motor
<1>3. /\ Len(goals') = Len(goals)
      /\ \A j \in 1..Len(goals) : j # i => goals'[j] = goals[j]
      /\ goals'[i].st = goals[i].st /\ goals'[i].to = goals[i].to
      /\ OnGoalResponse(i) => goals'[i].seen = "response"
      /\ OnResult(i) => goals'[i].seen = "result"
  <2>1. CASE OnGoalResponse(i)
    <3>1. goals' = [goals EXCEPT ![i].seen = "response"]
      BY <2>1 DEF OnGoalResponse
    <3>2. goals[i].seen # "response"
      BY <2>1 DEF OnGoalResponse
    <3>3. ~OnResult(i)
      BY <3>2 DEF OnResult
    <3> QED
      BY <1>1, <3>1, <3>3, GoalSeen
  <2>2. CASE OnResult(i)
    <3>1. goals' = [goals EXCEPT ![i].seen = "result"]
      BY <2>2 DEF OnResult
    <3>2. ~OnGoalResponse(i)
      BY <2>2 DEF OnResult, OnGoalResponse
    <3> QED
      BY <1>1, <3>1, <3>2, GoalSeen
  <2> QED
    BY <2>1, <2>2
<1>4. i \in Outstanding
  BY DEF OnGoalResponse, OnResult, Outstanding
<1>5. \A j \in 1..Len(goals) : j # i => goals[j].seen = "result"
  BY <1>4 DEF DispatchInv, AtMostOne, Outstanding
<1>6. Progress'
  <2>1. goals[i].st # "sent" /\ (OnResult(i) => goals[i].st # "executing")
    BY DEF OnGoalResponse, OnResult
  <2>2. OnGoalResponse(i) => active' = i
    BY DEF OnGoalResponse
  <2>3. goals'[i].seen = "response" => OnGoalResponse(i)
    BY <1>3
  <2>4. goals'[i].seen = "result" => OnResult(i)
    BY <1>3
  <2> QED
    BY <1>3, <1>5, <2>1, <2>2, <2>3, <2>4 DEF DispatchInv, Progress
<1>7. FrameKnows'
  <2> SUFFICES ASSUME NEW t \in Thread, PastGate(t)
               PROVE  /\ \A j \in 1..Len(goals) : goals'[j].seen # "nothing"
                      /\ \A s \in Thread : PastGate(s) => s = t
                      /\ pc[t] = "send" => active' = 0 /\ NewestPath' = at[t]
    BY <1>2, <1>3 DEF FrameKnows, PastGate, Answered
  <2>1. \A j \in 1..Len(goals) : goals[j].seen # "nothing"
    BY DEF DispatchInv, FrameKnows, Answered
  <2>2. OnResult(i) /\ active' = 0
    BY <2>1 DEF OnGoalResponse, OnResult
  <2> QED
    BY <1>2, <1>3, <2>1, <2>2 DEF DispatchInv, FrameKnows, NewestPath
<1>8. AtMostOne'
  BY <1>3, <1>5 DEF AtMostOne, Outstanding
<1>9. PathFits'
  BY <1>2, <1>3 DEF DispatchInv, PathFits, NewestPath
<1>10. goals[i].seen # "result"
  BY <1>4 DEF Outstanding
<1> QED
  BY <1>1, <1>3, <1>6, <1>7, <1>8, <1>9, <1>10 DEF DispatchInv

\* on_path(): the newest path stays the newest one.
LEMMA OnPathStep ==
    ASSUME DispatchInv, OnPath
    PROVE  DispatchInv'
<1>1. Typed' /\ UNCHANGED <<pc, at, active, goals>>
  BY OnPathTyped DEF DispatchInv, OnPath, decision
<1>2. /\ paths \in Seq(Place) /\ paths # <<>> /\ latest_path' = Head(paths)
      /\ paths' = Tail(paths)
  BY DEF DispatchInv, Typed, TypeOK, OnPath
<1>3. NewestPath' = NewestPath
  <2>1. Len(paths) \in Nat /\ Len(paths) > 0 /\ Head(paths) = paths[1]
    BY <1>2
  <2>2. CASE Len(paths) = 1
    <3>1. paths' = <<>>
      BY <1>2, <2>2
    <3> QED
      BY <1>2, <2>1, <2>2, <3>1 DEF NewestPath
  <2>3. CASE Len(paths) # 1
    <3>1. /\ Len(paths') = Len(paths) - 1 /\ paths' # <<>>
          /\ paths'[Len(paths) - 1] = paths[Len(paths)]
      <4>1. Len(Tail(paths)) = Len(paths) - 1
        BY <1>2
      <4>2. \A k \in 1..(Len(paths) - 1) : Tail(paths)[k] = paths[k + 1]
        BY <1>2
      <4>3. Len(paths) - 1 \in 1..(Len(paths) - 1) /\ Len(paths) - 1 # 0
            /\ (Len(paths) - 1) + 1 = Len(paths)
        <5>1. ASSUME NEW n \in Nat, n > 0, n # 1
              PROVE  n - 1 \in 1..(n - 1) /\ n - 1 # 0 /\ (n - 1) + 1 = n
          BY <5>1
        <5> QED
          BY <2>1, <2>3, <5>1
      <4>4. Tail(paths)[Len(paths) - 1] = paths[Len(paths)]
        BY <4>2, <4>3
      <4> QED
        BY <1>2, <4>1, <4>3, <4>4
    <3> QED
      BY <1>2, <3>1 DEF NewestPath
  <2> QED
    BY <2>2, <2>3
<1> QED
  BY <1>1, <1>3 DEF DispatchInv, Progress, FrameKnows, PastGate, Answered, AtMostOne,
                    Outstanding, PathFits

\* The action server: a goal starts or ends.
LEMMA ServerStep ==
    ASSUME DispatchInv, NEW i \in 1..Len(goals), Execute(i) \/ Arrive(i) \/ Abort(i)
    PROVE  /\ DispatchInv'
           /\ Len(goals') = Len(goals)
           /\ \A j \in 1..Len(goals) : j # i => goals'[j] = goals[j]
           /\ goals'[i].to = goals[i].to
           /\ Execute(i) => goals'[i].st = "executing"
           /\ ~Execute(i) => goals'[i].st \in {"succeeded", "aborted"}
<1>1. Typed' /\ Typed /\ goals \in Seq(Goal)
  BY ExecuteTyped, EndTyped DEF DispatchInv, Typed, TypeOK
<1>2. UNCHANGED <<pc, at, active, latest_path, paths>>
  BY DEF Execute, Arrive, Abort, Ended, decision
<1>3. /\ Len(goals') = Len(goals)
      /\ \A j \in 1..Len(goals) : j # i => goals'[j] = goals[j]
      /\ goals'[i].to = goals[i].to /\ goals'[i].seen = goals[i].seen
      /\ Execute(i) => goals'[i].st = "executing"
      /\ ~Execute(i) => goals'[i].st \in {"succeeded", "aborted"}
  <2>1. PICK st \in Status : /\ goals' = [goals EXCEPT ![i].st = st]
                             /\ Execute(i) => st = "executing"
                             /\ ~Execute(i) => st \in {"succeeded", "aborted"}
    <3>1. CASE Execute(i)
      BY <3>1 DEF Execute, Status
    <3>2. CASE ~Execute(i)
      BY <3>2 DEF Arrive, Abort, Ended, Status
    <3> QED
      BY <3>1, <3>2
  <2> QED
    BY <1>1, <2>1, GoalStatus
<1>4. goals[i].st \in {"sent", "executing"}
  BY DEF Execute, Arrive, Abort, Executing
<1>5. goals[i].seen # "result"
  BY <1>4 DEF DispatchInv, Progress
<1>6. Progress'
  <2>1. goals'[i].st # "sent"
    BY <1>3
  <2> QED
    BY <1>2, <1>3, <1>5, <2>1 DEF DispatchInv, Progress
<1>7. \A j \in 1..Len(goals) : goals'[j].seen = goals[j].seen
  BY <1>3
<1>8. FrameKnows' /\ AtMostOne'
  BY <1>2, <1>3, <1>7 DEF DispatchInv, FrameKnows, PastGate, Answered, NewestPath, AtMostOne,
                          Outstanding
<1>9. PathFits'
  <2>1. goals'[i].st # "sent"
    BY <1>3
  <2> QED
    BY <1>2, <1>3, <2>1 DEF DispatchInv, PathFits, NewestPath
<1> QED
  BY <1>1, <1>3, <1>6, <1>8, <1>9 DEF DispatchInv

\* Every step that lets no frame pass a blind gate keeps the invariant.
LEMMA DispatchStep ==
    ASSUME DispatchInv, overlaps = 0, overlaps' = 0, [Next]_vars
    PROVE  DispatchInv'
<1>1. ASSUME NEW t \in Thread, Perceive(t) PROVE DispatchInv'
  BY <1>1, FrameStep, SendGoalStep DEF Perceive
<1>2. ASSUME NEW i \in 1..Len(goals), Drive(i, track) \/ Drive(i, Between)
      PROVE  DispatchInv'
  <2>1. Typed'
    BY <1>2, DriveTyped DEF DispatchInv
  <2>2. UNCHANGED <<goals, active, pc, at, paths, latest_path>>
    BY <1>2 DEF Drive, decision
  <2> QED
    BY <2>1, <2>2, DispatchKept
<1>3. ASSUME \/ OnGoalPoseEnds
             \/ \E g \in Place : OnGoalPose(g)
             \/ \E ready \in BOOLEAN : OnFusionHeartbeat(ready)
      PROVE  DispatchInv'
  <2>1. Typed'
    BY <1>3, TaskTyped, HeartbeatTyped DEF DispatchInv
  <2>2. UNCHANGED <<goals, active, pc, at, paths, latest_path>>
    BY <1>3 DEF OnGoalPose, OnGoalPoseEnds, OnFusionHeartbeat, decision, motor
  <2> QED
    BY <2>1, <2>2, DispatchKept
<1>4. CASE UNCHANGED vars
  <2>1. Typed' /\ UNCHANGED <<goals, active, pc, at, paths, latest_path>>
    BY <1>4, TypedStep DEF DispatchInv, vars, decision, motor
  <2> QED
    BY <2>1, DispatchKept
<1> QED
  BY <1>1, <1>2, <1>3, <1>4, ClientStep, OnPathStep, ServerStep DEF Next

\* A step of the action server or of the robot.
LEMMA DriveStep ==
    ASSUME DriveInv, overlaps = 0, overlaps' = 0, ~overtaken', [Next]_vars
    PROVE  DriveInv'
<1>1. DispatchInv /\ DispatchInv' /\ TrackFits /\ ReachedIsThere
  BY DispatchStep DEF DriveInv
<1>2. \A i \in 1..Len(goals) :
        goals[i].st = "executing" =>
          \A j \in 1..Len(goals) : j # i => goals[j].seen = "result"
  BY <1>1 DEF DispatchInv, Progress, AtMostOne, Outstanding
<1>3. ASSUME NEW i \in 1..Len(goals), OnGoalResponse(i) \/ OnResult(i)
      PROVE  DriveInv'
  <2>1. /\ Len(goals') = Len(goals)
        /\ \A j \in 1..Len(goals) : j # i => goals'[j] = goals[j]
        /\ goals'[i].st = goals[i].st /\ goals'[i].to = goals[i].to
        /\ goals'[i].seen # "result" => goals[i].seen # "result"
    BY <1>1, <1>3, ClientStep
  <2>2. UNCHANGED <<track, pose>>
    BY <1>3 DEF OnGoalResponse, OnResult, motor
  <2> QED
    BY <1>1, <2>1, <2>2 DEF DriveInv, TrackFits, Executing, ReachedIsThere
<1>4. ASSUME NEW i \in 1..Len(goals), Execute(i)
      PROVE  DriveInv'
  <2>1. /\ Len(goals') = Len(goals)
        /\ \A j \in 1..Len(goals) : j # i => goals'[j] = goals[j]
        /\ goals'[i].to = goals[i].to /\ goals'[i].st = "executing"
    BY <1>1, <1>4, ServerStep
  <2>2. pose' = pose /\ paths = <<>> /\ goals[i].st = "sent" /\ Executing = {}
    <3>1. pose' = pose /\ goals[i].st = "sent" /\ Executing = {}
      BY <1>4 DEF Execute
    <3>2. paths = <<>>
      BY <1>4, Zenon DEF Execute
    <3> QED
      BY <3>1, <3>2
  <2>3. track' = goals[i].to
    BY <1>1, <1>4, <2>2 DEF Execute, DispatchInv, PathFits, NewestPath
  <2>4. TrackFits'
    BY <2>1, <2>2, <2>3 DEF TrackFits, Executing
  <2> QED
    BY <1>1, <2>1, <2>2, <2>4 DEF DriveInv, ReachedIsThere
<1>5. ASSUME NEW i \in 1..Len(goals), Drive(i, track) \/ Drive(i, Between)
      PROVE  DriveInv'
  <2>1. UNCHANGED <<goals, track>> /\ goals[i].st = "executing"
    BY <1>5 DEF Drive, Executing
  <2>2. \A j \in 1..Len(goals) : goals[j].st = "succeeded" => goals[j].seen = "result"
    BY <1>2, <2>1
  <2> QED
    BY <1>1, <2>1, <2>2 DEF DriveInv, TrackFits, Executing, ReachedIsThere
<1>6. ASSUME NEW i \in 1..Len(goals), Arrive(i) \/ Abort(i)
      PROVE  DriveInv'
  <2>1. goals[i].st = "executing" /\ UNCHANGED <<track, pose>>
    BY <1>6 DEF Arrive, Abort, Ended, Executing
  <2>2. ~Execute(i)
    BY <2>1 DEF Execute
  <2>3. /\ Len(goals') = Len(goals)
        /\ \A j \in 1..Len(goals) : j # i => goals'[j] = goals[j]
        /\ goals'[i].to = goals[i].to /\ goals'[i].st \in {"succeeded", "aborted"}
    BY <1>1, <1>6, <2>2, ServerStep
  <2>4. TrackFits'
    BY <1>1, <2>1, <2>3 DEF TrackFits, Executing
  <2>5. goals'[i].st = "succeeded" => pose = goals[i].to
    <3>1. CASE Arrive(i)
      BY <1>1, <3>1 DEF Arrive, TrackFits
    <3>2. CASE Abort(i)
      <4>1. goals' = [goals EXCEPT ![i].st = "aborted"]
        BY <3>2 DEF Abort, Ended
      <4>2. PICK st \in Status : st = "aborted" /\ goals' = [goals EXCEPT ![i].st = st]
        BY <4>1 DEF Status
      <4>3. goals \in Seq(Goal)
        BY <1>1 DEF DispatchInv, Typed, TypeOK
      <4>4. goals'[i].st = st
        BY <4>2, <4>3, GoalStatus
      <4> QED
        BY <4>2, <4>4
    <3> QED
      BY <1>6, <3>1, <3>2
  <2> QED
    BY <1>1, <2>1, <2>3, <2>4, <2>5 DEF DriveInv, ReachedIsThere
<1>7. ASSUME \/ OnGoalPoseEnds \/ OnPath
             \/ \E g \in Place : OnGoalPose(g)
             \/ \E ready \in BOOLEAN : OnFusionHeartbeat(ready)
             \/ UNCHANGED vars
      PROVE  DriveInv'
  <2>1. UNCHANGED <<goals, track, pose>>
    BY <1>7 DEF OnGoalPose, OnGoalPoseEnds, OnFusionHeartbeat, OnPath, motor, vars
  <2> QED
    BY <1>1, <2>1, DriveKept
<1>8. ASSUME NEW t \in Thread, Perceive(t)
      PROVE  DriveInv'
  <2>1. UNCHANGED <<track, pose>>
    BY <1>8 DEF Perceive, ReadX, ReadY, CheckGate, Plan, SendGoal, motor
  <2>2. CASE goals' = goals
    BY <1>1, <2>1, <2>2, DriveKept
  <2>3. CASE goals' # goals
    <3>1. SendGoal(t)
      BY <1>8, <2>3 DEF Perceive, ReadX, ReadY, CheckGate, Plan
    <3>2. goals' = Append(goals, NewGoal(at[t]))
      BY <2>3, <3>1 DEF SendGoal
    <3>3. goals \in Seq(Goal) /\ at[t] \in Place
      BY <1>1 DEF DispatchInv, Typed, TypeOK
    <3>4. /\ Len(goals') = Len(goals) + 1 /\ goals'[Len(goals')] = NewGoal(at[t])
          /\ \A j \in 1..Len(goals) : goals'[j] = goals[j]
      BY <3>2, <3>3, GoalAppended
    <3>5. NewGoal(at[t]).st = "sent" /\ Len(goals) \in Nat
      BY <3>3 DEF NewGoal
    <3>6. \A j \in 1..Len(goals') :
            goals'[j].st # "sent" => j \in 1..Len(goals) /\ goals'[j] = goals[j]
      <4> SUFFICES ASSUME NEW j \in 1..Len(goals'), goals'[j].st # "sent"
                   PROVE  j \in 1..Len(goals) /\ goals'[j] = goals[j]
        OBVIOUS
      <4>1. j # Len(goals')
        BY <3>4, <3>5
      <4>2. j \in 1..Len(goals)
        BY <3>4, <3>5, <4>1
      <4> QED
        BY <3>4, <4>2
    <3> QED
      BY <1>1, <2>1, <3>6 DEF DriveInv, TrackFits, Executing, ReachedIsThere
  <2> QED
    BY <2>2, <2>3
<1> QED
  BY <1>3, <1>4, <1>5, <1>6, <1>7, <1>8 DEF Next

\* What happened stays on record.
LEMMA RecordKept ==
    ASSUME Typed, [Next]_vars
    PROVE  /\ overlaps' = 0 => overlaps = 0
           /\ ~overtaken' => ~overtaken
<1>1. overlaps \in Nat
  <2>1. overlaps \in 0..MaxOverlaps
    BY DEF Typed, TypeOK
  <2> QED
    BY <2>1
<1>2. overlaps' = overlaps \/ overlaps' = overlaps + 1
  BY DEF Next, vars, history, Perceive, OnGoalPose, OnGoalPoseEnds, OnFusionHeartbeat,
         ReadX, ReadY, CheckGate, Plan, SendGoal, OnPath, OnGoalResponse, OnResult, Execute,
         Drive, Arrive, Abort, Ended
<1>3. overtaken' = overtaken \/ \E i \in 1..Len(goals) : Execute(i)
  BY DEF Next, vars, history, Perceive, OnGoalPose, OnGoalPoseEnds, OnFusionHeartbeat,
         ReadX, ReadY, CheckGate, Plan, SendGoal, OnPath, OnGoalResponse, OnResult,
         Drive, Arrive, Abort, Ended
<1>4. ASSUME NEW i \in 1..Len(goals), Execute(i), overtaken
      PROVE  overtaken'
  BY <1>4, Zenon DEF Execute
<1> QED
  BY <1>1, <1>2, <1>3, <1>4

LEMMA InvariantInit == Init => Invariant
  BY DriveInit DEF Invariant, DriveInv, DispatchInv

LEMMA InvariantStep == Invariant /\ [Next]_vars => Invariant'
<1> SUFFICES ASSUME Invariant, [Next]_vars PROVE Invariant'
  OBVIOUS
<1>1. Typed /\ Typed'
  BY TypedStep DEF Invariant
<1>2. overlaps' = 0 => DispatchInv'
  BY <1>1, RecordKept, DispatchStep DEF Invariant
<1>3. overlaps' = 0 /\ ~overtaken' => DriveInv'
  BY <1>1, RecordKept, DriveStep DEF Invariant
<1> QED
  BY <1>1, <1>2, <1>3 DEF Invariant

(***************************************************************************)
(* Goal lock and gate together let one goal through at a time, with any    *)
(* number of threads in on_perception(): two goals are sent whose results  *)
(* are still to be handled only after a frame has passed the gate while    *)
(* another was past it or while the response to a goal was to come.        *)
(***************************************************************************)
THEOREM DispatchOneOutstanding == Spec => []OneOutstanding
<1>1. Invariant => OneOutstanding
  BY DEF Invariant, DispatchInv, AtMostOne, OneOutstanding
<1> QED
  BY <1>1, InvariantInit, InvariantStep, PTL DEF Spec

(***************************************************************************)
(* A goal is reported as reached only with the robot standing there, until *)
(* frames overlap as above or a goal overtakes a path: the path execute()  *)
(* copies is the one that was planned for its goal.                        *)
(***************************************************************************)
THEOREM DispatchSuccess == Spec => []SuccessMeansThere
<1>1. Invariant => SuccessMeansThere
  BY DEF Invariant, DriveInv, SuccessMeansThere
<1> QED
  BY <1>1, InvariantInit, InvariantStep, PTL DEF Spec
=============================================================================
