-------------------------------- MODULE Motion --------------------------------
(***************************************************************************)
(* What moves the base.  Either the own stack is launched, motor_ctrl's    *)
(* execute() loop with its guard, error monitor and smoother, or NAV2 with *)
(* cmd_vel_guard_node behind it; both end in the base (scene_simulator,    *)
(* like a drive's firmware), which holds its last command for a while.     *)
(* Scans come on a thread of their own, at any time or not at all.         *)
(*                                                                         *)
(* Time is counted in control periods.  The loop runs once per period      *)
(* (rclcpp::Rate); `ran` says that it has.                                 *)
(***************************************************************************)
EXTENDS CollisionGuard, Sequences

CONSTANTS
    Scan,         \* the range vectors the scanner may send
    Speed,        \* the forward speeds the tracker or NAV2 may ask for
    MaxAccel,     \* VelocitySmoother: gain of speed per period
    MaxDecel,     \* VelocitySmoother: loss of speed per period
    CmdTimeout,   \* step_governed(): a command is dropped when older
    Crashes       \* may the node that commands the base end and come back?

ASSUME MotionAssumption ==
    /\ Scan \subseteq Seq(Nat)
    /\ Speed \subseteq Nat \ {0}
    /\ \E top \in Speed : \A v \in Speed : v <= top
    /\ MaxAccel \in Nat \ {0} /\ MaxDecel \in Nat \ {0}
    /\ CmdTimeout \in Nat /\ Crashes \in BOOLEAN

VARIABLES
    stack,     \* "own" or "nav2", fixed at launch
    guard,     \* the CollisionGuard of the node that runs
    phase,     \* motor_ctrl: "idle", "executing" or "gone"
    ran,       \* the control loop has run in this period
    last_cmd,  \* motor_ctrl: the twist published last
    base,      \* the twist the base received last
    cmd_age,   \* its age
    deserted,  \* history: 0, or one more than how long the sender is gone
    goal_age,  \* history: age of the goal under way
    held,      \* history: how long the output has been pressed below crawl
    unseen     \* history: how long the guard has had no scan to move by

own == <<phase, ran, last_cmd, goal_age, held>>
chassis == <<base, cmd_age, deserted>>
vars == <<stack, guard, own, chassis, unseen>>

Still == [linear |-> 0, angular |-> FALSE]

Init ==
    /\ stack \in {"own", "nav2"}
    /\ guard = InitialGuard
    /\ phase = "idle" /\ ran = FALSE
    /\ last_cmd = Still /\ base = Still
    /\ cmd_age = CmdTimeout + 1 /\ deserted = 0
    /\ goal_age = 0 /\ held = 0 /\ unseen = 0
-----------------------------------------------------------------------------
\* Something to move by, said of the scan alone.
Clear(ranges) ==
    /\ ranges # <<>>
    /\ \A i \in Ahead \cap DOMAIN ranges :
          ranges[i] # NoEcho => ranges[i] > StopDist
    /\ Cardinality({i \in DOMAIN ranges : ranges[i] # NoEcho}) >= MinValidEchoes

\* on_scan() of motor_ctrl, or the guard node's subscription.
OnScan(ranges) ==
    /\ phase # "gone"
    /\ guard' = SetScan(guard, ranges)
    /\ unseen' = IF Clear(ranges) THEN 0 ELSE unseen
    /\ UNCHANGED <<stack, own, chassis>>

\* The base's subscription to /cmd_vel.
Receive(twist) == base' = twist /\ cmd_age' = 0 /\ deserted' = 0

\* What the base drives at: step_governed().
Driven == IF cmd_age > CmdTimeout THEN 0 ELSE base.linear

\* Mutant: braking is limited like accelerating.
SmoothSymmetric(desired, last) ==
    IF desired > last THEN Min({desired, last + MaxAccel})
                      ELSE Max({desired, last - MaxAccel})

\* VelocitySmoother::smooth(), its linear part.
Smooth(desired, last) ==
    IF desired > last THEN Min({desired, last + MaxAccel})
                      ELSE Max({desired, last - MaxDecel})

\* Mutant: a stop goes through the smoother like any other command.
PublishTwistSmoothed(linear, angular) ==
    /\ last_cmd' = [linear |-> Smooth(linear, last_cmd.linear), angular |-> angular]
    /\ Receive(last_cmd')

(***************************************************************************)
(* publish_twist(): a stop is published at once, anything else smoothed;   *)
(* the smoother may leave some rotation when none is asked for.            *)
(***************************************************************************)
PublishTwist(linear, angular) ==
    /\ \/ linear = 0 /\ ~angular /\ last_cmd' = Still
       \/ /\ linear # 0 \/ angular
          /\ \E spin \in {angular, angular \/ last_cmd.angular} :
                last_cmd' = [linear |-> Smooth(linear, last_cmd.linear),
                             angular |-> spin]
    /\ Receive(last_cmd')

\* Mutant: a new goal inherits the hold of the goal before it.
ExecuteKeepsHold ==
    /\ stack = "own" /\ phase = "idle"
    /\ phase' = "executing" /\ ran' = FALSE
    /\ goal_age' = 0 /\ held' = 0
    /\ UNCHANGED <<stack, guard, last_cmd, chassis, unseen>>

\* execute() up to its loop.
Execute ==
    /\ stack = "own" /\ phase = "idle"
    /\ guard' = ClearHold(guard)
    /\ phase' = "executing" /\ ran' = FALSE
    /\ goal_age' = 0 /\ held' = 0
    /\ UNCHANGED <<stack, last_cmd, chassis, unseen>>

(***************************************************************************)
(* The ways out of the loop that report a result.  The one for a cancelled *)
(* goal is not taken: the action server shares execute()'s callback group, *)
(* so that a cancel request is looked at only when execute() has returned. *)
(***************************************************************************)
Leave ==
    /\ PublishTwist(0, FALSE)
    /\ phase' = "idle" /\ held' = 0 /\ ran' = TRUE
    /\ UNCHANGED <<stack, goal_age, unseen>>

\* Pure pursuit returns no motion: the goal is reached.
Arrive ==
    /\ phase = "executing" /\ ~ran
    /\ Leave
    /\ UNCHANGED guard

(***************************************************************************)
(* What tracking and VFH ask for: a speed, reduced to 0.7 while VFH turns, *)
(* or a turn on the spot.                                                  *)
(***************************************************************************)
Asked ==
    [linear : Speed, angular : BOOLEAN]
        \cup [linear : {(v * 7) \div 10 : v \in Speed}, angular : {TRUE}]
        \cup {[linear |-> 0, angular |-> TRUE]}

(***************************************************************************)
(* The process ends: rclcpp::ok() is false at the head of the loop, or it  *)
(* crashes.  Either way nothing more is published, not even a stop.        *)
(***************************************************************************)
Ends ==
    /\ stack = "own" /\ Crashes /\ phase # "gone"
    /\ phase' = "gone" /\ ran' = FALSE
    /\ goal_age' = 0 /\ held' = 0
    /\ guard' = InitialGuard /\ unseen' = 0 /\ last_cmd' = Still
    /\ deserted' = Max({deserted, 1})
    /\ UNCHANGED <<stack, base, cmd_age>>

\* The supervisor starts it again.
Respawns ==
    /\ phase = "gone"
    /\ phase' = "idle"
    /\ UNCHANGED <<stack, guard, ran, last_cmd, goal_age, held, chassis, unseen>>

\* The guard holds the robot back for too long: the goal is aborted.
Abort ==
    /\ phase = "executing" /\ ~ran
    /\ \E asked \in Asked : guard' = AfterClamp(guard, asked.linear)
    /\ BlockedFor(guard') > HoldLimit
    /\ Leave

(***************************************************************************)
(* TrackErrorMonitor::evaluate(): OK, a scaled speed (a half stands for    *)
(* the scales between), or ERROR, which stops robot and rotation.          *)
(***************************************************************************)
TrackErrorLevel == {"OK", "WARN", "ERROR"}

\* The twist the loop publishes for a clamped one.
Scaled(linear, angular, level) ==
    CASE level = "OK" -> [linear |-> linear, angular |-> angular]
      [] level = "WARN" -> [linear |-> linear \div 2, angular |-> angular]
      [] level = "ERROR" -> Still

\* One turn of the control loop that leaves the goal under way.
ControlStep ==
    /\ phase = "executing" /\ ~ran
    /\ \E asked \in Asked, level \in TrackErrorLevel :
          LET v == Clamped(guard, asked.linear)
              twist == Scaled(v, asked.angular, level)
          IN  /\ guard' = AfterClamp(guard, asked.linear)
              /\ BlockedFor(guard') <= HoldLimit
              /\ PublishTwist(twist.linear, twist.angular)
              /\ held' = IF Pressed(guard) /\ v < CrawlSpeed THEN held ELSE 0
    /\ ran' = TRUE
    /\ UNCHANGED <<stack, phase, goal_age, unseen>>
-----------------------------------------------------------------------------
(***************************************************************************)
(* on_cmd() of cmd_vel_guard_node: a command to reverse passes, the rest   *)
(* is clamped, and rotation goes with a forced stop.                       *)
(***************************************************************************)
OnCmd(in) ==
    /\ stack = "nav2"
    /\ IF in.linear < 0
       THEN guard' = guard /\ Receive(in)
       ELSE /\ guard' = AfterClamp(guard, in.linear)
            /\ Receive([linear |-> Clamped(guard, in.linear),
                        angular |-> in.angular /\ ~guard'.stop])
    /\ UNCHANGED <<stack, own, unseen>>

\* The guard's process crashes; launch respawns it with a new guard.
GuardRespawns ==
    /\ stack = "nav2" /\ Crashes
    /\ guard' = InitialGuard
    /\ unseen' = 0
    /\ UNCHANGED <<stack, own, chassis>>

HistoryCap == StaleTimeout + CmdTimeout + HoldLimit + 2
Later(t) == Min({t + 1, HistoryCap})

\* A control period passes; the loop has had its turn in it.
Elapse ==
    /\ phase = "executing" => ran
    /\ ran' = FALSE
    /\ guard' = Older(guard)
    /\ cmd_age' = Min({cmd_age + 1, CmdTimeout + 1})
    /\ deserted' = IF deserted = 0 THEN 0 ELSE Min({deserted + 1, CmdTimeout + 2})
    /\ goal_age' = IF phase = "executing" THEN Later(goal_age) ELSE 0
    /\ held' = IF phase = "executing" THEN Later(held) ELSE 0
    /\ unseen' = IF guard.recv = Never THEN 0 ELSE Later(unseen)
    /\ UNCHANGED <<stack, phase, last_cmd, base>>

Nav2Command == {[linear |-> v, angular |-> w] : v \in Speed \cup {0, -100}, w \in BOOLEAN}

Next ==
    \/ \E ranges \in Scan : OnScan(ranges)
    \/ Execute
    \/ Arrive
    \/ Abort
    \/ ControlStep
    \/ Ends
    \/ Respawns
    \/ \E in \in Nav2Command : OnCmd(in)
    \/ GuardRespawns
    \/ Elapse

Spec == Init /\ [][Next]_vars
-----------------------------------------------------------------------------
\* The base may still be driving at the command of a process that is gone.
Deserted == deserted \in 1..(CmdTimeout + 1)

(***************************************************************************)
(* Fail-safe: once a guard has had a scan, the base is driven forward only *)
(* as long as scans that show the way keep coming.  When they stop coming, *)
(* go blind or show an obstacle, the forward speed is gone after the stale *)
(* timeout and the time to brake or, if no more commands come either,      *)
(* after the base's own timeout.                                           *)
(***************************************************************************)
TopSpeed == Max(Speed)
StandsStill ==
    /\ /\ stack = "own" /\ unseen > StaleTimeout
       /\ phase = "executing" => ran
       /\ ~Deserted
       => Driven <= Max({0, TopSpeed - MaxDecel * (unseen - StaleTimeout)})
    /\ stack = "nav2" /\ unseen > StaleTimeout + CmdTimeout => Driven <= 0

(***************************************************************************)
(* A base that gains forward speed or keeps it does so on a scan that is   *)
(* fresh and shows no obstacle within the stopping distance, whichever     *)
(* stack drives it (before the first scan the guard lets everything pass). *)
(***************************************************************************)
NoAdvanceBlind ==
    [][/\ ControlStep \/ \E in \in Nav2Command : OnCmd(in)
       /\ base'.linear > 0 /\ base'.linear >= base.linear
       /\ guard.recv # Never
       => guard.recv <= StaleTimeout /\ Clear(guard.ranges)]_vars

(***************************************************************************)
(* Anti-deadlock: a goal under way is never held below crawl speed by an   *)
(* obstacle for longer than the limit, dithering at its edge included.     *)
(***************************************************************************)
HoldBounded == phase = "executing" => held <= HoldLimit + 1

(***************************************************************************)
(* Every goal has its own window: a goal is only failed after it has been  *)
(* under way for longer than the limit itself, so that aborting and        *)
(* dispatching again do not chase each other.                              *)
(***************************************************************************)
OwnWindow == [][Abort => goal_age > HoldLimit]_vars

(***************************************************************************)
(* The base is at rest, also in rotation, whenever no goal is under way:   *)
(* it would keep the last command, and the smoother alone would leave some *)
(* of it.  A process that ended in the middle of a goal leaves the base    *)
(* moving, but not for longer than the base's timeout, be motor_ctrl back  *)
(* or not.                                                                 *)
(***************************************************************************)
IdleMeansStill ==
    stack = "own" /\ phase # "executing" =>
        /\ last_cmd = Still
        /\ base = Still \/ deserted # 0
        /\ base = Still \/ Deserted \/ cmd_age > CmdTimeout
=============================================================================
