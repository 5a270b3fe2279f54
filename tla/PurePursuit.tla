------------------------------ MODULE PurePursuit ------------------------------
(***************************************************************************)
(* The path tracker of the control loop (pure_pursuit.hpp): which point of *)
(* the path is chased from where, and when the goal is reached.  progress  *)
(* is an index into the path and outlives a call.  Speeds are left to      *)
(* Motion: they are positive until the goal is reached, since both the     *)
(* limit of the turn and that of the remaining distance are.               *)
(***************************************************************************)
EXTENDS Integers, SequencesExt, FiniteSetsExt

CONSTANTS
    Lookahead,         \* Params::lookahead
    Tolerance,         \* goal_tolerance
    Distance(_, _),    \* dist2d()
    Step(_, _)         \* where a turn may take the robot on its way to a point

\* find_lookahead(), its first part: the nearest point, but never one behind
\* the progress made.
Nearest(path, progress, pose) ==
    CHOOSE i \in progress..Len(path) :
        /\ \A j \in progress..Len(path) : Distance(path[i], pose) <= Distance(path[j], pose)
        /\ \A j \in progress..(i - 1) : Distance(path[j], pose) > Distance(path[i], pose)

\* The way from the robot over the nearest point to point i.
Walked(path, pose, nearest, i) ==
    LET walked[j \in nearest..i] ==
            IF j = nearest THEN Distance(path[nearest], pose)
            ELSE walked[j - 1] + Distance(path[j - 1], path[j])
    IN  walked[i]

\* find_lookahead(): the first point the lookahead away, or the last.
FindLookahead(path, pose, nearest) ==
    LET far == {i \in (nearest + 1)..Len(path) : Walked(path, pose, nearest, i) >= Lookahead}
    IN  IF far = {} THEN Len(path) ELSE Min(far)

Reached(path, pose) == path = <<>> \/ Distance(path[Len(path)], pose) < Tolerance

\* track(): 0 for no motion, else the index of the point chased.
Track(path, progress, pose) ==
    IF Reached(path, pose) THEN [chased |-> 0, progress |-> progress]
    ELSE LET nearest == Nearest(path, progress, pose)
         IN  [chased |-> FindLookahead(path, pose, nearest), progress |-> nearest]

(***************************************************************************)
(* What a turn of execute() makes of path, progress and pose.  Speed is    *)
(* never zero before the goal is reached, so that the robot passes over a  *)
(* point it chases and stands on.  With odometry the next turn reads where *)
(* the base has got to, and path[0] is where it was; without, the place is *)
(* computed in this turn and path[0] is that place.                        *)
(***************************************************************************)
Turned(s, odometry) ==
    LET t == Track(s.path, s.progress, s.pose)
    IN  IF t.chased = 0 THEN {s}
        ELSE {[path |-> [s.path EXCEPT ![1] = IF odometry THEN s.pose ELSE p],
               progress |-> t.progress, pose |-> p] :
                  p \in Step(s.pose, s.path[t.chased])}

\* What a number of turns makes of it.
AfterTurns(path, start, turns, odometry) ==
    FoldLeft(LAMBDA states, n : UNION {Turned(s, odometry) : s \in states},
             {[path |-> path, progress |-> 1, pose |-> start]},
             [n \in 1..turns |-> n])
-----------------------------------------------------------------------------
(***************************************************************************)
(* A robot that moves towards the point it is given gets to the end of its *)
(* path within the given number of turns, wherever it starts, on a path    *)
(* that bends and comes back near itself, although every turn moves the    *)
(* head of the path along with it.                                         *)
(***************************************************************************)
FollowsToEnd(path, start, turns, odometry) ==
    \A s \in AfterTurns(path, start, turns, odometry) : Reached(s.path, s.pose)

(***************************************************************************)
(* Progress is never lost, and what is chased lies ahead of it; no point   *)
(* between is as far as the lookahead, so that no bend is cut short.       *)
(***************************************************************************)
ChasesAhead(path, progress, pose) ==
    LET t == Track(path, progress, pose)
    IN  t.chased # 0 =>
            /\ t.progress >= progress
            /\ t.chased > t.progress \/ t.progress = Len(path)
            /\ \A i \in (t.progress + 1)..(t.chased - 1) :
                  Walked(path, pose, t.progress, i) < Lookahead
=============================================================================
