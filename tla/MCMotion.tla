------------------------------- MODULE MCMotion -------------------------------
(***************************************************************************)
(* One beam ahead and one aside; distances in centimetres and the          *)
(* thresholds of the code: an obstacle to stop at, one to crawl before,    *)
(* one to slow down for, a free way, and no echo at all.                   *)
(***************************************************************************)
EXTENDS Motion, SequencesExt
mcAhead == {1}
mcScan == {<<>>, <<0, 0>>} \cup {<<front, 100>> : front \in {0, 25, 31, 55, 100}}
mcSpeed == {500}

\* Eight sectors, of which the goal's direction covers two or three; gaps of
\* three, and room for two of them.
Avoiding == INSTANCE VfhAvoidance WITH
    BinCount <- 8, MinGapBins <- 3, Passable <- 1, Active <- 5, FovHalf <- 2

ASSUME AvoidanceAssumption ==
    \A bins \in [Avoiding!Bin -> {1, 9}], goal \in Avoiding!Angle :
        /\ \A last \in Avoiding!Remembered :
              Avoiding!SteersFree(bins, goal, last)
        /\ \A next \in Avoiding!Angle : Avoiding!KeepsItsGap(bins, goal, next)

\* Paths of four and five cells of a grid, as A* makes them: no cell twice.
\* Distances are in hundredths of a cell; the lookahead is one and a half of
\* them, and the robot starts anywhere.
Place == (0..3) \X (0..2)
SquaredDistance(a, b) ==
    (a[1] - b[1]) * (a[1] - b[1]) + (a[2] - b[2]) * (a[2] - b[2])
Hundredths ==
    [s \in {SquaredDistance(a, b) : a \in Place, b \in Place} |->
        CHOOSE r \in 0..400 : r * r <= 10000 * s /\ 10000 * s < (r + 1) * (r + 1)]
mcDistance(a, b) == Hundredths[SquaredDistance(a, b)]
mcSign(n) == IF n < 0 THEN -1 ELSE IF n = 0 THEN 0 ELSE 1
mcStep(a, b) ==
    IF a = b THEN {c \in Place : SquaredDistance(a, c) \in {1, 2}}
    ELSE {<<a[1] + mcSign(b[1] - a[1]), a[2] + mcSign(b[2] - a[2])>>}
Longer(paths) ==
    UNION {{Append(p, c) : c \in {d \in Place \ ToSet(p) : SquaredDistance(p[Len(p)], d) <= 2}} :
              p \in paths}
FourCells == Longer(Longer(Longer({<<c>> : c \in Place})))

Tracking == INSTANCE PurePursuit WITH
    Lookahead <- 150, Tolerance <- 1, Distance <- mcDistance, Step <- mcStep

\* The head of the path that follows the robot is harmless where the base
\* reports its place.  Without odometry the robot may be led back over the
\* same points again and again: after 30 turns it is still under way.
ASSUME TrackingAssumption ==
    /\ \A path \in FourCells, progress \in 1..4, pose \in Place :
          Tracking!ChasesAhead(path, progress, pose)
    /\ \A path \in Longer(FourCells), start \in Place :
          Tracking!FollowsToEnd(path, start, 8, TRUE)
    /\ \E path \in Longer(FourCells) :
          ~Tracking!FollowsToEnd(path, path[1], 30, FALSE)
=============================================================================
