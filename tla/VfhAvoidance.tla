----------------------------- MODULE VfhAvoidance -----------------------------
(***************************************************************************)
(* The local avoidance between pure pursuit and the guard                  *)
(* (vfh_avoidance.hpp), as operators.  Angles are counted in half sectors  *)
(* from straight behind: 0..2*BinCount-1, BinCount is straight ahead, the  *)
(* odd ones are the middles of sectors.  A scan gives the nearest echo of  *)
(* every sector (build_histogram()); NoEcho is beyond every distance.      *)
(***************************************************************************)
EXTENDS Integers, FiniteSetsExt

CONSTANTS
    BinCount,    \* Params::bin_count
    MinGapBins,  \* min_gap_bins
    Passable,    \* passable_threshold: a sector is free beyond it
    Active,      \* active_range
    FovHalf      \* fov_half, in half sectors

Bin == 0..(BinCount - 1)
Angle == 0..(2 * BinCount - 1)
NoGap == -1      \* last_gap_center_ = inf

\* fabs(wrap(a - b))
Apart(a, b) ==
    LET d == (a - b) % (2 * BinCount)
    IN  Min({d, 2 * BinCount - d})

\* The sector of an angle; on the border of two, rounding decides.
BinsAt(a) ==
    IF a % 2 = 1 THEN {a \div 2} ELSE {a \div 2, (a \div 2 - 1) % BinCount}

Free(bins, b) == bins[b] > Passable

\* nearest_in_goal_fov() > active_range, with an echo in the sector's middle.
GoalClear(bins, goal) ==
    \A b \in Bin : Apart(2 * b + 1, goal) <= FovHalf => bins[b] > Active

\* Runs of free sectors, none of which goes on behind the robot's back.
Gaps(bins) ==
    {g \in Bin \X (1..BinCount) :
        LET end == g[1] + g[2]
        IN  /\ end <= BinCount /\ g[2] >= MinGapBins
            /\ \A b \in g[1]..(end - 1) : Free(bins, b)
            /\ g[1] > 0 => ~Free(bins, g[1] - 1)
            /\ end < BinCount => ~Free(bins, end)}

\* The direction taken for the centre of a run: half a sector to its left.
Center(gap) == (2 * gap[1] + gap[2] + 1) % (2 * BinCount)

\* What last_gap_center_ can hold.
Remembered ==
    {NoGap} \cup {Center(g) : g \in {h \in Bin \X (MinGapBins..BinCount) : h[1] + h[2] <= BinCount}}

\* best_gap_center(): the centres closest to the goal, of which one is taken.
BestCenters(bins, goal) ==
    LET centers == {Center(g) : g \in Gaps(bins)}
    IN  {c \in centers : \A d \in centers : Apart(c, goal) <= Apart(d, goal)}

\* gap_passable_at(), for the sector b the remembered angle falls in.
GapPassableAt(bins, b) ==
    \A off \in -1..1 : Free(bins, Max({0, Min({b + off, BinCount - 1})}))

\* steer(): what it may return, and what it remembers in last_gap_center_.
Steer(bins, goal, moving, last) ==
    LET best == BestCenters(bins, goal)
        kept == {b \in BinsAt(last) : GapPassableAt(bins, b)}
        lost == {b \in BinsAt(last) : ~GapPassableAt(bins, b)}
        towards(c) == [toward |-> c, blocked |-> FALSE, last |-> c]
    IN  IF ~moving \/ GoalClear(bins, goal)
        THEN {[toward |-> NoGap, blocked |-> FALSE, last |-> last]}
        ELSE IF best = {} THEN {[toward |-> NoGap, blocked |-> TRUE, last |-> NoGap]}
        ELSE (IF last # NoGap /\ kept # {} THEN {towards(last)} ELSE {})
                \cup (IF last = NoGap \/ lost # {} THEN {towards(c) : c \in best} ELSE {})
-----------------------------------------------------------------------------
(***************************************************************************)
(* Whatever is remembered, the robot is steered only into free sectors; it *)
(* is told to be surrounded only if no MinGapBins sectors side by side are *)
(* free, and left alone only if nothing is near in the goal's direction.   *)
(***************************************************************************)
SteersFree(bins, goal, last) ==
    \A r \in Steer(bins, goal, TRUE, last) :
        /\ r.toward # NoGap => \A b \in BinsAt(r.toward) : Free(bins, b)
        /\ r.blocked =>
              ~\E s \in 0..(BinCount - MinGapBins) :
                  \A b \in s..(s + MinGapBins - 1) : Free(bins, b)
        /\ r.toward = NoGap /\ ~r.blocked => GoalClear(bins, goal)

(***************************************************************************)
(* Once chosen, a gap of more than MinGapBins sectors is kept as long as   *)
(* the scan stays the same, wherever the goal moves.  (A gap of exactly    *)
(* MinGapBins may be dropped: its direction lies on the border of two      *)
(* sectors, and the neighbours of the farther one are not all free.)       *)
(***************************************************************************)
KeepsItsGap(bins, goal, next) ==
    \A r \in Steer(bins, goal, TRUE, NoGap) :
        (\E g \in Gaps(bins) : g[2] > MinGapBins /\ Center(g) = r.toward) =>
            \A s \in Steer(bins, next, TRUE, r.last) :
                s.toward \in {r.toward, NoGap} /\ s.last = r.last
=============================================================================
