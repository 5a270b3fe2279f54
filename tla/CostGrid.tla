------------------------------- MODULE CostGrid -------------------------------
(***************************************************************************)
(* The cost field of the decision node as operators on a grid, which maps  *)
(* cells to costs: OccupancyGrid of astar_planner.hpp, GridUpdater and     *)
(* ScanToGrid.  Radii are given by their squares, in cells.                *)
(***************************************************************************)
EXTENDS Integers, FiniteSetsExt

CONSTANTS
    Width, Height,  \* of the grid, in cells
    InscribedSq,    \* GridUpdater: inscribed_radius
    InflationSq,    \* GridUpdater: inflation_radius
    Decay           \* the decayed cost between the two radii

FREE == 0
INSCRIBED == 253
LETHAL == 254

Cell == (0..(Width - 1)) \X (0..(Height - 1))
Grid == [Cell -> FREE..LETHAL]

ASSUME GridAssumption ==
    /\ Width \in Nat \ {0} /\ Height \in Nat \ {0}
    /\ InscribedSq \in Nat /\ InflationSq \in Nat /\ InscribedSq <= InflationSq
    /\ Decay \in 1..(INSCRIBED - 1)

AbsDiff(m, n) == IF m < n THEN n - m ELSE m - n
DistSq(a, b) == (a[1] - b[1]) * (a[1] - b[1]) + (a[2] - b[2]) * (a[2] - b[2])

\* is_traversable()
Traversable(g, c) == c \in Cell /\ g[c] < INSCRIBED

(***************************************************************************)
(* GridUpdater::inflate() of each obstacle: it is lethal, what is near it  *)
(* costs more.  As costs are only raised, the order does not matter.       *)
(***************************************************************************)
Inflate(g, obstacles) ==
    LET Within(c, sq) == \E o \in obstacles : DistSq(c, o) <= sq
    IN  [c \in Cell |->
            IF c \in obstacles THEN LETHAL
            ELSE IF Within(c, InscribedSq) THEN Max({g[c], INSCRIBED})
            ELSE IF Within(c, InflationSq) THEN Max({g[c], Decay})
            ELSE g[c]]

(***************************************************************************)
(* The cells bresenham() visits from a up to and without b.                *)
(***************************************************************************)
Ray(a, b) ==
    LET dx == AbsDiff(a[1], b[1])
        dy == AbsDiff(a[2], b[2])
        sx == IF a[1] < b[1] THEN 1 ELSE -1
        sy == IF a[2] < b[2] THEN 1 ELSE -1
        at[n \in 0..Max({dx, dy})] ==
            IF n = 0 THEN [x |-> a[1], y |-> a[2], err |-> dx - dy]
            ELSE LET p == at[n - 1]
                     right == 2 * p.err > -dy
                     up == 2 * p.err < dx
                 IN  [x |-> IF right THEN p.x + sx ELSE p.x,
                      y |-> IF up THEN p.y + sy ELSE p.y,
                      err |-> p.err - (IF right THEN dy ELSE 0) + (IF up THEN dx ELSE 0)]
    IN  {<<at[n].x, at[n].y>> : n \in 0..(Max({dx, dy}) - 1)}

\* Mutant: a ray clears whatever it crosses.
ClearedCompletely(cost) == FREE

\* set_free_if_not_lethal()
Cleared(cost) == IF cost < LETHAL THEN FREE ELSE cost

(***************************************************************************)
(* ScanToGrid::raytrace(): the echoes of a scan taken at `lidar`.  As no   *)
(* ray clears a lethal cell, the order of the rays does not matter.        *)
(***************************************************************************)
Raytrace(g, lidar, echoes) ==
    LET crossed == UNION {Ray(lidar, e) : e \in echoes}
    IN  [c \in Cell |->
            IF c \in echoes THEN LETHAL
            ELSE IF c \in crossed THEN Cleared(g[c])
            ELSE g[c]]
=============================================================================
