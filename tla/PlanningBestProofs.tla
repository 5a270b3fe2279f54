-------------------------- MODULE PlanningBestProofs --------------------------
(***************************************************************************)
(* That the search of Planning is optimal and complete, for grids of every *)
(* size.  The heuristic is consistent, so the queue never falls below the  *)
(* f of an expanded node, and every step from an expanded node is covered: *)
(* the cell it leads to has been expanded, or waits in the queue, for no   *)
(* more than the step costs.  Induction over the rounds of the reference   *)
(* then shows that no path is cheaper than the one found, and over the     *)
(* expanded nodes that the reference knows that path.                      *)
(***************************************************************************)
EXTENDS PlanningProofs, FiniteSetTheorems, WellFoundedInduction
-----------------------------------------------------------------------------
(***************************************************************************)
(* Induction over the naturals, for sets in place of predicates.           *)
(***************************************************************************)
LEMMA LeastNat ==
    ASSUME NEW T, T \subseteq Nat, T # {}
    PROVE  \E m \in T : \A k \in T : m <= k
<1> DEFINE R == OpToRel(<, Nat)
<1>1. IsWellFoundedOn(R, Nat)
  BY NatLessThanWellFounded
<1>2. \A x, y \in Nat : x < y => <<x, y>> \in R
  BY DEF OpToRel
<1> HIDE DEF R
<1>3. \E x \in T : \A y \in T : ~(<<y, x>> \in R)
  BY <1>1, WFMin
<1>4. PICK x \in T : \A y \in T : ~(<<y, x>> \in R)
  BY <1>3
<1>5. \A y \in T : ~(y < x)
  BY <1>2, <1>4
<1>6. \A y \in T : x <= y
  BY <1>5
<1> QED
  BY <1>6

LEMMA Induct ==
    ASSUME NEW S, 0 \in S, \A n \in Nat : n \in S => n + 1 \in S
    PROVE  Nat \subseteq S
<1> SUFFICES ASSUME Nat \ S # {} PROVE FALSE
  OBVIOUS
<1>1. PICK m \in Nat \ S : \A k \in Nat \ S : m <= k
  BY LeastNat
<1>2. m \in Nat /\ m # 0 /\ m - 1 \in Nat /\ m = (m - 1) + 1
  BY <1>1
<1>3. m - 1 \in S
  BY <1>1, <1>2
<1> QED
  BY <1>1, <1>2, <1>3

\* The least of a set of naturals, the least of two.
LEMMA MinNat ==
    ASSUME NEW T, T \subseteq Nat, T # {}
    PROVE  Min(T) \in T /\ \A k \in T : Min(T) <= k
<1>1. \E m \in T : \A k \in T : m <= k
  BY LeastNat
<1> QED
  BY <1>1 DEF Min

LEMMA MinIs ==
    ASSUME NEW a \in Nat, NEW b \in Nat
    PROVE  Min({a, b}) = IF a <= b THEN a ELSE b
<1>1. Min({a, b}) \in {a, b} /\ \A k \in {a, b} : Min({a, b}) <= k
  <2>1. {a, b} \subseteq Nat /\ {a, b} # {}
    OBVIOUS
  <2> HIDE DEF Min
  <2> QED
    BY <2>1, MinNat, Zenon
<1> QED
  BY <1>1

-----------------------------------------------------------------------------
(***************************************************************************)
(* Steps and the heuristic: it never overestimates by more than a step.    *)
(***************************************************************************)
LEMMA StepCostBounds ==
    ASSUME NEW g \in Grid, NEW c \in Cell, NEW d \in Cell, Traversable(g, d)
    PROVE  /\ StepCost(g, c, d) \in Nat
           /\ StepCost(g, c, d) >= IF DistSq(c, d) = 2 THEN 141 ELSE 100
           /\ StepCost(g, c, d) <= MaxStepCost
<1>1. g[d] \in Int /\ 0 <= g[d] /\ g[d] < 253
  BY DEF Grid, FREE, LETHAL, Traversable, INSCRIBED
<1>2. ASSUME NEW v \in Int, 0 <= v, v < 253
      PROVE  (100 * v) \div 253 \in 0..99
  BY <1>2
<1>3. (100 * g[d]) \div INSCRIBED \in 0..99
  BY <1>1, <1>2 DEF INSCRIBED
<1> QED
  BY <1>3 DEF StepCost, MaxStepCost

\* The heuristic by cases, in the distances of the two coordinates.
LEMMA HeuristicIs ==
    ASSUME NEW a \in Cell, NEW b \in Cell
    PROVE  \E dx, dy \in Nat :
              /\ dx = AbsDiff(a[1], b[1]) /\ dy = AbsDiff(a[2], b[2])
              /\ Heuristic(a, b) = IF dx <= dy THEN 41 * dx + 100 * dy
                                               ELSE 41 * dy + 100 * dx
<1> DEFINE dx == AbsDiff(a[1], b[1])
           dy == AbsDiff(a[2], b[2])
<1>1. dx \in Nat /\ dy \in Nat
  BY CellCoordinates, AbsDiffNat
<1>2. Heuristic(a, b) = 141 * Min({dx, dy}) + 100 * AbsDiff(dx, dy)
  BY DEF Heuristic
<1> HIDE DEF dx, dy
<1>3. Min({dx, dy}) = IF dx <= dy THEN dx ELSE dy
  BY <1>1, MinIs, Zenon
<1>4. AbsDiff(dx, dy) = IF dx < dy THEN dy - dx ELSE dx - dy
  BY DEF AbsDiff
<1>5. Heuristic(a, b) = IF dx <= dy THEN 41 * dx + 100 * dy ELSE 41 * dy + 100 * dx
  BY <1>1, <1>2, <1>3, <1>4
<1> QED
  BY <1>1, <1>5 DEF dx, dy

LEMMA HeuristicNat ==
    ASSUME NEW a \in Cell, NEW b \in Cell
    PROVE  Heuristic(a, b) \in Nat /\ Heuristic(a, a) = 0
<1>1. Heuristic(a, b) \in Nat
  BY HeuristicIs
<1>2. AbsDiff(a[1], a[1]) = 0 /\ AbsDiff(a[2], a[2]) = 0
  BY CellCoordinates DEF AbsDiff
<1> QED
  BY <1>1, <1>2, HeuristicIs

LEMMA Consistent ==
    ASSUME NEW g \in Grid, NEW c \in Cell, NEW d \in Moves(g, c), NEW b \in Cell
    PROVE  Heuristic(c, b) <= StepCost(g, c, d) + Heuristic(d, b)
<1>1. d \in Cell /\ Traversable(g, d) /\ Adjacent(c, d) /\ d # c
  <2>1. d # c
    BY DEF Moves
  <2> QED
    BY <2>1, MoveSound
<1>2. PICK cx, cy \in Nat : /\ cx = AbsDiff(c[1], b[1]) /\ cy = AbsDiff(c[2], b[2])
              /\ Heuristic(c, b) = IF cx <= cy THEN 41 * cx + 100 * cy
                                               ELSE 41 * cy + 100 * cx
  BY HeuristicIs
<1>3. PICK dx, dy \in Nat : /\ dx = AbsDiff(d[1], b[1]) /\ dy = AbsDiff(d[2], b[2])
              /\ Heuristic(d, b) = IF dx <= dy THEN 41 * dx + 100 * dy
                                               ELSE 41 * dy + 100 * dx
  BY <1>1, HeuristicIs
<1>4. /\ c[1] \in Nat /\ c[2] \in Nat /\ d[1] \in Nat /\ d[2] \in Nat
      /\ b[1] \in Nat /\ b[2] \in Nat
      /\ c[1] # d[1] \/ c[2] # d[2]
  BY <1>1, CellCoordinates
<1>5. /\ c[1] - d[1] \in -1..1 /\ c[2] - d[2] \in -1..1
  BY <1>1, <1>4 DEF Adjacent, AbsDiff
<1>6. cx - dx \in -1..1 /\ cy - dy \in -1..1
  <2>1. ASSUME NEW x \in Int, NEW y \in Int, NEW z \in Int, x - y \in -1..1
        PROVE  AbsDiff(x, z) - AbsDiff(y, z) \in -1..1
    BY <2>1 DEF AbsDiff
  <2>2. AbsDiff(c[1], b[1]) - AbsDiff(d[1], b[1]) \in -1..1
    BY <1>4, <1>5, <2>1
  <2>3. AbsDiff(c[2], b[2]) - AbsDiff(d[2], b[2]) \in -1..1
    BY <1>4, <1>5, <2>1
  <2> QED
    BY <1>2, <1>3, <2>2, <2>3
<1>7. /\ StepCost(g, c, d) \in Nat
      /\ StepCost(g, c, d) >= IF DistSq(c, d) = 2 THEN 141 ELSE 100
  BY <1>1, StepCostBounds
<1>8. CASE c[1] # d[1] /\ c[2] # d[2]
  <2>1. DistSq(c, d) = 2
    <3>1. ASSUME NEW x \in Int, NEW y \in Int, x \in {-1, 1}, y \in {-1, 1}
          PROVE  x * x + y * y = 2
      BY <3>1
    <3>2. c[1] - d[1] \in {-1, 1} /\ c[2] - d[2] \in {-1, 1}
      BY <1>4, <1>5, <1>8
    <3> QED
      BY <1>4, <3>1, <3>2 DEF DistSq
  <2>2. StepCost(g, c, d) >= 141
    BY <1>7, <2>1
  <2> QED
    BY <1>2, <1>3, <1>6, <1>7, <2>2
<1>9. CASE c[1] = d[1] \/ c[2] = d[2]
  <2>1. cx = dx \/ cy = dy
    BY <1>2, <1>3, <1>9
  <2>2. StepCost(g, c, d) >= 100
    BY <1>7
  <2> QED
    BY <1>2, <1>3, <1>6, <1>7, <2>1, <2>2
<1> QED
  BY <1>8, <1>9

\* A move can be taken back.
LEMMA MoveBack ==
    ASSUME NEW g, NEW c \in Cell, Traversable(g, c), NEW d \in Moves(g, c)
    PROVE  c \in Moves(g, d)
<1>1. /\ d \in Cell /\ d # c /\ DistSq(c, d) <= 2
      /\ Traversable(g, <<d[1], c[2]>>) /\ Traversable(g, <<c[1], d[2]>>)
  BY DEF Moves
<1>2. c[1] \in Nat /\ c[2] \in Nat /\ d[1] \in Nat /\ d[2] \in Nat
  BY <1>1, CellCoordinates
<1>3. DistSq(d, c) = DistSq(c, d)
  <2>1. ASSUME NEW x \in Int, NEW y \in Int
        PROVE  (x - y) * (x - y) = (y - x) * (y - x)
    BY <2>1
  <2> QED
    BY <1>2, <2>1 DEF DistSq
<1> QED
  BY <1>1, <1>3 DEF Moves

-----------------------------------------------------------------------------
(***************************************************************************)
(* The reference.  Costs is defined by recursion, so that first there has  *)
(* to be such a function.                                                  *)
(***************************************************************************)
AtFirst(a) == [c \in Cell |-> IF c = a THEN 0 ELSE Infinite]

Recursion(g, a, n, costs) ==
    costs = [i \in 0..n |-> IF i = 0 THEN AtFirst(a) ELSE Relaxed(g, costs[i - 1])]

LEMMA CellsFinite == IsFiniteSet(Cell) /\ Cardinality(Cell) \in Nat \ {0}
<1>1. IsFiniteSet(0..(Width - 1)) /\ IsFiniteSet(0..(Height - 1))
  BY GridAssumption, FS_Interval
<1>2. IsFiniteSet(Cell)
  BY <1>1, FS_Product DEF Cell
<1>3. Cardinality(Cell) \in Nat
  BY <1>2, FS_CardinalityType
<1>4. Start \in Cell
  BY PlanningAssumption
<1> QED
  BY <1>2, <1>3, <1>4, FS_EmptySet

LEMMA InfiniteNat == Infinite \in Nat /\ Infinite >= 241
  BY CellsFinite DEF Infinite, MaxStepCost

LEMMA RecursionExists ==
    ASSUME NEW g, NEW a
    PROVE  \A n \in Nat : \E costs : Recursion(g, a, n, costs)
<1> DEFINE S == {n \in Nat : \E costs : Recursion(g, a, n, costs)}
<1>1. 0 \in S
  <2>1. Recursion(g, a, 0, [i \in 0..0 |-> AtFirst(a)])
    BY DEF Recursion
  <2> QED
    BY <2>1
<1>2. ASSUME NEW n \in Nat, n \in S PROVE n + 1 \in S
  <2>1. PICK costs : Recursion(g, a, n, costs)
    BY <1>2
  <2> DEFINE more == [i \in 0..(n + 1) |->
                          IF i = n + 1 THEN Relaxed(g, costs[n]) ELSE costs[i]]
  <2>2. ASSUME NEW i \in 0..(n + 1)
        PROVE  more[i] = IF i = 0 THEN AtFirst(a) ELSE Relaxed(g, more[i - 1])
    BY <2>1 DEF Recursion
  <2>3. Recursion(g, a, n + 1, more)
    BY <2>2 DEF Recursion
  <2> QED
    BY <2>3
<1> HIDE DEF S
<1>3. Nat \subseteq S
  BY <1>1, <1>2, Induct
<1> QED
  BY <1>3 DEF S

LEMMA CostsRecursion ==
    ASSUME NEW g, NEW a
    PROVE  Recursion(g, a, Cardinality(Cell), Costs(g, a))
<1>1. \E costs : Recursion(g, a, Cardinality(Cell), costs)
  BY RecursionExists, CellsFinite
<1> QED
  BY <1>1 DEF Recursion, Costs, AtFirst

LEMMA RelaxedIs ==
    ASSUME NEW g, NEW dist
    PROVE  /\ Relaxed(g, dist) = [c \in Cell |-> Relaxed(g, dist)[c]]
           /\ \A c \in Cell : Relaxed(g, dist)[c] =
                 IF ~Traversable(g, c) THEN Infinite
                 ELSE Min({dist[c]} \cup {dist[b] + StepCost(g, b, c) : b \in Moves(g, c)})
<1> DEFINE relaxed == [c \in Cell |->
            IF ~Traversable(g, c) THEN Infinite
            ELSE Min({dist[c]} \cup {dist[b] + StepCost(g, b, c) : b \in Moves(g, c)})]
<1>1. Relaxed(g, dist) = relaxed
  BY DEF Relaxed
<1> QED
  BY <1>1

LEMMA RelaxedBounds ==
    ASSUME NEW g \in Grid, NEW dist, \A c \in Cell : dist[c] \in Nat,
           NEW c \in Cell, Traversable(g, c)
    PROVE  /\ Relaxed(g, dist)[c] \in Nat /\ Relaxed(g, dist)[c] <= dist[c]
           /\ \A b \in Moves(g, c) : Relaxed(g, dist)[c] <= dist[b] + StepCost(g, b, c)
           /\ \/ Relaxed(g, dist)[c] = dist[c]
              \/ \E b \in Moves(g, c) : Relaxed(g, dist)[c] = dist[b] + StepCost(g, b, c)
<1> DEFINE ways == {dist[b] + StepCost(g, b, c) : b \in Moves(g, c)}
           all == {dist[c]} \cup ways
<1>1. ASSUME NEW b \in Moves(g, c) PROVE dist[b] + StepCost(g, b, c) \in Nat
  <2>1. b \in Cell
    BY DEF Moves
  <2>2. StepCost(g, b, c) \in Nat
    BY <2>1, StepCostBounds
  <2> QED
    BY <2>1, <2>2
<1>2. all \subseteq Nat /\ all # {} /\ dist[c] \in all
  BY <1>1
<1>3. Relaxed(g, dist)[c] = Min(all)
  BY RelaxedIs
<1>4. \A v \in all : v = dist[c] \/ \E b \in Moves(g, c) : v = dist[b] + StepCost(g, b, c)
  OBVIOUS
<1>5. \A b \in Moves(g, c) : dist[b] + StepCost(g, b, c) \in all
  OBVIOUS
<1> HIDE DEF all
<1>6. Min(all) \in all /\ \A k \in all : Min(all) <= k
  BY <1>2, MinNat, Zenon
<1> QED
  BY <1>2, <1>3, <1>4, <1>5, <1>6

(***************************************************************************)
(* The rounds of the reference, from the first one on.                     *)
(***************************************************************************)
Rounds == Cardinality(Cell)

LEMMA CostsRounds ==
    ASSUME NEW g, NEW a
    PROVE  /\ \A c \in Cell : Costs(g, a)[0][c] = IF c = a THEN 0 ELSE Infinite
           /\ \A n \in Nat : n + 1 <= Rounds =>
                 Costs(g, a)[n + 1] = Relaxed(g, Costs(g, a)[n])
<1> DEFINE costs == Costs(g, a)
<1>1. Recursion(g, a, Rounds, costs) /\ Rounds \in Nat
  BY CostsRecursion, CellsFinite DEF Rounds
<1> HIDE DEF costs
<1>2. \A i \in 0..Rounds : costs[i] = IF i = 0 THEN AtFirst(a) ELSE Relaxed(g, costs[i - 1])
  BY <1>1 DEF Recursion
<1>3. costs[0] = AtFirst(a)
  BY <1>1, <1>2
<1>4. ASSUME NEW n \in Nat, n + 1 <= Rounds PROVE costs[n + 1] = Relaxed(g, costs[n])
  <2>1. n + 1 \in 0..Rounds /\ n + 1 # 0 /\ (n + 1) - 1 = n
    BY <1>1, <1>4
  <2> QED
    BY <1>2, <2>1
<1> QED
  BY <1>3, <1>4 DEF costs, AtFirst

LEMMA CostsNat ==
    ASSUME NEW g \in Grid, NEW a
    PROVE  \A n \in 0..Rounds : \A c \in Cell : Costs(g, a)[n][c] \in Nat
<1> DEFINE costs == Costs(g, a)
           S == {n \in Nat : n <= Rounds => \A c \in Cell : costs[n][c] \in Nat}
<1>1. Rounds \in Nat
  BY CellsFinite DEF Rounds
<1>2. 0 \in S
  BY CostsRounds, InfiniteNat
<1>3. ASSUME NEW n \in Nat, n \in S PROVE n + 1 \in S
  <2> SUFFICES ASSUME n + 1 <= Rounds, NEW c \in Cell
               PROVE  costs[n + 1][c] \in Nat
    OBVIOUS
  <2>1. \A d \in Cell : costs[n][d] \in Nat
    BY <1>1, <1>3
  <2>2. costs[n + 1] = Relaxed(g, costs[n])
    BY CostsRounds
  <2> HIDE DEF costs
  <2>3. CASE Traversable(g, c)
    BY <2>1, <2>2, <2>3, RelaxedBounds
  <2>4. CASE ~Traversable(g, c)
    BY <2>2, <2>4, RelaxedIs, InfiniteNat
  <2> QED
    BY <2>3, <2>4
<1> HIDE DEF S
<1>4. Nat \subseteq S
  BY <1>2, <1>3, Induct
<1> QED
  BY <1>1, <1>4 DEF S

-----------------------------------------------------------------------------
(***************************************************************************)
(* The search as a set of facts about the expanded nodes and the queue.    *)
(***************************************************************************)
\* A node's price is that of the way to it, a step more than its parent's.
Priced(g, b, nodes, n) ==
    /\ n.g \in Nat /\ n.f = n.g + Heuristic(n.cell, b) /\ n.g <= MaxStepCost * n.parent
    /\ IF n.parent = 0 THEN n.g = 0
       ELSE n.g = nodes[n.parent].g + StepCost(g, nodes[n.parent].cell, n.cell)

\* A cell is expanded for that price or waits in the queue for it.
Covered(nodes, queue, c, price) ==
    \/ \E j \in DOMAIN nodes : nodes[j].cell = c /\ nodes[j].g <= price
    \/ /\ \A j \in DOMAIN nodes : nodes[j].cell # c
       /\ \E n \in queue : n.cell = c /\ n.g <= price

Guided(g, a, b, nodes, queue) ==
    /\ \A i \in DOMAIN nodes : Priced(g, b, nodes, nodes[i])
    /\ \A n \in queue : Priced(g, b, nodes, n)
    /\ \A i \in DOMAIN nodes, n \in queue : nodes[i].f <= n.f
    /\ Covered(nodes, queue, a, 0)
    /\ \A i \in DOMAIN nodes : nodes[i].cell # b =>
          \A d \in Moves(g, nodes[i].cell) :
              Covered(nodes, queue, d, nodes[i].g + StepCost(g, nodes[i].cell, d))

(***************************************************************************)
(* What was found costs no more than any path: a cell that could be part   *)
(* of a cheaper one has been expanded for what the reference says of it.   *)
(***************************************************************************)
LEMMA NoneCheaper ==
    ASSUME NEW g \in Grid, NEW a \in Cell, NEW b \in Cell,
           NEW nodes \in Seq(Node), NEW queue \in SUBSET Node,
           Tree(g, a, nodes), Guided(g, a, b, nodes, queue),
           NEW l \in DOMAIN nodes, nodes[l].cell = b, nodes[l].g <= Infinite
    PROVE  nodes[l].g <= Costs(g, a)[Rounds][b]
<1> DEFINE costs == Costs(g, a)
           best == nodes[l].g
           Known(c, price) == \E j \in DOMAIN nodes : nodes[j].cell = c /\ nodes[j].g <= price
           S == {n \in Nat : n <= Rounds => \A c \in Cell :
                    costs[n][c] + Heuristic(c, b) < best => Known(c, costs[n][c])}
<1>1. Rounds \in Nat /\ Infinite \in Nat
  BY CellsFinite, InfiniteNat DEF Rounds
<1>2. best \in Nat /\ nodes[l].f = best
  <2>1. Priced(g, b, nodes, nodes[l])
    BY DEF Guided
  <2>2. Heuristic(b, b) = 0
    BY HeuristicNat
  <2> QED
    BY <2>1, <2>2 DEF Priced
<1>3. ASSUME NEW c \in Cell, NEW price \in Nat, price + Heuristic(c, b) < best,
             Covered(nodes, queue, c, price)
      PROVE  Known(c, price)
  <2> SUFFICES ASSUME NEW n \in queue, n.cell = c, n.g <= price
               PROVE  FALSE
    BY <1>3 DEF Covered
  <2>1. Priced(g, b, nodes, n) /\ nodes[l].f <= n.f
    BY DEF Guided
  <2>2. n.g \in Nat /\ n.f = n.g + Heuristic(c, b) /\ Heuristic(c, b) \in Nat
    BY <2>1, HeuristicNat DEF Priced
  <2> QED
    BY <1>2, <1>3, <2>1, <2>2
<1>4. \A n \in 0..Rounds : \A c \in Cell : costs[n][c] \in Nat
  BY CostsNat
<1>5. /\ \A c \in Cell : costs[0][c] = IF c = a THEN 0 ELSE Infinite
      /\ \A n \in Nat : n + 1 <= Rounds => costs[n + 1] = Relaxed(g, costs[n])
  BY CostsRounds
<1> HIDE DEF costs
<1>6. 0 \in S
  <2> SUFFICES ASSUME NEW c \in Cell, costs[0][c] + Heuristic(c, b) < best
               PROVE  Known(c, costs[0][c])
    OBVIOUS
  <2>1. Heuristic(c, b) \in Nat
    BY HeuristicNat
  <2>2. c = a /\ costs[0][c] = 0
    BY <1>1, <1>2, <1>5, <2>1
  <2>3. Covered(nodes, queue, c, 0)
    BY <2>2 DEF Guided
  <2> HIDE DEF Known
  <2> QED
    BY <1>3, <2>2, <2>3
<1>7. ASSUME NEW n \in Nat, n \in S PROVE n + 1 \in S
  <2> SUFFICES ASSUME n + 1 <= Rounds, NEW c \in Cell,
                      costs[n + 1][c] + Heuristic(c, b) < best
               PROVE  Known(c, costs[n + 1][c])
    OBVIOUS
  <2>1. \A d \in Cell : costs[n][d] + Heuristic(d, b) < best => Known(d, costs[n][d])
    BY <1>1, <1>7
  <2>2. \A d \in Cell : costs[n][d] \in Nat
    BY <1>1, <1>4
  <2>3. costs[n + 1] = Relaxed(g, costs[n])
    BY <1>5
  <2>4. Heuristic(c, b) \in Nat /\ costs[n + 1][c] \in Nat
    BY <1>1, <1>4, HeuristicNat
  <2> HIDE DEF Known, S, best
  <2>5. Traversable(g, c)
    <3> SUFFICES ASSUME ~Traversable(g, c) PROVE FALSE
      OBVIOUS
    <3>1. costs[n + 1][c] = Infinite
      BY <2>3, RelaxedIs
    <3>2. best <= Infinite
      BY DEF best
    <3> QED
      BY <1>1, <1>2, <2>4, <3>1, <3>2
  <2>6. CASE costs[n + 1][c] = costs[n][c]
    BY <2>1, <2>6
  <2>7. ASSUME NEW d \in Moves(g, c), costs[n + 1][c] = costs[n][d] + StepCost(g, d, c)
        PROVE  Known(c, costs[n + 1][c])
    <3>1. d \in Cell /\ Traversable(g, d)
      BY DEF Moves
    <3>2. c \in Moves(g, d)
      BY <2>5, MoveBack
    <3>3. Heuristic(d, b) <= StepCost(g, d, c) + Heuristic(c, b)
      BY <3>1, <3>2, Consistent
    <3>4. StepCost(g, d, c) \in Nat /\ Heuristic(d, b) \in Nat /\ costs[n][d] \in Nat
      BY <2>2, <2>5, <3>1, StepCostBounds, HeuristicNat
    <3>5. costs[n][d] + Heuristic(d, b) < best
      <4>1. ASSUME NEW v \in Nat, NEW u \in Nat, NEW step \in Nat, NEW hd \in Nat,
                   NEW hc \in Nat, NEW limit \in Nat,
                   v = u + step, v + hc < limit, hd <= step + hc
            PROVE  u + hd < limit
        BY <4>1
      <4>2. best \in Nat
        BY <1>2
      <4> QED
        BY <2>4, <2>7, <3>3, <3>4, <4>1, <4>2
    <3>6. PICK j \in DOMAIN nodes : nodes[j].cell = d /\ nodes[j].g <= costs[n][d]
      BY <2>1, <3>1, <3>5 DEF Known
    <3>7. nodes[j].g \in Nat
      BY DEF Guided, Priced
    <3>8. d # b
      <4> SUFFICES ASSUME d = b PROVE FALSE
        OBVIOUS
      <4>1. j = l
        BY <3>6 DEF Tree
      <4> QED
        BY <1>2, <3>4, <3>5, <3>6, <4>1 DEF best
    <3>9. Covered(nodes, queue, c, nodes[j].g + StepCost(g, d, c))
      BY <3>2, <3>6, <3>8 DEF Guided
    <3>10. /\ nodes[j].g + StepCost(g, d, c) \in Nat
           /\ nodes[j].g + StepCost(g, d, c) <= costs[n + 1][c]
           /\ nodes[j].g + StepCost(g, d, c) + Heuristic(c, b) < best
      <4>1. ASSUME NEW v \in Nat, NEW u \in Nat, NEW step \in Nat, NEW p \in Nat,
                   NEW hc \in Nat, NEW limit \in Nat,
                   v = u + step, v + hc < limit, p <= u
            PROVE  p + step \in Nat /\ p + step <= v /\ p + step + hc < limit
        BY <4>1
      <4> DEFINE v == costs[n + 1][c]
                 u == costs[n][d]
                 step == StepCost(g, d, c)
                 p == nodes[j].g
                 hc == Heuristic(c, b)
      <4>2. /\ v \in Nat /\ u \in Nat /\ step \in Nat /\ p \in Nat /\ hc \in Nat
            /\ best \in Nat /\ v = u + step /\ v + hc < best /\ p <= u
        BY <1>2, <2>4, <2>7, <3>4, <3>6, <3>7
      <4> HIDE DEF v, u, step, p, hc
      <4>3. p + step \in Nat /\ p + step <= v /\ p + step + hc < best
        BY <4>1, <4>2
      <4> QED
        BY <4>3 DEF v, u, step, p, hc
    <3>11. Known(c, nodes[j].g + StepCost(g, d, c))
      BY <1>3, <3>9, <3>10
    <3>12. PICK k \in DOMAIN nodes :
              nodes[k].cell = c /\ nodes[k].g <= nodes[j].g + StepCost(g, d, c)
      BY <3>11 DEF Known
    <3>13. nodes[k].g \in Nat
      BY DEF Guided, Priced
    <3>14. nodes[k].g <= costs[n + 1][c]
      BY <2>4, <3>10, <3>12, <3>13
    <3> QED
      BY <3>12, <3>14 DEF Known
  <2> QED
    BY <2>2, <2>3, <2>5, <2>6, <2>7, RelaxedBounds
<1> HIDE DEF S
<1>8. Nat \subseteq S
  BY <1>6, <1>7, Induct
<1>9. costs[Rounds][b] + Heuristic(b, b) < best => Known(b, costs[Rounds][b])
  BY <1>1, <1>8 DEF S
<1>10. Heuristic(b, b) = 0 /\ costs[Rounds][b] \in Nat
  BY <1>1, <1>4, HeuristicNat
<1>11. Known(b, costs[Rounds][b]) => best <= costs[Rounds][b]
  BY DEF Tree
<1> HIDE DEF Known
<1> QED
  BY <1>2, <1>9, <1>10, <1>11 DEF costs

(***************************************************************************)
(* It costs no less either: round k of the reference knows the first k + 1 *)
(* expanded nodes.                                                         *)
(***************************************************************************)
LEMMA NodesTyped ==
    ASSUME NEW nodes \in Seq(Node)
    PROVE  /\ DOMAIN nodes = 1..Len(nodes) /\ Len(nodes) \in Nat
           /\ \A i \in DOMAIN nodes : /\ nodes[i] \in Node
                                      /\ nodes[i].cell \in Cell /\ nodes[i].parent \in Nat
<1>1. \A n \in Node : n.cell \in Cell /\ n.parent \in Nat
  BY DEF Node
<1>2. /\ DOMAIN nodes = 1..Len(nodes) /\ Len(nodes) \in Nat
      /\ \A i \in DOMAIN nodes : nodes[i] \in Node
  OBVIOUS
<1> QED
  BY <1>1, <1>2

LEMMA TreeFits ==
    ASSUME NEW g, NEW a, NEW nodes \in Seq(Node), Tree(g, a, nodes)
    PROVE  Len(nodes) <= Rounds
<1> DEFINE f == [i \in 1..Len(nodes) |-> nodes[i].cell]
<1>1. /\ DOMAIN nodes = 1..Len(nodes) /\ Len(nodes) \in Nat
      /\ \A i \in DOMAIN nodes : nodes[i].cell \in Cell
  BY NodesTyped
<1>2. f \in [1..Len(nodes) -> Cell]
  BY <1>1
<1>3. \A i, j \in 1..Len(nodes) : f[i] = f[j] => i = j
  BY <1>1 DEF Tree
<1>4. f \in Injection(1..Len(nodes), Cell)
  BY <1>2, <1>3 DEF Injection, IsInjective
<1>5. Cardinality(1..Len(nodes)) <= Cardinality(Cell)
  BY <1>4, CellsFinite, FS_Injection
<1> QED
  BY <1>1, <1>5, FS_Interval DEF Rounds

LEMMA TreeSpares ==
    ASSUME NEW g, NEW a, NEW nodes \in Seq(Node), Tree(g, a, nodes),
           NEW b \in Cell, \A i \in DOMAIN nodes : nodes[i].cell # b
    PROVE  Len(nodes) < Rounds
<1> DEFINE f == [i \in 1..Len(nodes) |-> nodes[i].cell]
           others == Cell \ {b}
<1>1. /\ DOMAIN nodes = 1..Len(nodes) /\ Len(nodes) \in Nat
      /\ \A i \in DOMAIN nodes : nodes[i].cell \in others
  BY NodesTyped
<1>2. IsFiniteSet(others) /\ Cardinality(others) = Rounds - 1
  BY CellsFinite, FS_RemoveElement DEF Rounds
<1> HIDE DEF others
<1>3. f \in [1..Len(nodes) -> others]
  BY <1>1
<1>4. \A i, j \in 1..Len(nodes) : f[i] = f[j] => i = j
  BY <1>1 DEF Tree
<1>5. f \in Injection(1..Len(nodes), others)
  BY <1>3, <1>4 DEF Injection, IsInjective
<1>6. Cardinality(1..Len(nodes)) <= Cardinality(others)
  BY <1>2, <1>5, FS_Injection
<1>7. Rounds \in Nat
  BY CellsFinite DEF Rounds
<1>8. Cardinality(1..Len(nodes)) = Len(nodes)
  BY <1>1, FS_Interval
<1> QED
  BY <1>1, <1>2, <1>6, <1>7, <1>8

LEMMA NoneDearer ==
    ASSUME NEW g \in Grid, NEW a \in Cell, NEW b \in Cell,
           NEW nodes \in Seq(Node), NEW queue \in SUBSET Node,
           Tree(g, a, nodes), Guided(g, a, b, nodes, queue),
           NEW l \in DOMAIN nodes
    PROVE  Costs(g, a)[Rounds][nodes[l].cell] <= nodes[l].g
<1> DEFINE costs == Costs(g, a)
           S == {n \in Nat : n <= Rounds => \A i \in DOMAIN nodes :
                    i <= n + 1 => costs[n][nodes[i].cell] <= nodes[i].g}
<1>1. Rounds \in Nat
  BY CellsFinite DEF Rounds
<1>2. DOMAIN nodes = 1..Len(nodes) /\ Len(nodes) \in Nat /\ Len(nodes) <= Rounds
  BY TreeFits
<1>3. ASSUME NEW i \in DOMAIN nodes
      PROVE  /\ nodes[i].cell \in Cell /\ Traversable(g, nodes[i].cell) /\ nodes[i].g \in Nat
             /\ nodes[i].parent \in Nat /\ nodes[i].parent < i /\ i \in Nat \ {0}
             /\ nodes[i].parent = 0 => nodes[i].cell = a /\ nodes[i].g = 0
             /\ nodes[i].parent # 0 =>
                   LET up == nodes[nodes[i].parent]
                   IN  /\ nodes[i].parent \in DOMAIN nodes
                       /\ nodes[i].cell \in Moves(g, up.cell)
                       /\ nodes[i].g = up.g + StepCost(g, up.cell, nodes[i].cell)
  <2>1. nodes[i] \in Node /\ nodes[i].cell \in Cell /\ nodes[i].parent \in Nat
    BY NodesTyped
  <2>2. nodes[i].parent < i /\ Leads(g, a, nodes, nodes[i])
    BY DEF Tree
  <2>3. Priced(g, b, nodes, nodes[i])
    BY DEF Guided
  <2> QED
    BY <1>2, <2>1, <2>2, <2>3 DEF Leads, Priced
<1>4. \A n \in 0..Rounds : \A c \in Cell : costs[n][c] \in Nat
  BY CostsNat
<1>5. /\ \A c \in Cell : costs[0][c] = IF c = a THEN 0 ELSE Infinite
      /\ \A n \in Nat : n + 1 <= Rounds => costs[n + 1] = Relaxed(g, costs[n])
  BY CostsRounds
<1> HIDE DEF costs
<1>6. 0 \in S
  <2> SUFFICES ASSUME NEW i \in DOMAIN nodes, i <= 1
               PROVE  costs[0][nodes[i].cell] <= nodes[i].g
    OBVIOUS
  <2>1. nodes[i].parent = 0
    BY <1>3
  <2> QED
    BY <1>3, <1>5, <2>1
<1>7. ASSUME NEW n \in Nat, n \in S PROVE n + 1 \in S
  <2> SUFFICES ASSUME n + 1 <= Rounds, NEW i \in DOMAIN nodes, i <= (n + 1) + 1
               PROVE  costs[n + 1][nodes[i].cell] <= nodes[i].g
    OBVIOUS
  <2> DEFINE c == nodes[i].cell
             p == nodes[i].parent
  <2>1. \A j \in DOMAIN nodes : j <= n + 1 => costs[n][nodes[j].cell] <= nodes[j].g
    BY <1>1, <1>7
  <2>2. \A d \in Cell : costs[n][d] \in Nat
    BY <1>1, <1>4
  <2>3. costs[n + 1] = Relaxed(g, costs[n])
    BY <1>5
  <2>4. c \in Cell /\ Traversable(g, c) /\ nodes[i].g \in Nat
    BY <1>3
  <2>5. /\ costs[n + 1][c] \in Nat /\ costs[n + 1][c] <= costs[n][c]
        /\ \A d \in Moves(g, c) : costs[n + 1][c] <= costs[n][d] + StepCost(g, d, c)
    <3> HIDE DEF c
    <3> QED
      BY <2>2, <2>3, <2>4, RelaxedBounds
  <2>6. CASE i <= n + 1
    <3>1. costs[n][c] <= nodes[i].g /\ costs[n][c] \in Nat
      BY <2>1, <2>2, <2>4, <2>6
    <3> QED
      BY <2>4, <2>5, <3>1
  <2>7. CASE ~(i <= n + 1)
    <3>1. i = n + 2
      BY <1>3, <2>7
    <3>2. p # 0
      <4> SUFFICES ASSUME p = 0 PROVE FALSE
        OBVIOUS
      <4>1. 1 \in DOMAIN nodes
        BY <1>2, <3>1
      <4>2. nodes[1].parent = 0
        BY <1>3, <4>1
      <4>3. nodes[1].cell = nodes[i].cell
        BY <1>3, <4>1, <4>2
      <4>4. i = 1
        BY <4>1, <4>3 DEF Tree
      <4> QED
        BY <3>1, <4>4
    <3>3. /\ p \in DOMAIN nodes /\ p <= n + 1 /\ c \in Moves(g, nodes[p].cell)
          /\ nodes[i].g = nodes[p].g + StepCost(g, nodes[p].cell, c)
      BY <1>3, <3>1, <3>2
    <3>4. /\ nodes[p].cell \in Cell /\ Traversable(g, nodes[p].cell) /\ nodes[p].g \in Nat
      BY <1>3, <3>3
    <3>5. nodes[p].cell \in Moves(g, c)
      BY <3>3, <3>4, MoveBack
    <3>6. costs[n][nodes[p].cell] <= nodes[p].g /\ costs[n][nodes[p].cell] \in Nat
      BY <2>1, <2>2, <3>3, <3>4
    <3>7. StepCost(g, nodes[p].cell, c) \in Nat
      BY <2>4, <3>4, StepCostBounds
    <3>8. costs[n + 1][c] <= costs[n][nodes[p].cell] + StepCost(g, nodes[p].cell, c)
      BY <2>5, <3>5
    <3>9. ASSUME NEW v \in Nat, NEW u \in Nat, NEW step \in Nat, NEW w \in Nat,
                 v <= u + step, u <= w
          PROVE  v <= w + step
      BY <3>9
    <3>10. costs[n + 1][c] <= nodes[p].g + StepCost(g, nodes[p].cell, c)
      <4> HIDE DEF c, p
      <4> QED
        BY <2>5, <3>4, <3>6, <3>7, <3>8, <3>9
    <3> QED
      BY <3>3, <3>10
  <2> QED
    BY <2>6, <2>7
<1> HIDE DEF S
<1>8. Nat \subseteq S
  BY <1>6, <1>7, Induct
<1>9. l <= Rounds + 1 /\ Rounds \in S
  BY <1>1, <1>2, <1>8
<1> QED
  BY <1>1, <1>9 DEF S, costs

(***************************************************************************)
(* An empty queue means that every cell a path leads to is expanded.       *)
(***************************************************************************)
LEMMA NoneMissed ==
    ASSUME NEW g \in Grid, NEW a \in Cell, NEW b \in Cell,
           NEW nodes \in Seq(Node), Guided(g, a, b, nodes, {}),
           \A i \in DOMAIN nodes : nodes[i].cell # b
    PROVE  Costs(g, a)[Rounds][b] >= Infinite
<1> DEFINE costs == Costs(g, a)
           Taken(c) == \E j \in DOMAIN nodes : nodes[j].cell = c
           S == {n \in Nat : n <= Rounds => \A c \in Cell :
                    costs[n][c] < Infinite => Taken(c)}
<1>1. Rounds \in Nat /\ Infinite \in Nat
  BY CellsFinite, InfiniteNat DEF Rounds
<1>2. ASSUME NEW c, NEW price, Covered(nodes, {}, c, price) PROVE Taken(c)
  BY <1>2 DEF Covered
<1>3. \A n \in 0..Rounds : \A c \in Cell : costs[n][c] \in Nat
  BY CostsNat
<1>4. /\ \A c \in Cell : costs[0][c] = IF c = a THEN 0 ELSE Infinite
      /\ \A n \in Nat : n + 1 <= Rounds => costs[n + 1] = Relaxed(g, costs[n])
  BY CostsRounds
<1> HIDE DEF costs
<1>5. 0 \in S
  <2> SUFFICES ASSUME NEW c \in Cell, costs[0][c] < Infinite PROVE Taken(c)
    OBVIOUS
  <2>1. c = a
    BY <1>1, <1>4
  <2>2. Covered(nodes, {}, c, 0)
    BY <2>1 DEF Guided
  <2> HIDE DEF Taken
  <2> QED
    BY <1>2, <2>2
<1>6. ASSUME NEW n \in Nat, n \in S PROVE n + 1 \in S
  <2> SUFFICES ASSUME n + 1 <= Rounds, NEW c \in Cell, costs[n + 1][c] < Infinite
               PROVE  Taken(c)
    OBVIOUS
  <2>1. \A d \in Cell : costs[n][d] < Infinite => Taken(d)
    BY <1>1, <1>6
  <2>2. \A d \in Cell : costs[n][d] \in Nat
    BY <1>1, <1>3
  <2>3. costs[n + 1] = Relaxed(g, costs[n])
    BY <1>4
  <2> HIDE DEF Taken, S
  <2>4. Traversable(g, c)
    <3> SUFFICES ASSUME ~Traversable(g, c) PROVE FALSE
      OBVIOUS
    <3>1. costs[n + 1][c] = Infinite
      BY <2>3, RelaxedIs
    <3> QED
      BY <1>1, <3>1
  <2>5. CASE costs[n + 1][c] = costs[n][c]
    BY <2>1, <2>5
  <2>6. ASSUME NEW d \in Moves(g, c), costs[n + 1][c] = costs[n][d] + StepCost(g, d, c)
        PROVE  Taken(c)
    <3>1. d \in Cell
      BY DEF Moves
    <3>2. c \in Moves(g, d)
      BY <2>4, MoveBack
    <3>3. StepCost(g, d, c) \in Nat /\ costs[n][d] \in Nat
      BY <2>2, <2>4, <3>1, StepCostBounds
    <3>4. costs[n][d] < Infinite
      BY <1>1, <2>6, <3>3
    <3>5. PICK j \in DOMAIN nodes : nodes[j].cell = d
      BY <2>1, <3>1, <3>4 DEF Taken
    <3>6. Covered(nodes, {}, c, nodes[j].g + StepCost(g, d, c))
      BY <3>2, <3>5 DEF Guided
    <3> QED
      BY <1>2, <3>6
  <2> QED
    BY <2>2, <2>3, <2>4, <2>5, <2>6, RelaxedBounds
<1> HIDE DEF S
<1>7. Nat \subseteq S
  BY <1>5, <1>6, Induct
<1>8. costs[Rounds][b] < Infinite => Taken(b)
  BY <1>1, <1>7 DEF S
<1>9. costs[Rounds][b] \in Nat
  BY <1>1, <1>3
<1> QED
  BY <1>1, <1>8, <1>9 DEF costs

-----------------------------------------------------------------------------
(***************************************************************************)
(* The invariant of the search: while it runs it is guided, has not seen   *)
(* the goal, and owes each turn and each queued node to an expansion,      *)
(* which pushes at most eight.                                             *)
(***************************************************************************)
Sought ==
    /\ Guided(snapshot, from, to, closed, open)
    /\ \A i \in DOMAIN closed : closed[i].cell # to
    /\ iter + Cardinality(open) <= 1 + 8 * Len(closed)

Arrived == Guided(snapshot, from, to, closed, open) /\ closed[Len(closed)].cell = to

SearchInv ==
    /\ iter \in Nat /\ IsFiniteSet(open)
    /\ \A t \in Thread :
          /\ pc[t] = "search" => Sought
          /\ pc[t] \in {"reconstruct", "found"} => closed = <<>> \/ Arrived
          /\ pc[t] = "no path" =>
                \/ Snapped(snapshot, Start) = {} \/ Snapped(snapshot, goal) = {}
                \/ Sought /\ (open = {} \/ iter >= MaxIterations)

-----------------------------------------------------------------------------
(***************************************************************************)
(* The steps of the search: it starts, drops a stale node, takes a node of *)
(* least f and pushes its neighbours.                                      *)
(***************************************************************************)
LEMMA GuidedStarts ==
    ASSUME NEW g, NEW a \in Cell, NEW b \in Cell, NEW n,
           n.cell = a, n.g = 0, n.f = Heuristic(a, b), n.parent = 0
    PROVE  Guided(g, a, b, <<>>, {n})
<1>1. Priced(g, b, <<>>, n)
  BY HeuristicNat DEF Priced, MaxStepCost
<1>2. Covered(<<>>, {n}, a, 0)
  BY DEF Covered
<1> QED
  BY <1>1, <1>2 DEF Guided

LEMMA GuidedDrops ==
    ASSUME NEW g, NEW a, NEW b, NEW nodes, NEW queue, NEW n,
           NEW i \in DOMAIN nodes, nodes[i].cell = n.cell,
           Guided(g, a, b, nodes, queue)
    PROVE  Guided(g, a, b, nodes, queue \ {n})
<1>1. ASSUME NEW c, NEW price, Covered(nodes, queue, c, price)
      PROVE  Covered(nodes, queue \ {n}, c, price)
  BY <1>1 DEF Covered
<1> QED
  BY <1>1 DEF Guided

LEMMA CoveredStays ==
    ASSUME NEW g, NEW a, NEW b \in Cell, NEW nodes \in Seq(Node), NEW queue \in SUBSET Node,
           NEW n \in queue, \A m \in queue : n.f <= m.f,
           \A m \in queue : Priced(g, b, nodes, m),
           NEW more, NEW c, NEW price \in Int, Covered(nodes, queue, c, price)
    PROVE  Covered(Append(nodes, n), (queue \ {n}) \cup more, c, price)
<1> DEFINE grown == Append(nodes, n)
           pushed == (queue \ {n}) \cup more
<1>1. /\ DOMAIN nodes = 1..Len(nodes) /\ Len(nodes) \in Nat
      /\ DOMAIN grown = 1..(Len(nodes) + 1)
      /\ \A i \in DOMAIN nodes : i \in DOMAIN grown /\ grown[i] = nodes[i]
      /\ Len(nodes) + 1 \in DOMAIN grown /\ grown[Len(nodes) + 1] = n
  BY NodesTyped
<1>2. \A i \in DOMAIN grown : i \in DOMAIN nodes \/ i = Len(nodes) + 1
  BY <1>1
<1> HIDE DEF grown
<1>3. CASE \E j \in DOMAIN nodes : nodes[j].cell = c /\ nodes[j].g <= price
  <2>1. PICK j \in DOMAIN nodes : nodes[j].cell = c /\ nodes[j].g <= price
    BY <1>3
  <2>2. j \in DOMAIN grown /\ grown[j] = nodes[j]
    BY <1>1
  <2> QED
    BY <2>1, <2>2 DEF Covered, grown
<1>4. ASSUME \A j \in DOMAIN nodes : nodes[j].cell # c,
             NEW m \in queue, m.cell = c, m.g <= price
      PROVE  Covered(grown, pushed, c, price)
  <2>1. CASE n.cell = c
    <3>1. Priced(g, b, nodes, m) /\ Priced(g, b, nodes, n) /\ n.f <= m.f
      OBVIOUS
    <3>2. c \in Cell /\ Heuristic(c, b) \in Int
      <4>1. m \in Node
        OBVIOUS
      <4>2. c \in Cell
        BY <1>4, <4>1 DEF Node
      <4> QED
        BY <4>2, HeuristicNat
    <3>3. n.g <= m.g /\ n.g \in Nat /\ m.g \in Nat
      BY <1>4, <2>1, <3>1, <3>2 DEF Priced
    <3>4. n.g <= price
      BY <1>4, <3>3
    <3> QED
      BY <1>1, <2>1, <3>4 DEF Covered
  <2>2. CASE n.cell # c
    <3>1. \A j \in DOMAIN grown : grown[j].cell # c
      BY <1>1, <1>2, <1>4, <2>2
    <3>2. m \in pushed
      BY <1>4, <2>2
    <3> QED
      BY <1>4, <3>1, <3>2 DEF Covered
  <2> QED
    BY <2>1, <2>2
<1> QED
  BY <1>3, <1>4 DEF Covered, grown

LEMMA PricedStays ==
    ASSUME NEW g, NEW a, NEW b, NEW nodes \in Seq(Node), NEW n \in Node, NEW m,
           Priced(g, b, nodes, m), Leads(g, a, nodes, m)
    PROVE  Priced(g, b, Append(nodes, n), m)
<1>1. \A i \in DOMAIN nodes : Append(nodes, n)[i] = nodes[i]
  OBVIOUS
<1>2. CASE m.parent = 0
  BY <1>2 DEF Priced
<1>3. CASE m.parent # 0
  <2>1. m.parent \in DOMAIN nodes
    BY <1>3 DEF Leads
  <2>2. Append(nodes, n)[m.parent] = nodes[m.parent]
    BY <1>1, <2>1
  <2> QED
    BY <1>3, <2>2 DEF Priced
<1> QED
  BY <1>2, <1>3

LEMMA GuidedGrows ==
    ASSUME NEW g \in Grid, NEW a \in Cell, NEW b \in Cell,
           NEW nodes \in Seq(Node), NEW queue \in SUBSET Node,
           Guided(g, a, b, nodes, queue), Tree(g, a, nodes),
           \A m \in queue : Leads(g, a, nodes, m),
           NEW n \in queue, \A m \in queue : n.f <= m.f,
           NEW more,
           \A m \in more : /\ m.cell \in Moves(g, n.cell) /\ m.parent = Len(nodes) + 1
                           /\ m.g = n.g + StepCost(g, n.cell, m.cell)
                           /\ m.f = m.g + Heuristic(m.cell, b),
           n.cell # b => \A d \in Moves(g, n.cell) :
              (\A j \in DOMAIN nodes : nodes[j].cell # d) => \E m \in more : m.cell = d
    PROVE  Guided(g, a, b, Append(nodes, n), (queue \ {n}) \cup more)
<1> DEFINE grown == Append(nodes, n)
           pushed == (queue \ {n}) \cup more
           last == Len(nodes) + 1
<1>1. /\ DOMAIN nodes = 1..Len(nodes) /\ Len(nodes) \in Nat
      /\ DOMAIN grown = 1..last
      /\ \A i \in DOMAIN nodes : i \in DOMAIN grown /\ grown[i] = nodes[i]
      /\ last \in DOMAIN grown /\ grown[last] = n /\ last \in Nat /\ last # 0
  BY NodesTyped
<1>2. \A i \in DOMAIN grown : i \in DOMAIN nodes \/ i = last
  BY <1>1
<1>3. n \in Node /\ n.cell \in Cell /\ n.parent \in Nat
  <2>1. n \in Node
    OBVIOUS
  <2> QED
    BY <2>1 DEF Node
<1>4. Priced(g, b, nodes, n) /\ n.g \in Nat /\ n.f = n.g + Heuristic(n.cell, b)
  BY DEF Guided, Priced
<1>5. ASSUME NEW c, NEW price \in Int, Covered(nodes, queue, c, price)
      PROVE  Covered(grown, pushed, c, price)
  <2>1. \A m \in queue : Priced(g, b, nodes, m)
    BY DEF Guided
  <2> QED
    BY <1>5, <2>1, CoveredStays
<1>6. ASSUME NEW m, Priced(g, b, nodes, m), Leads(g, a, nodes, m)
      PROVE  Priced(g, b, grown, m)
  BY <1>3, <1>6, PricedStays
<1> HIDE DEF grown
<1>7. ASSUME NEW d \in Moves(g, n.cell)
      PROVE  /\ d \in Cell /\ StepCost(g, n.cell, d) \in Nat
             /\ StepCost(g, n.cell, d) <= 240 /\ Heuristic(d, b) \in Nat
             /\ n.f <= n.g + StepCost(g, n.cell, d) + Heuristic(d, b)
  <2>1. d \in Cell /\ Traversable(g, d)
    BY DEF Moves
  <2>2. StepCost(g, n.cell, d) \in Nat /\ StepCost(g, n.cell, d) <= 240
    BY <1>3, <2>1, StepCostBounds DEF MaxStepCost
  <2>3. Heuristic(d, b) \in Nat /\ Heuristic(n.cell, b) \in Nat
    BY <1>3, <2>1, HeuristicNat
  <2>4. Heuristic(n.cell, b) <= StepCost(g, n.cell, d) + Heuristic(d, b)
    BY <1>3, Consistent
  <2> QED
    BY <1>4, <2>1, <2>2, <2>3, <2>4
<1>8. ASSUME NEW m \in more
      PROVE  m.f \in Int /\ n.f <= m.f /\ Priced(g, b, grown, m)
  <2>1. /\ m.cell \in Moves(g, n.cell) /\ m.parent = last
        /\ m.g = n.g + StepCost(g, n.cell, m.cell)
        /\ m.f = m.g + Heuristic(m.cell, b)
    BY <1>8
  <2>2. m.g \in Nat /\ m.f \in Int /\ n.f <= m.f
    BY <1>4, <1>7, <2>1
  <2>3. m.g <= MaxStepCost * m.parent
    <3>1. n.parent <= Len(nodes)
      <4>1. Leads(g, a, nodes, n)
        OBVIOUS
      <4> QED
        BY <1>1, <1>3, <4>1 DEF Leads
    <3>2. n.g <= 240 * n.parent
      BY <1>4 DEF Priced, MaxStepCost
    <3>3. StepCost(g, n.cell, m.cell) \in Nat /\ StepCost(g, n.cell, m.cell) <= 240
      BY <1>7, <2>1
    <3>4. ASSUME NEW p \in Nat, NEW l \in Nat, NEW v \in Nat, NEW step \in Nat,
                 p <= l, v <= 240 * p, step <= 240
          PROVE  v + step <= 240 * (l + 1)
      BY <3>4
    <3> QED
      BY <1>1, <1>3, <1>4, <2>1, <3>1, <3>2, <3>3, <3>4 DEF MaxStepCost
  <2>4. m.g = grown[m.parent].g + StepCost(g, grown[m.parent].cell, m.cell)
    BY <1>1, <2>1
  <2> QED
    BY <1>1, <2>1, <2>2, <2>3, <2>4 DEF Priced
<1>9. ASSUME NEW i \in DOMAIN grown PROVE Priced(g, b, grown, grown[i])
  <2>1. CASE i \in DOMAIN nodes
    <3>1. Priced(g, b, nodes, nodes[i]) /\ Leads(g, a, nodes, nodes[i])
      BY <2>1 DEF Guided, Tree
    <3> QED
      BY <1>1, <1>6, <2>1, <3>1
  <2>2. CASE i = last
    <3>1. Leads(g, a, nodes, n)
      OBVIOUS
    <3> QED
      BY <1>1, <1>4, <1>6, <2>2, <3>1
  <2> QED
    BY <1>2, <2>1, <2>2
<1>10. ASSUME NEW m \in pushed PROVE Priced(g, b, grown, m)
  <2>1. CASE m \in queue
    BY <1>6, <2>1 DEF Guided
  <2> QED
    BY <1>8, <2>1
<1>11. ASSUME NEW i \in DOMAIN grown, NEW m \in pushed PROVE grown[i].f <= m.f
  <2>1. n.f <= m.f /\ n.f \in Int /\ m.f \in Int
    <3>1. n.f \in Int
      BY <1>3, <1>4, HeuristicNat
    <3>2. CASE m \in queue
      <4>1. m \in Node
        BY <3>2
      <4> QED
        BY <3>1, <3>2, <4>1 DEF Node
    <3> QED
      BY <1>8, <3>1, <3>2
  <2>2. CASE i \in DOMAIN nodes
    <3>1. nodes[i].f <= n.f
      BY <2>2 DEF Guided
    <3>2. nodes[i].f \in Int
      <4>1. nodes[i] \in Node
        BY <2>2, NodesTyped
      <4> QED
        BY <4>1 DEF Node
    <3> QED
      BY <1>1, <2>1, <2>2, <3>1, <3>2
  <2> QED
    BY <1>1, <1>2, <2>1, <2>2
<1>12. Covered(grown, pushed, a, 0)
  <2>1. Covered(nodes, queue, a, 0)
    BY DEF Guided
  <2>2. 0 \in Int
    OBVIOUS
  <2> QED
    BY <1>5, <2>1, <2>2
<1>13. ASSUME NEW i \in DOMAIN grown, grown[i].cell # b,
              NEW d \in Moves(g, grown[i].cell)
       PROVE  Covered(grown, pushed, d, grown[i].g + StepCost(g, grown[i].cell, d))
  <2>1. CASE i \in DOMAIN nodes
    <3>1. /\ grown[i] = nodes[i]
          /\ Covered(nodes, queue, d, nodes[i].g + StepCost(g, nodes[i].cell, d))
      BY <1>1, <1>13, <2>1 DEF Guided
    <3>2. nodes[i].g + StepCost(g, nodes[i].cell, d) \in Int
      <4>1. nodes[i] \in Node /\ nodes[i].cell \in Cell
        BY <2>1, NodesTyped
      <4>2. nodes[i].g \in Int
        BY <4>1 DEF Node
      <4>3. d \in Cell
        BY DEF Moves
      <4>4. StepCost(g, nodes[i].cell, d) \in Int
        BY <4>1, <4>3, StepCostInt
      <4> QED
        BY <4>2, <4>4
    <3> QED
      BY <1>5, <3>1, <3>2
  <2>2. CASE i = last
    <3>1. grown[i] = n /\ d \in Moves(g, n.cell) /\ n.cell # b /\ d # n.cell
      BY <1>1, <1>13, <2>2 DEF Moves
    <3> DEFINE price == n.g + StepCost(g, n.cell, d)
    <3>2. price \in Nat
      BY <1>4, <1>7, <3>1
    <3>3. ASSUME NEW j \in DOMAIN nodes, nodes[j].cell = d PROVE Covered(grown, pushed, d, price)
      <4>1. nodes[j].f <= n.f
        BY DEF Guided
      <4>2. nodes[j].g \in Nat /\ nodes[j].f = nodes[j].g + Heuristic(d, b)
        BY <3>3 DEF Guided, Priced
      <4>3. nodes[j].g <= price
        <5>1. ASSUME NEW v \in Nat, NEW hd \in Nat, NEW f \in Int, NEW u \in Nat, NEW step \in Nat,
                     v + hd <= f, f <= u + step + hd
              PROVE  v <= u + step
          BY <5>1
        <5>2. /\ StepCost(g, n.cell, d) \in Nat /\ Heuristic(d, b) \in Nat
              /\ n.f <= n.g + StepCost(g, n.cell, d) + Heuristic(d, b)
          BY <1>7, <3>1
        <5>3. n.f \in Int
          BY <1>3, <1>4, HeuristicNat
        <5> QED
          BY <1>4, <4>1, <4>2, <5>1, <5>2, <5>3
      <4> QED
        BY <1>1, <3>3, <4>3 DEF Covered
    <3>4. ASSUME \A j \in DOMAIN nodes : nodes[j].cell # d PROVE Covered(grown, pushed, d, price)
      <4>1. PICK m \in more : m.cell = d
        BY <3>1, <3>4
      <4>2. m.g = price
        BY <4>1
      <4>3. m.g <= price
        BY <3>2, <4>2
      <4>4. \A j \in DOMAIN grown : grown[j].cell # d
        BY <1>1, <1>2, <3>1, <3>4
      <4> QED
        BY <4>1, <4>3, <4>4 DEF Covered
    <3> QED
      BY <3>1, <3>3, <3>4
  <2> QED
    BY <1>2, <2>1, <2>2
<1> HIDE DEF pushed
<1>14. Guided(g, a, b, grown, pushed)
  BY <1>9, <1>10, <1>11, <1>12, <1>13 DEF Guided
<1> QED
  BY <1>14 DEF grown, pushed

\* A node has at most eight neighbours to push.
LEMMA FewPushed ==
    ASSUME NEW g, NEW c \in Cell, NEW more,
           \A m \in more : m.cell \in Moves(g, c),
           \A m, k \in more : m.cell = k.cell => m = k
    PROVE  IsFiniteSet(more) /\ Cardinality(more) \in Nat /\ Cardinality(more) <= 8
<1> DEFINE f == [m \in more |-> 3 * (m.cell[1] - c[1]) + (m.cell[2] - c[2]) + 4]
           T == (0..8) \ {4}
<1>1. c[1] \in Int /\ c[2] \in Int
  BY CellCoordinates
<1>2. ASSUME NEW m \in more
      PROVE  /\ m.cell \in Cell /\ m.cell[1] \in Int /\ m.cell[2] \in Int
             /\ m.cell[1] - c[1] \in -1..1 /\ m.cell[2] - c[2] \in -1..1
             /\ m.cell[1] # c[1] \/ m.cell[2] # c[2]
  <2>1. m.cell \in Moves(g, c)
    OBVIOUS
  <2>2. m.cell \in Cell /\ Adjacent(c, m.cell) /\ m.cell # c
    <3>1. m.cell # c
      BY <2>1 DEF Moves
    <3> QED
      BY <2>1, <3>1, MoveSound
  <2>3. m.cell[1] \in Int /\ m.cell[2] \in Int
    BY <2>2, CellCoordinates
  <2>4. m.cell[1] - c[1] \in -1..1 /\ m.cell[2] - c[2] \in -1..1
    BY <1>1, <2>2, <2>3 DEF Adjacent, AbsDiff
  <2>5. m.cell[1] # c[1] \/ m.cell[2] # c[2]
    BY <2>2, CellCoordinates
  <2> QED
    BY <2>2, <2>3, <2>4, <2>5
<1>3. f \in [more -> T]
  <2>1. ASSUME NEW x \in -1..1, NEW y \in -1..1, x # 0 \/ y # 0
        PROVE  3 * x + y + 4 \in T
    BY <2>1
  <2>2. ASSUME NEW m \in more PROVE 3 * (m.cell[1] - c[1]) + (m.cell[2] - c[2]) + 4 \in T
    <3>1. m.cell[1] - c[1] # 0 \/ m.cell[2] - c[2] # 0
      BY <1>1, <1>2
    <3> HIDE DEF T
    <3> QED
      BY <1>2, <2>1, <3>1
  <2> QED
    BY <2>2
<1>4. ASSUME NEW m \in more, NEW k \in more, f[m] = f[k] PROVE m = k
  <2>1. ASSUME NEW x \in -1..1, NEW y \in -1..1, NEW u \in -1..1, NEW v \in -1..1,
               3 * x + y + 4 = 3 * u + v + 4
        PROVE  x = u /\ y = v
    BY <2>1
  <2>2. m.cell[1] - c[1] = k.cell[1] - c[1] /\ m.cell[2] - c[2] = k.cell[2] - c[2]
    BY <1>2, <1>4, <2>1
  <2>3. m.cell[1] = k.cell[1] /\ m.cell[2] = k.cell[2]
    BY <1>1, <1>2, <2>2
  <2>4. m.cell = k.cell
    BY <1>2, <2>3, CellCoordinates
  <2> QED
    BY <2>4
<1>5. IsFiniteSet(T) /\ Cardinality(T) = 8
  <2> DEFINE I == 0..8
  <2>1. IsFiniteSet(I) /\ Cardinality(I) = 9 /\ 4 \in I
    <3>1. ASSUME NEW lo \in Int, NEW hi \in Int, lo = 0, hi = 8
          PROVE  IsFiniteSet(lo..hi) /\ Cardinality(lo..hi) = 9
      <4>1. /\ IsFiniteSet(lo..hi)
            /\ Cardinality(lo..hi) = IF lo > hi THEN 0 ELSE hi - lo + 1
        BY FS_Interval
      <4> QED
        BY <3>1, <4>1
    <3>2. IsFiniteSet(I) /\ Cardinality(I) = 9
      <4>1. PICK lo \in Int, hi \in Int : lo = 0 /\ hi = 8
        OBVIOUS
      <4>2. I = lo..hi
        BY <4>1
      <4> HIDE DEF I
      <4> QED
        BY <3>1, <4>1, <4>2
    <3> QED
      BY <3>2
  <2> HIDE DEF I
  <2>2. IsFiniteSet(I \ {4}) /\ Cardinality(I \ {4}) = Cardinality(I) - 1
    BY <2>1, FS_RemoveElement
  <2> QED
    BY <2>1, <2>2 DEF I
<1> HIDE DEF T, f
<1>6. f \in Injection(more, T)
  BY <1>3, <1>4 DEF Injection, IsInjective
<1> QED
  BY <1>5, <1>6, FS_Injection, FS_CardinalityType

-----------------------------------------------------------------------------
(***************************************************************************)
(* Every step of the program keeps it.                                     *)
(***************************************************************************)
LEMMA SearchInit == Init => SearchInv
  BY FS_EmptySet DEF Init, SearchInv

\* Steps that leave the search alone.
LEMMA SearchStays ==
    ASSUME SearchInv, UNCHANGED <<search, ends>>,
           \A t \in Thread : pc'[t] = pc[t] \/ pc'[t] \notin Planned
    PROVE  SearchInv'
<1>1. UNCHANGED <<snapshot, goal, from, to, open, closed, iter>>
  BY DEF search, ends
<1>2. (Sought => Sought') /\ (Arrived => Arrived')
  BY <1>1 DEF Sought, Arrived
<1>3. iter' \in Nat /\ IsFiniteSet(open')
  BY <1>1 DEF SearchInv
<1>4. ASSUME NEW t \in Thread, pc'[t] \in Planned PROVE pc'[t] = pc[t]
  BY <1>4
<1>5. ASSUME NEW t \in Thread, pc'[t] = "search" PROVE Sought'
  BY <1>2, <1>4, <1>5 DEF SearchInv, Planned
<1>6. ASSUME NEW t \in Thread, pc'[t] \in {"reconstruct", "found"}
      PROVE  closed' = <<>> \/ Arrived'
  BY <1>1, <1>2, <1>4, <1>6 DEF SearchInv, Planned
<1>7. ASSUME NEW t \in Thread, pc'[t] = "no path"
      PROVE  \/ Snapped(snapshot', Start) = {} \/ Snapped(snapshot', goal') = {}
             \/ Sought' /\ (open' = {} \/ iter' >= MaxIterations)
  BY <1>1, <1>2, <1>4, <1>7 DEF SearchInv, Planned
<1> QED
  BY <1>3, <1>5, <1>6, <1>7 DEF SearchInv

LEMMA SearchSnapshot ==
    ASSUME PlanInv, NEW t \in Thread, Snapshot(t)
    PROVE  SearchInv'
<1>1. /\ grid \in Grid /\ pc \in [Thread -> Working \cup Planned]
  BY DEF PlanInv, Typed
<1>2. /\ \A u \in Thread : pc[u] \notin Planned
      /\ snapshot' = grid /\ closed' = <<>> /\ iter' = 0 /\ goal' \in Goals
  BY DEF Snapshot
<1>3. Start \in Cell /\ goal' \in Cell
  BY <1>2, PlanningAssumption
<1>4. ASSUME NEW where \in Planned, pc' = [pc EXCEPT ![t] = where]
      PROVE  /\ pc'[t] = where
             /\ \A u \in Thread : pc'[u] \in Planned => u = t
  BY <1>1, <1>2, <1>4
<1>5. iter' \in Nat
  BY <1>2
<1>6. CASE /\ Snapped(grid, Start) = {} \/ Snapped(grid, goal') = {}
           /\ Go(t, "no path") /\ open' = {}
  <2>1. PICK where \in Planned : where = "no path"
    BY DEF Planned
  <2>2. pc' = [pc EXCEPT ![t] = where] /\ open' = {}
    BY <1>6, <2>1 DEF Go
  <2>3. pc'[t] = where /\ \A u \in Thread : pc'[u] \in Planned => u = t
    BY <1>4, <2>2
  <2>4. IsFiniteSet(open')
    BY <2>2, FS_EmptySet
  <2>5. Snapped(snapshot', Start) = {} \/ Snapped(snapshot', goal') = {}
    BY <1>2, <1>6
  <2> QED
    BY <1>5, <2>1, <2>3, <2>4, <2>5 DEF SearchInv, Planned
<1>7. ASSUME NEW s \in Snapped(grid, Start), NEW e \in Snapped(grid, goal'),
             from' = s, to' = e,
             IF s = e THEN Go(t, "found") /\ open' = {} /\ path' = <<s>>
             ELSE /\ Go(t, "search")
                  /\ open' = {NewNode(s, 0, 0)} /\ path' = <<>>
      PROVE  SearchInv'
  <2>1. s \in Cell /\ e \in Cell
    BY <1>3, SnappedFree
  <2>2. CASE s = e
    <3>1. PICK where \in Planned : where = "found"
      BY DEF Planned
    <3>2. pc' = [pc EXCEPT ![t] = where] /\ open' = {}
      BY <1>7, <2>2, <3>1 DEF Go
    <3>3. pc'[t] = where /\ \A u \in Thread : pc'[u] \in Planned => u = t
      BY <1>4, <3>2
    <3>4. IsFiniteSet(open')
      BY <3>2, FS_EmptySet
    <3> QED
      BY <1>2, <1>5, <3>1, <3>3, <3>4 DEF SearchInv, Planned
  <2>3. CASE s # e
    <3>1. PICK where \in Planned : where = "search"
      BY DEF Planned
    <3> DEFINE n == NewNode(s, 0, 0)
    <3>2. pc' = [pc EXCEPT ![t] = where] /\ open' = {n}
      BY <1>7, <2>3, <3>1 DEF Go
    <3>3. pc'[t] = where /\ \A u \in Thread : pc'[u] \in Planned => u = t
      BY <1>4, <3>2
    <3>4. n.cell = s /\ n.g = 0 /\ n.f = Heuristic(s, e) /\ n.parent = 0
      <4>1. Heuristic(s, e) \in Nat
        BY <2>1, HeuristicNat
      <4> QED
        BY <1>7, <4>1 DEF NewNode
    <3> HIDE DEF n
    <3>5. Guided(snapshot', from', to', closed', open')
      BY <1>2, <1>7, <2>1, <3>2, <3>4, GuidedStarts
    <3>6. IsFiniteSet(open') /\ Cardinality(open') = 1
      BY <3>2, FS_Singleton
    <3>7. Len(closed') = 0 /\ DOMAIN closed' = {}
      BY <1>2
    <3>8. Sought'
      BY <1>2, <3>5, <3>6, <3>7 DEF Sought
    <3> QED
      BY <1>5, <3>1, <3>3, <3>6, <3>8 DEF SearchInv, Planned
  <2> QED
    BY <2>2, <2>3
<1> QED
  BY <1>6, <1>7 DEF Snapshot

LEMMA SearchIterate ==
    ASSUME PlanInv, SearchInv, NEW t \in Thread, Iterate(t)
    PROVE  SearchInv'
<1>1. /\ snapshot \in Grid /\ from \in Cell /\ to \in Cell
      /\ pc \in [Thread -> Working \cup Planned]
      /\ open \in SUBSET Node /\ closed \in Seq(Node)
      /\ Tree(snapshot, from, closed) /\ \A m \in open : Leads(snapshot, from, closed, m)
  BY DEF PlanInv, Typed, Queued
<1>2. /\ pc[t] = "search" /\ pc[t] \in Planned /\ iter' = iter + 1
      /\ snapshot' = snapshot /\ from' = from /\ to' = to
  BY DEF Iterate, ends, Planned
<1>3. /\ iter \in Nat /\ IsFiniteSet(open) /\ Cardinality(open) \in Nat
      /\ Guided(snapshot, from, to, closed, open)
      /\ \A i \in DOMAIN closed : closed[i].cell # to
      /\ iter + Cardinality(open) <= 1 + 8 * Len(closed)
      /\ Len(closed) \in Nat
  <2>1. iter \in Nat /\ IsFiniteSet(open) /\ Sought
    BY <1>2 DEF SearchInv
  <2>2. Cardinality(open) \in Nat
    BY <2>1, FS_CardinalityType
  <2>3. Len(closed) \in Nat
    BY <1>1
  <2> QED
    BY <2>1, <2>2, <2>3 DEF Sought
<1>4. \A u \in Thread : pc[u] \in Planned => u = t
  BY <1>2 DEF PlanInv, Alone
<1>5. PICK n \in Top : Stale(t, n) \/ Reached(t, n) \/ Expanded(n)
  BY DEF Iterate
<1>6. n \in open /\ (\A m \in open : n.f <= m.f) /\ n.cell \in Cell
  <2>1. n \in open /\ \A m \in open : n.f <= m.f
    BY DEF Top
  <2>2. n \in Node
    BY <1>1, <2>1
  <2> QED
    BY <2>1, <2>2 DEF Node
<1>7. IsFiniteSet(open \ {n}) /\ Cardinality(open \ {n}) = Cardinality(open) - 1
  BY <1>3, <1>6, FS_RemoveElement
<1>8. iter' \in Nat
  BY <1>2, <1>3
<1>9. CASE Stale(t, n)
  <2>1. open' = open \ {n} /\ closed' = closed /\ pc' = pc
    BY <1>9 DEF Stale
  <2>2. PICK i \in DOMAIN closed : closed[i].cell = n.cell
    BY <1>9 DEF Stale, Visited
  <2>3. Guided(snapshot', from', to', closed', open')
    BY <1>2, <1>3, <2>1, <2>2, GuidedDrops
  <2>4. iter' + Cardinality(open') <= 1 + 8 * Len(closed')
    BY <1>2, <1>3, <1>7, <2>1
  <2>5. Sought'
    BY <1>2, <1>3, <2>1, <2>3, <2>4 DEF Sought
  <2> QED
    BY <1>2, <1>4, <1>7, <1>8, <2>1, <2>5 DEF SearchInv, Planned
<1>10. ASSUME closed' = Append(closed, n)
       PROVE  /\ Len(closed') = Len(closed) + 1 /\ closed'[Len(closed')] = n
              /\ DOMAIN closed' = 1..(Len(closed) + 1) /\ closed' # <<>>
              /\ \A i \in DOMAIN closed' :
                    (i \in DOMAIN closed /\ closed'[i] = closed[i]) \/ closed'[i] = n
  BY <1>1, <1>10
<1>11. CASE Reached(t, n)
  <2>1. PICK where \in Planned : where = "reconstruct"
    BY DEF Planned
  <2>2. /\ closed' = Append(closed, n) /\ n.cell = to
        /\ open' = open \ {n} /\ pc' = [pc EXCEPT ![t] = where]
    BY <1>11, <2>1 DEF Reached, Go
  <2>3. pc'[t] = where /\ \A u \in Thread : pc'[u] \in Planned => u = t
    BY <1>2, <2>2, SearcherAlone
  <2>4. Guided(snapshot, from, to, Append(closed, n), (open \ {n}) \cup {})
    BY <1>1, <1>3, <1>6, <2>2, GuidedGrows
  <2>5. (open \ {n}) \cup {} = open'
    BY <2>2
  <2>6. Arrived'
    BY <1>2, <1>10, <2>2, <2>4, <2>5 DEF Arrived
  <2> QED
    BY <1>7, <1>8, <2>1, <2>2, <2>3, <2>6 DEF SearchInv, Planned
<1>12. CASE Expanded(n)
  <2> DEFINE new(d) == NewNode(d, n.g + StepCost(snapshot, n.cell, d), Len(closed'))
             more == {new(d) : d \in Moves(snapshot, n.cell) \ Visited}
  <2>1. /\ closed' = Append(closed, n) /\ n.cell # to /\ pc' = pc
        /\ open' = (open \ {n}) \cup more
    BY <1>12 DEF Expanded
  <2>2. \A d : /\ new(d).cell = d /\ new(d).parent = Len(closed) + 1
               /\ new(d).g = n.g + StepCost(snapshot, n.cell, d)
               /\ new(d).f = new(d).g + Heuristic(d, to)
    BY <1>2, <1>10, <2>1 DEF NewNode
  <2> HIDE DEF new
  <2>3. \A m \in more : /\ m.cell \in Moves(snapshot, n.cell) /\ m = new(m.cell)
                        /\ m.parent = Len(closed) + 1
                        /\ m.g = n.g + StepCost(snapshot, n.cell, m.cell)
                        /\ m.f = m.g + Heuristic(m.cell, to)
    BY <2>2
  <2>4. ASSUME NEW d \in Moves(snapshot, n.cell),
               \A j \in DOMAIN closed : closed[j].cell # d
        PROVE  \E m \in more : m.cell = d
    <3>1. d \notin Visited
      BY <2>4 DEF Visited
    <3>2. new(d) \in more
      BY <3>1
    <3> QED
      BY <2>2, <3>2
  <2> HIDE DEF more
  <2>5. Guided(snapshot, from, to, Append(closed, n), (open \ {n}) \cup more)
    BY <1>1, <1>3, <1>6, <2>3, <2>4, GuidedGrows
  <2>6. Guided(snapshot', from', to', closed', open')
    BY <1>2, <2>1, <2>5
  <2>7. IsFiniteSet(more) /\ Cardinality(more) \in Nat /\ Cardinality(more) <= 8
    <3>1. \A m, k \in more : m.cell = k.cell => m = k
      BY <2>3
    <3>2. \A m \in more : m.cell \in Moves(snapshot, n.cell)
      BY <2>3
    <3> QED
      BY <1>6, <3>1, <3>2, FewPushed
  <2>8. /\ IsFiniteSet(open')
        /\ Cardinality(open') = Cardinality(open \ {n}) + Cardinality(more)
                                  - Cardinality((open \ {n}) \cap more)
    BY <1>7, <2>1, <2>7, FS_Union
  <2>9. Cardinality((open \ {n}) \cap more) \in Nat
    <3>1. IsFiniteSet((open \ {n}) \cap more)
      BY <1>7, FS_Intersection
    <3> QED
      BY <3>1, FS_CardinalityType
  <2>10. iter' + Cardinality(open') <= 1 + 8 * Len(closed')
    <3>1. Len(closed') = Len(closed) + 1
      BY <1>10, <2>1
    <3>2. ASSUME NEW i \in Nat, NEW o \in Nat, NEW k \in Nat, NEW p \in Nat, NEW l \in Nat,
                 i + o <= 1 + 8 * l, p <= 8
          PROVE  (i + 1) + (o - 1 + p - k) <= 1 + 8 * (l + 1)
      BY <3>2
    <3> QED
      BY <1>2, <1>3, <1>7, <2>7, <2>8, <2>9, <3>1, <3>2
  <2>11. \A i \in DOMAIN closed' : closed'[i].cell # to'
    BY <1>2, <1>3, <1>10, <2>1
  <2>12. Sought'
    BY <2>6, <2>10, <2>11 DEF Sought
  <2> QED
    BY <1>2, <1>4, <1>8, <2>1, <2>8, <2>12 DEF SearchInv, Planned
<1> QED
  BY <1>5, <1>9, <1>11, <1>12

LEMMA SearchExhausted ==
    ASSUME PlanInv, SearchInv, NEW t \in Thread, Exhausted(t)
    PROVE  SearchInv'
<1>1. PICK where \in Planned : where = "no path"
  BY DEF Planned
<1>2. /\ pc[t] = "search" /\ pc[t] \in Planned /\ pc' = [pc EXCEPT ![t] = where]
      /\ open = {} \/ iter >= MaxIterations
      /\ UNCHANGED <<snapshot, goal, from, to, open, closed, iter>>
  BY <1>1 DEF Exhausted, Go, search, ends, Planned
<1>3. pc'[t] = where /\ \A u \in Thread : pc'[u] \in Planned => u = t
  BY <1>2, SearcherAlone
<1>4. Sought /\ iter \in Nat /\ IsFiniteSet(open)
  BY <1>2 DEF SearchInv
<1>5. Sought' /\ iter' \in Nat /\ IsFiniteSet(open') /\ (open' = {} \/ iter' >= MaxIterations)
  BY <1>2, <1>4 DEF Sought
<1> QED
  BY <1>1, <1>3, <1>5 DEF SearchInv, Planned

LEMMA SearchReconstruct ==
    ASSUME PlanInv, SearchInv, NEW t \in Thread, Reconstruct(t)
    PROVE  SearchInv'
<1>1. /\ pc[t] = "reconstruct" /\ pc[t] \in Planned
      /\ UNCHANGED <<snapshot, goal, from, to, open, closed, iter>>
      /\ pc \in [Thread -> Working \cup Planned]
  BY DEF Reconstruct, ends, Planned, PlanInv, Typed
<1>2. PICK where \in Planned : /\ where \in {"reconstruct", "found"}
                               /\ pc' = [pc EXCEPT ![t] = where]
  <2>1. CASE UNCHANGED pc
    <3>1. PICK where \in Planned : where = "reconstruct"
      BY DEF Planned
    <3>2. pc' = [pc EXCEPT ![t] = where]
      BY <1>1, <2>1, <3>1
    <3> QED
      BY <3>1, <3>2
  <2>2. CASE Go(t, "found")
    <3>1. PICK where \in Planned : where = "found"
      BY DEF Planned
    <3>2. pc' = [pc EXCEPT ![t] = where]
      BY <2>2, <3>1 DEF Go
    <3> QED
      BY <3>1, <3>2
  <2> QED
    BY <2>1, <2>2 DEF Reconstruct
<1>3. pc'[t] = where /\ \A u \in Thread : pc'[u] \in Planned => u = t
  BY <1>1, <1>2, SearcherAlone
<1>4. (closed = <<>> \/ Arrived) /\ iter \in Nat /\ IsFiniteSet(open)
  BY <1>1 DEF SearchInv
<1>5. (closed' = <<>> \/ Arrived') /\ iter' \in Nat /\ IsFiniteSet(open')
  BY <1>1, <1>4 DEF Arrived
<1> QED
  BY <1>2, <1>3, <1>5 DEF SearchInv, Planned

LEMMA SearchFinish ==
    ASSUME PlanInv, NEW t \in Thread, Finish(t)
    PROVE  SearchInv'
<1>1. PICK where \in Working : where = "idle"
  BY DEF Working
<1>2. /\ pc[t] \in Planned /\ pc' = [pc EXCEPT ![t] = where]
      /\ open' = {} /\ iter' = 0
  BY <1>1 DEF Finish, Go, Planned
<1>3. pc'[t] = where /\ \A u \in Thread : pc'[u] \in Planned => u = t
  BY <1>2, SearcherAlone
<1>4. \A u \in Thread : pc'[u] \notin Planned
  BY <1>1, <1>3 DEF Planned
<1>5. IsFiniteSet(open') /\ iter' \in Nat
  BY <1>2, FS_EmptySet
<1> QED
  BY <1>4, <1>5 DEF SearchInv, Planned

LEMMA SearchStep == PlanInv /\ SearchInv /\ [Next]_vars => SearchInv'
<1> SUFFICES ASSUME PlanInv, SearchInv, [Next]_vars PROVE SearchInv'
  OBVIOUS
<1>1. pc \in [Thread -> Working \cup Planned]
  BY DEF PlanInv, Typed
<1>2. CASE UNCHANGED vars
  <2>1. UNCHANGED <<search, ends>> /\ pc' = pc
    BY <1>2 DEF vars
  <2> QED
    BY <2>1, SearchStays
<1>3. ASSUME NEW t \in Thread,
             \/ Inject(t)
             \/ \E echoes \in Echoes : Trace(t, echoes)
             \/ \E objects \in Frame : TakeFrame(t, objects)
             \/ Mark(t)
             \/ Return(t)
      PROVE  SearchInv'
  <2>1. UNCHANGED <<search, ends>>
    BY <1>3 DEF Inject, Trace, TakeFrame, Mark, Return
  <2>2. \/ pc' = pc
        \/ \E where \in Working : pc' = [pc EXCEPT ![t] = where]
    BY <1>3 DEF Inject, Trace, TakeFrame, Mark, Return, Go, Working
  <2>3. \A u \in Thread : pc'[u] = pc[u] \/ pc'[u] \notin Planned
    <3>1. ASSUME NEW where \in Working, pc' = [pc EXCEPT ![t] = where]
          PROVE  \A u \in Thread : pc'[u] = pc[u] \/ pc'[u] \notin Planned
      <4>1. where \notin Planned
        BY DEF Working, Planned
      <4> QED
        BY <1>1, <3>1, <4>1
    <3> QED
      BY <2>2, <3>1
  <2> QED
    BY <2>1, <2>3, SearchStays
<1> QED
  BY <1>2, <1>3, SearchSnapshot, SearchIterate, SearchExhausted, SearchReconstruct,
     SearchFinish DEF Next

LEMMA SearchAlways == Spec => []SearchInv
  BY SearchInit, SearchStep, PlanAlways, PTL DEF Spec

(***************************************************************************)
(* The path that search() returns is a cheapest one, and it misses none    *)
(* unless max_iterations cuts it short, on a grid of any size and content, *)
(* with any obstacles and however the queue orders nodes of equal f.       *)
(***************************************************************************)
THEOREM PlannedPathBest == Spec => []FindsBest
<1>1. ASSUME PlanInv, SearchInv PROVE FindsBest
  <2>1. /\ snapshot \in Grid /\ from \in Cell /\ to \in Cell
        /\ open \in SUBSET Node /\ closed \in Seq(Node) /\ Tree(snapshot, from, closed)
        /\ Len(closed) \in Nat /\ DOMAIN closed = 1..Len(closed)
    BY <1>1, NodesTyped DEF PlanInv, Typed
  <2>2. Rounds \in Nat /\ Infinite = 241 * Rounds /\ Infinite \in Nat
    BY CellsFinite DEF Rounds, Infinite, MaxStepCost
  <2>3. ASSUME NEW t \in Thread, pc[t] = "found", closed # <<>>
        PROVE  closed[Len(closed)].g = Best(snapshot, from)[to]
    <3> DEFINE l == Len(closed)
    <3>1. Guided(snapshot, from, to, closed, open) /\ closed[l].cell = to
      BY <1>1, <2>3 DEF SearchInv, Arrived
    <3>2. l \in DOMAIN closed /\ l <= Rounds
      BY <2>1, <2>3, TreeFits
    <3>3. closed[l].g \in Nat /\ closed[l].g <= 240 * closed[l].parent
      BY <3>1, <3>2 DEF Guided, Priced, MaxStepCost
    <3>4. closed[l].parent \in Nat /\ closed[l].parent < l
      BY <2>1, <3>2, NodesTyped DEF Tree
    <3>5. closed[l].g <= Infinite
      BY <2>1, <2>2, <3>2, <3>3, <3>4
    <3> HIDE DEF l
    <3>6. closed[l].g <= Costs(snapshot, from)[Rounds][to]
      BY <2>1, <3>1, <3>2, <3>5, NoneCheaper
    <3>7. Costs(snapshot, from)[Rounds][closed[l].cell] <= closed[l].g
      BY <2>1, <3>1, <3>2, NoneDearer
    <3>8. Costs(snapshot, from)[Rounds][to] \in Nat
      BY <2>1, <2>2, CostsNat
    <3>9. closed[l].g = Costs(snapshot, from)[Rounds][to]
      BY <3>1, <3>3, <3>6, <3>7, <3>8
    <3> QED
      BY <3>9 DEF l, Best, Rounds
  <2>4. ASSUME NEW t \in Thread, pc[t] = "no path", ~CutShort,
               Snapped(snapshot, Start) # {}, Snapped(snapshot, goal) # {}
        PROVE  Best(snapshot, from)[to] >= Infinite
    <3>1. Sought /\ (open = {} \/ iter >= MaxIterations) /\ iter \in Nat /\ IsFiniteSet(open)
      BY <1>1, <2>4 DEF SearchInv
    <3>2. Cardinality(open) \in Nat
      BY <3>1, FS_CardinalityType
    <3>3. Len(closed) < Rounds
      BY <2>1, <3>1, TreeSpares DEF Sought
    <3>4. iter < 8 * Rounds
      BY <2>1, <2>2, <3>1, <3>2, <3>3 DEF Sought
    <3>5. open = {}
      <4>1. ~(iter >= MaxIterations /\ MaxIterations < 8 * Rounds)
        BY <2>4 DEF CutShort, Rounds
      <4>2. ASSUME NEW i \in Nat, NEW limit \in Nat, NEW n \in Nat, i < 8 * n, i >= limit
            PROVE  limit < 8 * n
        BY <4>2
      <4> QED
        BY <2>2, <3>1, <3>4, <4>1, <4>2, PlanningAssumption
    <3>6. Guided(snapshot, from, to, closed, {})
      BY <3>1, <3>5 DEF Sought
    <3> QED
      BY <2>1, <3>1, <3>6, NoneMissed DEF Sought, Best, Rounds
  <2> QED
    BY <2>3, <2>4 DEF FindsBest, Done
<1> QED
  BY <1>1, PlanAlways, SearchAlways, PTL
=============================================================================
