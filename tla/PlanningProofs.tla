---------------------------- MODULE PlanningProofs ----------------------------
(***************************************************************************)
(* What Planning promises of a path, for grids of every size, any number   *)
(* of threads and every scan and frame.  The search is followed node by    *)
(* node: the expanded nodes form a tree of moves with its root at the      *)
(* start, and the path is what reconstruct() reads off it from the goal.   *)
(***************************************************************************)
EXTENDS Planning, SequenceTheorems, TLAPS

Working == {"idle", "trace", "frame", "mark"}
Node == [cell : Cell, g : Int, f : Int, parent : Nat]

Typed ==
    /\ grid \in Grid /\ snapshot \in Grid
    /\ pc \in [Thread -> Working \cup Planned]
    /\ from \in Cell /\ to \in Cell
    /\ open \subseteq Node /\ closed \in Seq(Node)
    /\ path \in Seq(Cell) /\ back \in Nat

\* One search at a time.
Alone == \A t, u \in Thread : pc[t] \in Planned /\ pc[u] \in Planned => t = u

\* An obstacle once seen is lethal, in the grid and in the copy.
Marked(g, cells) == \A c \in cells \cap Cell : g[c] = LETHAL

\* A node is the start or one move from an expanded node.
Leads(g, start, nodes, n) ==
    /\ Traversable(g, n.cell)
    /\ IF n.parent = 0 THEN n.cell = start
       ELSE /\ n.parent \in DOMAIN nodes
            /\ n.cell \in Moves(g, nodes[n.parent].cell)

\* The expanded nodes form a tree of moves, with every cell in it once.
Tree(g, start, nodes) ==
    /\ \A i \in DOMAIN nodes :
          nodes[i].parent < i /\ Leads(g, start, nodes, nodes[i])
    /\ \A i, j \in DOMAIN nodes : nodes[i].cell = nodes[j].cell => i = j

Queued == \A n \in open : Leads(snapshot, from, closed, n)

\* What there is of the path can be driven.
Drivable ==
    /\ \A k \in DOMAIN path : Traversable(snapshot, path[k])
    /\ \A k \in 1..(Len(path) - 1) : path[k + 1] \in Moves(snapshot, path[k])
    /\ \A k, l \in DOMAIN path : path[k] = path[l] => k = l

\* It is one move from the node that comes next, and passed none before it.
Joins ==
    /\ back \in {0} \cup DOMAIN closed
    /\ IF path = <<>> THEN back # 0 /\ closed[back].cell = to
       ELSE /\ path[Len(path)] = to
            /\ IF back = 0 THEN path[1] = from
               ELSE path[1] \in Moves(snapshot, closed[back].cell)
    /\ \A k \in DOMAIN path :
          \E i \in DOMAIN closed : back < i /\ path[k] = closed[i].cell

Walk ==
    \A t \in Thread :
        /\ pc[t] = "search" => path = <<>>
        /\ pc[t] = "reconstruct" => Joins
        /\ pc[t] = "found" => path # <<>> /\ path[1] = from /\ path[Len(path)] = to

PlanInv ==
    /\ Typed /\ Alone
    /\ Marked(grid, seen) /\ Marked(snapshot, known)
    /\ Tree(snapshot, from, closed) /\ Queued
    /\ Drivable /\ Walk

-----------------------------------------------------------------------------
(***************************************************************************)
(* The operators on grids.                                                 *)
(***************************************************************************)
LEMMA MaxOfTwo ==
    ASSUME NEW a \in Int, NEW b \in Int
    PROVE  Max({a, b}) \in {a, b} /\ Max({a, b}) >= a /\ Max({a, b}) >= b
<1>1. \E x \in {a, b} : \A y \in {a, b} : x >= y
  OBVIOUS
<1> QED
  BY <1>1 DEF Max

LEMMA MinOfTwo ==
    ASSUME NEW a \in Int, NEW b \in Int
    PROVE  Min({a, b}) \in {a, b}
<1>1. \E x \in {a, b} : \A y \in {a, b} : x =< y
  OBVIOUS
<1> QED
  BY <1>1 DEF Min

LEMMA CellCoordinates ==
    ASSUME NEW c \in Cell
    PROVE  c[1] \in Nat /\ c[2] \in Nat /\ c = <<c[1], c[2]>>
  BY GridAssumption DEF Cell

(***************************************************************************)
(* inflate() never lowers a cost, so that what was lethal stays lethal.    *)
(***************************************************************************)
LEMMA InflateMarks ==
    ASSUME NEW g \in Grid, NEW obstacles, NEW cells, Marked(g, cells)
    PROVE  /\ Inflate(g, obstacles) \in Grid
           /\ Marked(Inflate(g, obstacles), cells \cup obstacles)
<1> DEFINE h == Inflate(g, obstacles)
<1>1. h = [c \in Cell |-> h[c]]
  BY DEF Inflate
<1>2. ASSUME NEW c \in Cell
      PROVE  /\ h[c] \in FREE..LETHAL
             /\ c \in cells \cup obstacles => h[c] = LETHAL
  <2>1. g[c] \in FREE..LETHAL /\ (c \in cells => g[c] = LETHAL)
    BY DEF Grid, Marked
  <2>2. /\ Max({g[c], INSCRIBED}) \in {g[c], INSCRIBED}
        /\ Max({g[c], INSCRIBED}) >= g[c]
    <3>1. g[c] \in Int /\ INSCRIBED \in Int
      BY <2>1 DEF FREE, LETHAL, INSCRIBED
    <3> QED
      BY <3>1, MaxOfTwo, Zenon
  <2>3. Decay \in Int /\ Decay \in FREE..LETHAL
    BY GridAssumption DEF FREE, LETHAL, INSCRIBED
  <2>4. /\ Max({g[c], Decay}) \in {g[c], Decay}
        /\ Max({g[c], Decay}) >= g[c]
    <3>1. g[c] \in Int
      BY <2>1 DEF FREE, LETHAL
    <3> QED
      BY <3>1, <2>3, MaxOfTwo, Zenon
  <2>5. \/ c \in obstacles /\ h[c] = LETHAL
        \/ c \notin obstacles
           /\ h[c] \in {g[c], Max({g[c], INSCRIBED}), Max({g[c], Decay})}
    BY DEF Inflate
  <2> QED
    BY <2>1, <2>2, <2>3, <2>4, <2>5 DEF FREE, LETHAL, INSCRIBED
<1> QED
  BY <1>1, <1>2 DEF Grid, Marked

(***************************************************************************)
(* A ray clears no lethal cell.                                            *)
(***************************************************************************)
LEMMA RaytraceMarks ==
    ASSUME NEW g \in Grid, NEW lidar, NEW echoes, NEW cells, Marked(g, cells)
    PROVE  /\ Raytrace(g, lidar, echoes) \in Grid
           /\ Marked(Raytrace(g, lidar, echoes), cells \cup echoes)
<1> DEFINE h == Raytrace(g, lidar, echoes)
<1>1. h = [c \in Cell |-> h[c]]
  BY DEF Raytrace
<1>2. ASSUME NEW c \in Cell
      PROVE  /\ h[c] \in FREE..LETHAL
             /\ c \in cells \cup echoes => h[c] = LETHAL
  <2>1. g[c] \in FREE..LETHAL /\ (c \in cells => g[c] = LETHAL)
    BY DEF Grid, Marked
  <2>2. \/ c \in echoes /\ h[c] = LETHAL
        \/ c \notin echoes /\ h[c] \in {g[c], Cleared(g[c])}
    BY DEF Raytrace
  <2> QED
    BY <2>1, <2>2 DEF Cleared, FREE, LETHAL
<1> QED
  BY <1>1, <1>2 DEF Grid, Marked

LEMMA AbsDiffNat ==
    ASSUME NEW m \in Int, NEW n \in Int
    PROVE  AbsDiff(m, n) \in Nat
  BY DEF AbsDiff

LEMMA HeuristicInt ==
    ASSUME NEW a \in Cell, NEW b \in Cell
    PROVE  Heuristic(a, b) \in Int
<1> DEFINE dx == AbsDiff(a[1], b[1])
           dy == AbsDiff(a[2], b[2])
<1>1. dx \in Nat /\ dy \in Nat
  BY CellCoordinates, AbsDiffNat
<1>2. Heuristic(a, b) = 141 * Min({dx, dy}) + 100 * AbsDiff(dx, dy)
  BY DEF Heuristic
<1> HIDE DEF dx, dy
<1>3. Min({dx, dy}) \in Int /\ AbsDiff(dx, dy) \in Int
  <2>1. dx \in Int /\ dy \in Int
    BY <1>1
  <2>2. Min({dx, dy}) \in {dx, dy}
    BY <2>1, MinOfTwo, Zenon
  <2>3. AbsDiff(dx, dy) \in Nat
    BY <2>1, AbsDiffNat, Zenon
  <2> QED
    BY <2>1, <2>2, <2>3
<1> QED
  BY <1>2, <1>3

LEMMA StepCostInt ==
    ASSUME NEW g \in Grid, NEW c \in Cell, NEW d \in Cell
    PROVE  StepCost(g, c, d) \in Int
<1>1. g[d] \in Int
  BY DEF Grid, FREE, LETHAL
<1>2. (100 * g[d]) \div INSCRIBED \in Int
  BY <1>1 DEF INSCRIBED
<1> QED
  BY <1>2 DEF StepCost

(***************************************************************************)
(* snap_endpoint() ends on a cell that can be entered.                     *)
(***************************************************************************)
LEMMA SnappedFree ==
    ASSUME NEW g, NEW c \in Cell, NEW d \in Snapped(g, c)
    PROVE  d \in Cell /\ Traversable(g, d)
  BY DEF Snapped, Traversable

(***************************************************************************)
(* A move is a single step into a free cell past two free ones.            *)
(***************************************************************************)
LEMMA MoveSound ==
    ASSUME NEW g, NEW c \in Cell, NEW d \in Moves(g, c)
    PROVE  /\ d \in Cell /\ Traversable(g, d) /\ Adjacent(c, d)
           /\ g[<<d[1], c[2]>>] < INSCRIBED /\ g[<<c[1], d[2]>>] < INSCRIBED
<1>1. d \in Cell /\ DistSq(c, d) <= 2
  BY DEF Moves
<1>2. c[1] \in Int /\ c[2] \in Int /\ d[1] \in Int /\ d[2] \in Int
  BY <1>1, CellCoordinates
<1>3. ASSUME NEW x \in Int, NEW y \in Int, x * x + y * y <= 2
      PROVE  x <= 1 /\ -1 <= x /\ y <= 1 /\ -1 <= y
  <2>1. ASSUME NEW z \in Int PROVE z * z >= 0 /\ (z > 1 \/ z < -1 => z * z > 2)
    <3>1. CASE z > 1
      BY <3>1
    <3>2. CASE z < -1
      BY <3>2
    <3> QED
      BY <3>1, <3>2
  <2>2. x * x \in Int /\ y * y \in Int
    OBVIOUS
  <2>3. x * x >= 0 /\ y * y >= 0
    BY <2>1
  <2>4. ASSUME NEW p \in Int, NEW q \in Int, p >= 0, q >= 0, p + q <= 2
        PROVE  p <= 2 /\ q <= 2
    BY <2>4
  <2>5. x * x <= 2 /\ y * y <= 2
    BY <1>3, <2>2, <2>3, <2>4
  <2> QED
    BY <2>1, <2>5
<1>4. Adjacent(c, d)
  <2>1. c[1] - d[1] <= 1 /\ -1 <= c[1] - d[1] /\ c[2] - d[2] <= 1 /\ -1 <= c[2] - d[2]
    BY <1>1, <1>2, <1>3 DEF DistSq
  <2> QED
    BY <1>2, <2>1 DEF Adjacent, AbsDiff
<1> QED
  BY <1>1, <1>4 DEF Moves, Traversable

-----------------------------------------------------------------------------
(***************************************************************************)
(* The search tree grows by one node at a time.                            *)
(***************************************************************************)
LEMMA TreeGrows ==
    ASSUME NEW g, NEW start, NEW nodes \in Seq(Node), NEW n \in Node,
           Tree(g, start, nodes), Leads(g, start, nodes, n),
           \A i \in DOMAIN nodes : nodes[i].cell # n.cell
    PROVE  /\ Tree(g, start, Append(nodes, n))
           /\ \A m : Leads(g, start, nodes, m) => Leads(g, start, Append(nodes, n), m)
<1> DEFINE more == Append(nodes, n)
<1>1. /\ DOMAIN nodes = 1..Len(nodes) /\ Len(nodes) \in Nat
      /\ DOMAIN more = 1..(Len(nodes) + 1)
      /\ \A i \in DOMAIN nodes : more[i] = nodes[i]
      /\ more[Len(nodes) + 1] = n
  OBVIOUS
<1>2. n.parent \in Nat
  BY DEF Node
<1>3. \A i \in DOMAIN more : i \in DOMAIN nodes \/ i = Len(nodes) + 1
  BY <1>1
<1> HIDE DEF more
<1>4. ASSUME NEW m, Leads(g, start, nodes, m) PROVE Leads(g, start, more, m)
  <2>1. CASE m.parent = 0
    BY <1>4, <2>1 DEF Leads
  <2>2. CASE m.parent # 0
    <3>1. m.parent \in DOMAIN nodes /\ m.cell \in Moves(g, nodes[m.parent].cell)
      BY <1>4, <2>2 DEF Leads
    <3>2. m.parent \in DOMAIN more /\ more[m.parent] = nodes[m.parent]
      BY <1>1, <3>1
    <3> QED
      BY <1>4, <2>2, <3>1, <3>2 DEF Leads
  <2> QED
    BY <2>1, <2>2
<1>5. n.parent < Len(nodes) + 1
  <2>1. CASE n.parent = 0
    BY <2>1, <1>1
  <2>2. CASE n.parent # 0
    BY <2>2, <1>1 DEF Leads
  <2> QED
    BY <2>1, <2>2
<1>6. ASSUME NEW i \in DOMAIN more
      PROVE  more[i].parent < i /\ Leads(g, start, more, more[i])
  <2>1. CASE i \in DOMAIN nodes
    <3>1. nodes[i].parent < i /\ Leads(g, start, nodes, nodes[i])
      BY <2>1 DEF Tree
    <3> QED
      BY <3>1, <2>1, <1>1, <1>4
  <2>2. CASE i = Len(nodes) + 1
    BY <2>2, <1>1, <1>4, <1>5
  <2> QED
    BY <2>1, <2>2, <1>3
<1>7. ASSUME NEW i \in DOMAIN more, NEW j \in DOMAIN more, more[i].cell = more[j].cell
      PROVE  i = j
  <2>1. CASE i \in DOMAIN nodes /\ j \in DOMAIN nodes
    BY <2>1, <1>1, <1>7 DEF Tree
  <2>2. CASE i \in DOMAIN nodes /\ j = Len(nodes) + 1
    BY <2>2, <1>1, <1>7
  <2>3. CASE i = Len(nodes) + 1 /\ j \in DOMAIN nodes
    BY <2>3, <1>1, <1>7
  <2> QED
    BY <2>1, <2>2, <2>3, <1>3
<1>8. Tree(g, start, more)
  BY <1>6, <1>7 DEF Tree
<1> QED
  BY <1>4, <1>8 DEF more

LEMMA Prepended ==
    ASSUME NEW c \in Cell, NEW s \in Seq(Cell)
    PROVE  /\ <<c>> \o s \in Seq(Cell)
           /\ Len(<<c>> \o s) = Len(s) + 1
           /\ (<<c>> \o s)[1] = c
           /\ \A k \in 1..Len(s) : (<<c>> \o s)[k + 1] = s[k]
<1>1. <<c>> \in Seq(Cell) /\ Len(<<c>>) = 1 /\ <<c>>[1] = c
  OBVIOUS
<1> QED
  BY <1>1, ConcatProperties, Z3

(***************************************************************************)
(* What the threads write leaves the search alone.                         *)
(***************************************************************************)
LEMMA WriterStep ==
    ASSUME PlanInv, NEW t \in Thread, NEW where \in Working,
           pc' = [pc EXCEPT ![t] = where],
           grid' \in Grid, Marked(grid', seen'), UNCHANGED <<search, ends>>
    PROVE  PlanInv'
<1>1. UNCHANGED <<open, closed, path, back, snapshot, from, to, known>>
  BY DEF search, ends
<1>2. \A u \in Thread : pc'[u] = pc[u] \/ pc'[u] \in Working
  BY DEF PlanInv, Typed
<1>3. \A u \in Thread : pc'[u] \in Planned => pc'[u] = pc[u]
  BY <1>2 DEF Working, Planned
<1>4. Typed'
  BY <1>1 DEF PlanInv, Typed
<1>5. Alone'
  BY <1>3 DEF PlanInv, Alone
<1>6. Marked(grid, seen)' /\ Marked(snapshot, known)'
  BY <1>1 DEF PlanInv, Marked
<1>7. Tree(snapshot, from, closed)' /\ Queued'
  BY <1>1 DEF PlanInv, Queued
<1>8. Drivable'
  BY <1>1 DEF PlanInv, Drivable
<1>9. Walk'
  <2> SUFFICES ASSUME NEW u \in Thread
               PROVE  /\ pc'[u] = "search" => path' = <<>>
                      /\ pc'[u] = "reconstruct" => Joins'
                      /\ pc'[u] = "found" => /\ path' # <<>> /\ path'[1] = from'
                                             /\ path'[Len(path')] = to'
    BY DEF Walk
  <2>1. Joins => Joins'
    BY <1>1 DEF Joins
  <2> QED
    BY <1>1, <1>3, <2>1 DEF PlanInv, Walk, Planned
<1> QED
  BY <1>4, <1>5, <1>6, <1>7, <1>8, <1>9 DEF PlanInv

LEMMA PlanInit == Init => PlanInv
<1> SUFFICES ASSUME Init PROVE PlanInv
  OBVIOUS
<1>1. Typed
  <2>1. grid \in Grid /\ snapshot \in Grid
    BY DEF Init, Grid, FREE, LETHAL
  <2>2. from \in Cell /\ to \in Cell
    BY PlanningAssumption DEF Init
  <2> QED
    BY <2>1, <2>2 DEF Init, Typed, Working, Planned
<1>2. Alone
  BY DEF Init, Alone, Planned
<1>3. Marked(grid, seen) /\ Marked(snapshot, known)
  BY DEF Init, Marked
<1>4. Tree(snapshot, from, closed) /\ Queued /\ Drivable
  BY DEF Init, Tree, Queued, Drivable
<1>5. Walk
  BY DEF Init, Walk
<1> QED
  BY <1>1, <1>2, <1>3, <1>4, <1>5 DEF PlanInv

(***************************************************************************)
(* The copy is taken when no other thread searches one.                    *)
(***************************************************************************)
LEMMA SnapshotStep ==
    ASSUME PlanInv, NEW t \in Thread, Snapshot(t)
    PROVE  PlanInv'
<1>1. /\ grid \in Grid /\ pc \in [Thread -> Working \cup Planned]
      /\ from \in Cell /\ to \in Cell /\ Marked(grid, seen)
  BY DEF PlanInv, Typed
<1>2. /\ \A u \in Thread : pc[u] \notin Planned
      /\ snapshot' = grid /\ known' = seen /\ grid' = grid /\ seen' = seen
      /\ closed' = <<>> /\ back' = 0 /\ goal' \in Goals
  BY DEF Snapshot, writers
<1>3. Start \in Cell /\ goal' \in Cell
  BY <1>2, PlanningAssumption
<1>4. Marked(grid, seen)' /\ Marked(snapshot, known)'
  BY <1>1, <1>2 DEF Marked
<1>5. Tree(snapshot, from, closed)'
  BY <1>2 DEF Tree
<1>6. ASSUME NEW where \in Planned, pc' = [pc EXCEPT ![t] = where]
      PROVE  /\ pc' \in [Thread -> Working \cup Planned] /\ pc'[t] = where
             /\ \A u \in Thread : pc'[u] \in Planned => u = t
             /\ Alone'
  <2>1. pc' \in [Thread -> Working \cup Planned]
    BY <1>1, <1>6
  <2>2. \A u \in Thread : pc'[u] \in Planned => u = t
    BY <1>1, <1>2, <1>6
  <2> QED
    BY <1>1, <1>6, <2>1, <2>2 DEF Alone
<1>7. CASE /\ Go(t, "no path") /\ open' = {} /\ path' = <<>>
           /\ UNCHANGED <<from, to>>
  <2>1. PICK where \in Planned : where = "no path"
    BY DEF Planned
  <2>2. pc' = [pc EXCEPT ![t] = where]
    BY <1>7, <2>1 DEF Go
  <2>3. open' = {} /\ path' = <<>> /\ from' = from /\ to' = to
    BY <1>7, Zenon
  <2>4. Typed'
    BY <1>1, <1>2, <1>6, <2>2, <2>3 DEF Typed
  <2>5. Queued' /\ Drivable'
    BY <2>3 DEF Queued, Drivable
  <2>6. Walk'
    BY <1>6, <2>1, <2>2 DEF Walk, Planned
  <2> QED
    BY <1>4, <1>5, <1>6, <2>2, <2>4, <2>5, <2>6 DEF PlanInv
<1>8. ASSUME NEW s \in Snapped(grid, Start), NEW e \in Snapped(grid, goal'),
             from' = s, to' = e,
             IF s = e THEN Go(t, "found") /\ open' = {} /\ path' = <<s>>
             ELSE /\ Go(t, "search")
                  /\ open' = {NewNode(s, 0, 0)} /\ path' = <<>>
      PROVE  PlanInv'
  <2>1. s \in Cell /\ Traversable(grid, s) /\ e \in Cell
    BY <1>3, SnappedFree
  <2>2. CASE s = e
    <3>1. PICK where \in Planned : where = "found"
      BY DEF Planned
    <3>2. pc' = [pc EXCEPT ![t] = where] /\ open' = {} /\ path' = <<s>>
      BY <1>8, <2>2, <3>1 DEF Go
    <3>3. path' \in Seq(Cell) /\ Len(path') = 1 /\ path'[1] = s /\ path' # <<>>
      BY <2>1, <3>2
    <3>4. Typed'
      BY <1>1, <1>2, <1>6, <1>8, <2>1, <3>2, <3>3 DEF Typed
    <3>5. Queued'
      BY <3>2 DEF Queued
    <3>6. Drivable'
      BY <1>2, <2>1, <3>3 DEF Drivable
    <3>7. Walk'
      BY <1>6, <1>8, <2>2, <3>1, <3>2, <3>3 DEF Walk, Planned
    <3> QED
      BY <1>4, <1>5, <1>6, <3>2, <3>4, <3>5, <3>6, <3>7 DEF PlanInv
  <2>3. CASE s # e
    <3>1. PICK where \in Planned : where = "search"
      BY DEF Planned
    <3>2. /\ pc' = [pc EXCEPT ![t] = where]
          /\ open' = {NewNode(s, 0, 0)} /\ path' = <<>>
      BY <1>8, <2>3, <3>1 DEF Go
    <3>3. Heuristic(s, to') \in Int
      BY <1>8, <2>1, HeuristicInt
    <3>4. /\ NewNode(s, 0, 0) \in Node
          /\ NewNode(s, 0, 0).cell = s /\ NewNode(s, 0, 0).parent = 0
      BY <2>1, <3>3 DEF NewNode, Node
    <3>5. Typed'
      BY <1>1, <1>2, <1>6, <1>8, <2>1, <3>2, <3>4 DEF Typed
    <3>6. Queued'
      BY <1>2, <1>8, <2>1, <3>2, <3>4 DEF Queued, Leads
    <3>7. Drivable'
      BY <3>2 DEF Drivable
    <3>8. Walk'
      BY <1>6, <3>1, <3>2 DEF Walk, Planned
    <3> QED
      BY <1>4, <1>5, <1>6, <3>2, <3>5, <3>6, <3>7, <3>8 DEF PlanInv
  <2> QED
    BY <2>2, <2>3
<1> QED
  BY <1>7, <1>8 DEF Snapshot

(***************************************************************************)
(* A step of the thread that searches, in which the ends stay.             *)
(***************************************************************************)
LEMMA SearcherAlone ==
    ASSUME PlanInv, NEW t \in Thread, pc[t] \in Planned,
           NEW where \in Planned \cup Working, pc' = [pc EXCEPT ![t] = where]
    PROVE  /\ pc' \in [Thread -> Working \cup Planned] /\ pc'[t] = where
           /\ \A u \in Thread : pc'[u] \in Planned => u = t
           /\ Alone'
<1>1. pc \in [Thread -> Working \cup Planned]
  BY DEF PlanInv, Typed
<1>2. \A u \in Thread : pc[u] \in Planned => u = t
  BY DEF PlanInv, Alone
<1>3. pc' \in [Thread -> Working \cup Planned] /\ pc'[t] = where
  BY <1>1
<1>4. \A u \in Thread : pc'[u] \in Planned => u = t
  BY <1>1, <1>2
<1> QED
  BY <1>3, <1>4 DEF Alone

(***************************************************************************)
(* A turn of the search: a stale node is dropped, any other joins the tree *)
(* and, unless it is the goal, its neighbours the queue.                   *)
(***************************************************************************)
LEMMA IterateStep ==
    ASSUME PlanInv, NEW t \in Thread, Iterate(t)
    PROVE  PlanInv'
<1>1. /\ grid \in Grid /\ snapshot \in Grid /\ from \in Cell /\ to \in Cell
      /\ pc \in [Thread -> Working \cup Planned]
      /\ open \subseteq Node /\ closed \in Seq(Node)
      /\ path \in Seq(Cell) /\ back \in Nat
  BY DEF PlanInv, Typed
<1>2. /\ pc[t] = "search" /\ pc[t] \in Planned
      /\ grid' = grid /\ seen' = seen /\ snapshot' = snapshot /\ known' = known
      /\ from' = from /\ to' = to
  BY DEF Iterate, ends, writers, Planned
<1>3. PICK n \in Top : Stale(t, n) \/ Reached(t, n) \/ Expanded(n)
  BY DEF Iterate
<1>4. /\ n \in open /\ n \in Node /\ n.cell \in Cell /\ n.g \in Int
      /\ Leads(snapshot, from, closed, n)
  <2>1. n \in open
    BY DEF Top
  <2>2. n \in Node
    BY <1>1, <2>1
  <2> QED
    BY <2>1, <2>2 DEF PlanInv, Queued, Node
<1>5. Marked(grid, seen)' /\ Marked(snapshot, known)'
  BY <1>2 DEF PlanInv, Marked
<1>6. path = <<>>
  BY <1>2 DEF PlanInv, Walk
<1>7. CASE Stale(t, n)
  <2>1. /\ open' = open \ {n} /\ closed' = closed /\ path' = path
        /\ back' = back /\ pc' = pc
    BY <1>7 DEF Stale
  <2>2. Typed'
    BY <1>1, <1>2, <2>1 DEF Typed
  <2>3. Alone'
    BY <2>1 DEF PlanInv, Alone
  <2>4. Tree(snapshot, from, closed)' /\ Queued'
    BY <1>2, <2>1 DEF PlanInv, Queued
  <2>5. Drivable'
    BY <1>2, <2>1 DEF PlanInv, Drivable
  <2>6. Walk'
    <3>1. Joins => Joins'
      BY <1>2, <2>1 DEF Joins
    <3> QED
      BY <1>2, <2>1, <3>1 DEF PlanInv, Walk
  <2> QED
    BY <1>5, <2>2, <2>3, <2>4, <2>5, <2>6 DEF PlanInv
<1>8. ASSUME closed' = Append(closed, n), n.cell \notin Visited
      PROVE  /\ closed' \in Seq(Node) /\ Len(closed') = Len(closed) + 1
             /\ Len(closed') \in DOMAIN closed' /\ Len(closed') \in Nat
             /\ closed'[Len(closed')] = n
             /\ Tree(snapshot, from, closed)'
             /\ \A m : Leads(snapshot, from, closed, m)
                         => Leads(snapshot', from', closed', m)
  <2>1. \A i \in DOMAIN closed : closed[i].cell # n.cell
    BY <1>8 DEF Visited
  <2>2. Tree(snapshot, from, closed)
    BY DEF PlanInv
  <2>3. /\ Tree(snapshot, from, Append(closed, n))
        /\ \A m : Leads(snapshot, from, closed, m)
                    => Leads(snapshot, from, Append(closed, n), m)
    BY <1>1, <1>4, <2>1, <2>2, TreeGrows
  <2>4. /\ Append(closed, n) \in Seq(Node)
        /\ Len(Append(closed, n)) = Len(closed) + 1 /\ Len(closed) \in Nat
        /\ DOMAIN Append(closed, n) = 1..(Len(closed) + 1)
        /\ Append(closed, n)[Len(closed) + 1] = n
    BY <1>1, <1>4
  <2> QED
    BY <1>2, <1>8, <2>3, <2>4
<1>9. CASE Reached(t, n)
  <2>1. PICK where \in Planned : where = "reconstruct"
    BY DEF Planned
  <2>2. /\ closed' = Append(closed, n) /\ n.cell \notin Visited /\ n.cell = to
        /\ back' = Len(closed') /\ open' = open \ {n} /\ path' = path
        /\ pc' = [pc EXCEPT ![t] = where]
    BY <1>9, <2>1 DEF Reached, Go
  <2>3. /\ pc' \in [Thread -> Working \cup Planned] /\ pc'[t] = where
        /\ \A u \in Thread : pc'[u] \in Planned => u = t
        /\ Alone'
    BY <1>2, <2>2, SearcherAlone
  <2>4. Typed'
    BY <1>1, <1>2, <1>8, <2>2, <2>3 DEF Typed
  <2>5. Queued'
    BY <1>8, <2>2 DEF PlanInv, Queued
  <2>6. Drivable'
    BY <1>2, <2>2 DEF PlanInv, Drivable
  <2>7. Walk'
    <3>1. back' \in DOMAIN closed' /\ back' # 0 /\ closed'[back'].cell = to'
      BY <1>1, <1>2, <1>8, <2>2
    <3>2. path' = <<>>
      BY <1>6, <2>2
    <3>3. Joins'
      BY <3>1, <3>2 DEF Joins
    <3> QED
      BY <2>1, <2>3, <3>3 DEF Walk, Planned
  <2> QED
    BY <1>5, <1>8, <2>2, <2>3, <2>4, <2>5, <2>6, <2>7 DEF PlanInv
<1>10. CASE Expanded(n)
  <2> DEFINE new(d) == NewNode(d, n.g + StepCost(snapshot, n.cell, d), Len(closed'))
  <2>1. /\ closed' = Append(closed, n) /\ n.cell \notin Visited
        /\ open' = (open \ {n}) \cup
              {new(d) : d \in Moves(snapshot, n.cell) \ Visited}
        /\ path' = path /\ back' = back /\ pc' = pc
    BY <1>10 DEF Expanded
  <2>2. ASSUME NEW d \in Moves(snapshot, n.cell)
        PROVE  new(d) \in Node /\ Leads(snapshot', from', closed', new(d))
    <3>1. d \in Cell /\ Traversable(snapshot, d)
      BY DEF Moves
    <3>2. Heuristic(d, to') \in Int
      BY <1>1, <1>2, <3>1, HeuristicInt
    <3>3. n.g + StepCost(snapshot, n.cell, d) \in Int
      <4>1. StepCost(snapshot, n.cell, d) \in Int
        BY <1>1, <1>4, <3>1, StepCostInt, Zenon
      <4> QED
        BY <1>4, <4>1
    <3>4. /\ Len(closed') \in Nat /\ Len(closed') \in DOMAIN closed'
          /\ closed'[Len(closed')] = n /\ Len(closed') # 0
      BY <1>1, <1>8, <2>1
    <3>5. new(d) \in Node /\ new(d).cell = d /\ new(d).parent = Len(closed')
      BY <3>1, <3>2, <3>3, <3>4 DEF NewNode, Node
    <3> HIDE DEF new
    <3> QED
      BY <1>2, <3>1, <3>4, <3>5 DEF Leads
  <2> HIDE DEF new
  <2>3. open' \subseteq Node
    BY <1>1, <2>1, <2>2
  <2>4. Typed'
    BY <1>1, <1>2, <1>8, <2>1, <2>3 DEF Typed
  <2>5. Alone'
    BY <2>1 DEF PlanInv, Alone
  <2>6. Queued'
    <3>1. \A m \in open : Leads(snapshot', from', closed', m)
      BY <1>8, <2>1 DEF PlanInv, Queued
    <3> QED
      BY <2>1, <2>2, <3>1 DEF Queued
  <2>7. Drivable'
    BY <1>2, <2>1 DEF PlanInv, Drivable
  <2>8. Walk'
    <3>1. \A u \in Thread : pc[u] \in Planned => u = t
      BY <1>2 DEF PlanInv, Alone
    <3> QED
      BY <1>2, <1>6, <2>1, <3>1 DEF Walk, Planned
  <2> QED
    BY <1>5, <1>8, <2>1, <2>4, <2>5, <2>6, <2>7, <2>8 DEF PlanInv
<1> QED
  BY <1>3, <1>7, <1>9, <1>10

(***************************************************************************)
(* A turn of reconstruct(): a parent comes before its node, so the walk    *)
(* meets no cell twice and ends at the root.                               *)
(***************************************************************************)
LEMMA ReconstructStep ==
    ASSUME PlanInv, NEW t \in Thread, Reconstruct(t)
    PROVE  PlanInv'
<1>1. /\ grid \in Grid /\ snapshot \in Grid /\ from \in Cell /\ to \in Cell
      /\ pc \in [Thread -> Working \cup Planned]
      /\ open \subseteq Node /\ closed \in Seq(Node)
      /\ path \in Seq(Cell) /\ back \in Nat
  BY DEF PlanInv, Typed
<1>2. /\ pc[t] = "reconstruct" /\ pc[t] \in Planned
      /\ grid' = grid /\ seen' = seen /\ snapshot' = snapshot /\ known' = known
      /\ from' = from /\ to' = to /\ open' = open /\ closed' = closed
  BY DEF Reconstruct, ends, writers, Planned
<1>3. Joins
  BY <1>2 DEF PlanInv, Walk
<1>4. Marked(grid, seen)' /\ Marked(snapshot, known)'
  BY <1>2 DEF PlanInv, Marked
<1>5. Tree(snapshot, from, closed)' /\ Queued'
  BY <1>2 DEF PlanInv, Queued
<1>6. CASE back > 0 /\ pc' = pc /\ back' = closed[back].parent
           /\ path' = <<closed[back].cell>> \o path
  <2> DEFINE n == closed[back]
             c == n.cell
  <2>1. back \in DOMAIN closed
    BY <1>1, <1>3, <1>6 DEF Joins
  <2>2. n \in Node
    BY <1>1, <2>1
  <2>3. /\ n.parent < back /\ Leads(snapshot, from, closed, n)
        /\ \A i, j \in DOMAIN closed : closed[i].cell = closed[j].cell => i = j
    BY <2>1 DEF PlanInv, Tree
  <2>4. c \in Cell /\ n.parent \in Nat /\ Traversable(snapshot, c)
    BY <2>2, <2>3 DEF Node, Leads
  <2>5. back' = n.parent /\ path' = <<c>> \o path
    BY <1>6
  <2> HIDE DEF n
  <2>6. \A k \in DOMAIN path : path[k] # c
    BY <1>1, <1>3, <2>1, <2>3 DEF Joins, n
  <2> HIDE DEF c
  <2>7. /\ path' \in Seq(Cell) /\ Len(path') = Len(path) + 1 /\ path'[1] = c
        /\ \A k \in 1..Len(path) : path'[k + 1] = path[k]
    BY <1>1, <2>4, <2>5, Prepended
  <2>8. /\ DOMAIN path = 1..Len(path) /\ Len(path) \in Nat
        /\ DOMAIN path' = 1..(Len(path) + 1)
    BY <1>1, <2>7
  <2>9. \A k \in DOMAIN path' :
            \/ k = 1 /\ path'[k] = c
            \/ k - 1 \in DOMAIN path /\ k - 1 \in Int /\ path'[k] = path[k - 1]
    <3> SUFFICES ASSUME NEW k \in DOMAIN path', k # 1
                 PROVE  /\ k - 1 \in DOMAIN path /\ k - 1 \in Int
                        /\ path'[k] = path[k - 1]
      BY <2>7
    <3>1. k \in Int /\ k - 1 \in 1..Len(path) /\ (k - 1) + 1 = k
      BY <2>8
    <3>2. path'[(k - 1) + 1] = path[k - 1]
      BY <2>7, <3>1
    <3> QED
      BY <2>8, <3>1, <3>2
  <2>10. path # <<>> => path[1] \in Moves(snapshot, c) /\ path[Len(path)] = to
    BY <1>1, <1>3, <1>6 DEF Joins, c, n
  <2>11. path = <<>> => c = to
    BY <1>3 DEF Joins, c, n
  <2>12. Typed'
    BY <1>1, <1>2, <1>6, <2>4, <2>5, <2>7 DEF Typed
  <2>13. Alone'
    BY <1>6 DEF PlanInv, Alone
  <2>14. Drivable'
    <3>1. \A k \in DOMAIN path' : Traversable(snapshot, path'[k])
      BY <2>4, <2>9 DEF PlanInv, Drivable
    <3>2. ASSUME NEW k \in 1..(Len(path') - 1)
          PROVE  path'[k + 1] \in Moves(snapshot, path'[k])
      <4>1. k \in 1..Len(path) /\ path'[k + 1] = path[k]
        BY <2>7, <2>8
      <4>2. CASE k = 1
        <5>1. path # <<>>
          BY <1>1, <4>1, <4>2
        <5> QED
          BY <2>7, <2>10, <4>1, <4>2, <5>1
      <4>3. CASE k # 1
        <5>1. /\ k - 1 \in 1..(Len(path) - 1) /\ k - 1 \in 1..Len(path)
              /\ (k - 1) + 1 = k
          BY <2>8, <4>1, <4>3
        <5>2. path[(k - 1) + 1] \in Moves(snapshot, path[k - 1])
          BY <5>1 DEF PlanInv, Drivable
        <5>3. path'[(k - 1) + 1] = path[k - 1]
          BY <2>7, <5>1
        <5> QED
          BY <4>1, <5>1, <5>2, <5>3
      <4> QED
        BY <4>2, <4>3
    <3>3. ASSUME NEW k \in DOMAIN path', NEW l \in DOMAIN path', path'[k] = path'[l]
          PROVE  k = l
      <4>1. k \in Int /\ l \in Int
        BY <2>8
      <4>2. CASE k = 1 /\ path'[k] = c
        BY <2>6, <2>9, <3>3, <4>2
      <4>3. CASE l = 1 /\ path'[l] = c
        BY <2>6, <2>9, <3>3, <4>3
      <4>4. CASE /\ k - 1 \in DOMAIN path /\ path'[k] = path[k - 1]
                 /\ l - 1 \in DOMAIN path /\ path'[l] = path[l - 1]
        <5>1. k - 1 = l - 1
          BY <3>3, <4>4 DEF PlanInv, Drivable
        <5> QED
          BY <4>1, <5>1
      <4> QED
        BY <2>9, <4>2, <4>3, <4>4
    <3> QED
      BY <1>2, <3>1, <3>2, <3>3 DEF Drivable
  <2>15. Joins'
    <3>1. back' \in {0} \cup DOMAIN closed' /\ back' < back
      BY <1>1, <1>2, <2>1, <2>3, <2>4, <2>5
    <3>2. path' # <<>>
      BY <2>7, <2>8
    <3>3. path'[Len(path')] = to'
      <4>1. CASE path = <<>>
        BY <1>2, <2>7, <2>11, <4>1
      <4>2. CASE path # <<>>
        <5>1. Len(path) \in 1..Len(path)
          BY <1>1, <4>2
        <5> QED
          BY <1>2, <2>7, <2>10, <4>2, <5>1
      <4> QED
        BY <4>1, <4>2
    <3>4. IF back' = 0 THEN path'[1] = from'
          ELSE path'[1] \in Moves(snapshot', closed'[back'].cell)
      BY <1>2, <2>3, <2>5, <2>7 DEF Leads, c
    <3>5. ASSUME NEW k \in DOMAIN path'
          PROVE  \E i \in DOMAIN closed' : back' < i /\ path'[k] = closed'[i].cell
      <4>1. CASE k = 1 /\ path'[k] = c
        BY <1>2, <2>1, <3>1, <4>1 DEF c, n
      <4>2. CASE k - 1 \in DOMAIN path /\ path'[k] = path[k - 1]
        <5>1. PICK i \in DOMAIN closed : back < i /\ path[k - 1] = closed[i].cell
          BY <1>3, <4>2 DEF Joins
        <5>2. i \in Int /\ back' \in Int
          BY <1>1, <2>4, <2>5
        <5> QED
          BY <1>1, <1>2, <3>1, <4>2, <5>1, <5>2
      <4> QED
        BY <2>9, <4>1, <4>2
    <3> QED
      BY <3>1, <3>2, <3>3, <3>4, <3>5 DEF Joins
  <2>16. Walk'
    <3>1. \A u \in Thread : pc[u] \in Planned => u = t
      BY <1>2 DEF PlanInv, Alone
    <3> QED
      BY <1>2, <1>6, <2>15, <3>1 DEF Walk, Planned
  <2> QED
    BY <1>4, <1>5, <2>12, <2>13, <2>14, <2>16 DEF PlanInv
<1>7. CASE back = 0 /\ Go(t, "found") /\ UNCHANGED <<path, back>>
  <2>1. PICK where \in Planned : where = "found"
    BY DEF Planned
  <2>2. pc' = [pc EXCEPT ![t] = where]
    BY <1>7, <2>1 DEF Go
  <2>3. path' = path /\ back' = back
    BY <1>7, Zenon
  <2>4. /\ pc' \in [Thread -> Working \cup Planned] /\ pc'[t] = where
        /\ \A u \in Thread : pc'[u] \in Planned => u = t
        /\ Alone'
    BY <1>2, <2>2, SearcherAlone
  <2>5. Typed'
    BY <1>1, <1>2, <2>3, <2>4 DEF Typed
  <2>6. Drivable'
    BY <1>2, <2>3 DEF PlanInv, Drivable
  <2>7. path # <<>> /\ path[1] = from /\ path[Len(path)] = to
    BY <1>3, <1>7 DEF Joins
  <2>8. Walk'
    BY <1>2, <2>1, <2>3, <2>4, <2>7 DEF Walk, Planned
  <2> QED
    BY <1>4, <1>5, <2>4, <2>5, <2>6, <2>8 DEF PlanInv
<1> QED
  BY <1>6, <1>7 DEF Reconstruct

LEMMA FinishStep ==
    ASSUME PlanInv, NEW t \in Thread, Finish(t)
    PROVE  PlanInv'
<1>1. PICK where \in Working : where = "idle"
  BY DEF Working
<1>2. /\ pc[t] \in Planned /\ pc' = [pc EXCEPT ![t] = where]
      /\ path' = <<>> /\ back' = 0 /\ open' = {} /\ closed' = <<>>
      /\ grid' = grid /\ seen' = seen /\ snapshot' = snapshot /\ known' = known
      /\ from' = from /\ to' = to
  BY <1>1 DEF Finish, Go, Planned, writers, ends
<1>3. where \in Planned \cup Working /\ where \notin Planned
  BY <1>1 DEF Planned, Working
<1>4. /\ pc' \in [Thread -> Working \cup Planned] /\ pc'[t] = where
      /\ \A u \in Thread : pc'[u] \in Planned => u = t
      /\ Alone'
  BY <1>2, <1>3, SearcherAlone
<1>5. Typed'
  BY <1>2, <1>4 DEF PlanInv, Typed
<1>6. Marked(grid, seen)' /\ Marked(snapshot, known)'
  BY <1>2 DEF PlanInv, Marked
<1>7. Tree(snapshot, from, closed)' /\ Queued' /\ Drivable'
  BY <1>2 DEF Tree, Queued, Drivable
<1>8. Walk'
  BY <1>3, <1>4 DEF Walk, Planned
<1> QED
  BY <1>4, <1>5, <1>6, <1>7, <1>8 DEF PlanInv

LEMMA ExhaustedStep ==
    ASSUME PlanInv, NEW t \in Thread, Exhausted(t)
    PROVE  PlanInv'
<1>1. PICK where \in Planned : where = "no path"
  BY DEF Planned
<1>2. /\ pc[t] \in Planned /\ pc' = [pc EXCEPT ![t] = where]
      /\ UNCHANGED <<grid, seen, snapshot, known, from, to, open, closed, path, back>>
  BY <1>1 DEF Exhausted, Go, Planned, writers, ends, search
<1>3. /\ pc' \in [Thread -> Working \cup Planned] /\ pc'[t] = where
      /\ \A u \in Thread : pc'[u] \in Planned => u = t
      /\ Alone'
  BY <1>2, SearcherAlone
<1>4. Typed'
  BY <1>2, <1>3 DEF PlanInv, Typed
<1>5. Marked(grid, seen)' /\ Marked(snapshot, known)'
  BY <1>2 DEF PlanInv, Marked
<1>6. Tree(snapshot, from, closed)' /\ Queued'
  BY <1>2 DEF PlanInv, Queued
<1>7. Drivable'
  BY <1>2 DEF PlanInv, Drivable
<1>8. Walk'
  BY <1>1, <1>3 DEF Walk, Planned
<1> QED
  BY <1>3, <1>4, <1>5, <1>6, <1>7, <1>8 DEF PlanInv

LEMMA PlanStep == PlanInv /\ [Next]_vars => PlanInv'
<1> SUFFICES ASSUME PlanInv, [Next]_vars PROVE PlanInv'
  OBVIOUS
<1>1. CASE UNCHANGED vars
  <2>1. UNCHANGED <<grid, seen, snapshot, known, from, to, open, closed, path, back, pc>>
    BY <1>1 DEF vars, writers, search, ends
  <2>2. Typed' /\ Alone' /\ Marked(grid, seen)' /\ Marked(snapshot, known)'
    BY <2>1 DEF PlanInv, Typed, Alone, Marked
  <2>3. Tree(snapshot, from, closed)' /\ Queued' /\ Drivable'
    BY <2>1 DEF PlanInv, Queued, Drivable
  <2>4. Walk'
    BY <2>1 DEF PlanInv, Walk, Joins
  <2> QED
    BY <2>2, <2>3, <2>4 DEF PlanInv
<1>2. ASSUME NEW t \in Thread,
             \/ Inject(t)
             \/ \E echoes \in Echoes : Trace(t, echoes)
             \/ \E objects \in Frame : TakeFrame(t, objects)
             \/ Mark(t)
             \/ Return(t)
             \/ Snapshot(t)
             \/ Iterate(t)
             \/ Exhausted(t)
             \/ Reconstruct(t)
             \/ Finish(t)
      PROVE  PlanInv'
  <2>1. /\ grid \in Grid /\ Marked(grid, seen)
        /\ pc \in [Thread -> Working \cup Planned]
    BY DEF PlanInv, Typed
  <2>2. CASE Inject(t)
    <3>1. PICK where \in Working : where = "trace"
      BY DEF Working
    <3>2. /\ pc' = [pc EXCEPT ![t] = where] /\ UNCHANGED <<search, ends>>
          /\ grid' = Inflate(grid, Static) /\ seen' = seen \cup Static
      BY <2>2, <3>1 DEF Inject, Go
    <3>3. grid' \in Grid /\ Marked(grid', seen')
      BY <2>1, <3>2, InflateMarks
    <3> QED
      BY <3>2, <3>3, WriterStep
  <2>3. ASSUME NEW echoes \in Echoes, Trace(t, echoes) PROVE PlanInv'
    <3>1. PICK where \in Working : where = "frame"
      BY DEF Working
    <3>2. /\ pc' = [pc EXCEPT ![t] = where] /\ UNCHANGED <<search, ends>>
          /\ grid' = Raytrace(grid, Lidar, echoes) /\ seen' = seen \cup echoes
      BY <2>3, <3>1 DEF Trace, Go
    <3>3. grid' \in Grid /\ Marked(grid', seen')
      BY <2>1, <3>2, RaytraceMarks
    <3> QED
      BY <3>2, <3>3, WriterStep
  <2>4. ASSUME NEW objects \in Frame, TakeFrame(t, objects) PROVE PlanInv'
    <3>1. PICK where \in Working : where = "mark"
      BY DEF Working
    <3>2. /\ pc' = [pc EXCEPT ![t] = where] /\ UNCHANGED <<search, ends>>
          /\ grid' = grid /\ seen' = seen
      BY <2>4, <3>1 DEF TakeFrame, Go
    <3> QED
      BY <2>1, <3>2, WriterStep
  <2>5. CASE Mark(t)
    <3>1. PICK where \in Working : where = "mark"
      BY DEF Working
    <3>2. PICK o \in todo[t] : grid' = Inflate(grid, {o}) /\ seen' = seen \cup {o}
      BY <2>5 DEF Mark
    <3>3. pc' = [pc EXCEPT ![t] = where] /\ UNCHANGED <<search, ends>>
      BY <2>1, <2>5, <3>1 DEF Mark
    <3>4. grid' \in Grid /\ Marked(grid', seen')
      BY <2>1, <3>2, InflateMarks
    <3> QED
      BY <3>3, <3>4, WriterStep
  <2>6. CASE Return(t)
    <3>1. PICK where \in Working : where = "idle"
      BY DEF Working
    <3>2. /\ pc' = [pc EXCEPT ![t] = where] /\ UNCHANGED <<search, ends>>
          /\ grid' = grid /\ seen' = seen
      BY <2>6, <3>1 DEF Return, Go, writers
    <3> QED
      BY <2>1, <3>2, WriterStep
  <2> QED
    BY <1>2, <2>2, <2>3, <2>4, <2>5, <2>6, SnapshotStep, IterateStep,
       ExhaustedStep, ReconstructStep, FinishStep
<1> QED
  BY <1>1, <1>2 DEF Next

LEMMA PlanAlways == Spec => []PlanInv
  BY PlanInit, PlanStep, PTL DEF Spec
-----------------------------------------------------------------------------
(***************************************************************************)
(* Every path that search() and reconstruct() return can be driven: from   *)
(* snapped start to snapped goal in single steps through free cells, never *)
(* twice through one and never past a corner, on a grid of any size, with  *)
(* any snapping radius and however the other threads write meanwhile.      *)
(***************************************************************************)
THEOREM PlannedPathSound == Spec => []PathSound
<1>1. ASSUME PlanInv PROVE PathSound
  <2> SUFFICES ASSUME NEW t \in Thread, pc[t] = "found"
               PROVE  /\ path[1] = from /\ path[Len(path)] = to
                      /\ IsInjective(path)
                      /\ \A i \in 1..Len(path) : snapshot[path[i]] < INSCRIBED
                      /\ \A i \in 1..(Len(path) - 1) :
                            /\ Adjacent(path[i], path[i + 1])
                            /\ snapshot[<<path[i][1], path[i + 1][2]>>] < INSCRIBED
                            /\ snapshot[<<path[i + 1][1], path[i][2]>>] < INSCRIBED
    BY DEF PathSound, Done
  <2>1. path \in Seq(Cell) /\ DOMAIN path = 1..Len(path) /\ Len(path) \in Nat
    BY <1>1 DEF PlanInv, Typed
  <2>2. path[1] = from /\ path[Len(path)] = to
    BY <1>1 DEF PlanInv, Walk
  <2>3. IsInjective(path)
    BY <1>1 DEF PlanInv, Drivable, IsInjective
  <2>4. \A i \in 1..Len(path) : snapshot[path[i]] < INSCRIBED
    BY <1>1, <2>1 DEF PlanInv, Drivable, Traversable
  <2>5. ASSUME NEW i \in 1..(Len(path) - 1)
        PROVE  /\ Adjacent(path[i], path[i + 1])
               /\ snapshot[<<path[i][1], path[i + 1][2]>>] < INSCRIBED
               /\ snapshot[<<path[i + 1][1], path[i][2]>>] < INSCRIBED
    <3>1. path[i] \in Cell
      BY <2>1
    <3>2. path[i + 1] \in Moves(snapshot, path[i])
      BY <1>1 DEF PlanInv, Drivable
    <3> QED
      BY <3>1, <3>2, MoveSound
  <2> QED
    BY <2>2, <2>3, <2>4, <2>5
<1> QED
  BY <1>1, PlanAlways, PTL

(***************************************************************************)
(* No path, not even one half reconstructed, leads through a cell where an *)
(* obstacle was reported before the grid was copied: whatever the threads  *)
(* trace and inflate in whatever order, no ray clears a lethal cell and no *)
(* inflation lowers one.                                                   *)
(***************************************************************************)
THEOREM PlannedPathAvoids == Spec => []AvoidsObstacles
<1>1. ASSUME PlanInv PROVE AvoidsObstacles
  <2> SUFFICES ASSUME NEW k \in DOMAIN path, path[k] \in known
               PROVE  FALSE
    BY DEF AvoidsObstacles, ToSet
  <2>1. path[k] \in Cell /\ snapshot[path[k]] < INSCRIBED
    BY <1>1 DEF PlanInv, Drivable, Traversable
  <2>2. snapshot[path[k]] = LETHAL
    BY <1>1, <2>1 DEF PlanInv, Marked
  <2> QED
    BY <2>1, <2>2 DEF INSCRIBED, LETHAL
<1> QED
  BY <1>1, PlanAlways, PTL
=============================================================================
