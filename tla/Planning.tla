------------------------------- MODULE Planning -------------------------------
(***************************************************************************)
(* From perception to a path: on_perception() of decision_node.cpp, which  *)
(* several executor threads run at once, writes the shared cost grid under *)
(* its lock, copies it, and searches the copy with A* (astar_planner.hpp). *)
(* A search sees nothing but its copy, so that one search at a time stands *)
(* for all of them; the other threads go on writing.                       *)
(*                                                                         *)
(* Path costs are in hundredths of a cell.                                 *)
(***************************************************************************)
EXTENDS CostGrid, SequencesExt

CONSTANTS
    Thread,         \* executor threads
    Static,         \* cells of the static obstacles
    Lidar,          \* the cell of the scanner
    Start,          \* the cell of the robot
    Goals,          \* the cells a task may ask for
    Echoes,         \* the sets of cells a scan may hit
    Frame,          \* the sets of cells a perception frame may report
    SnapSq,         \* AStarPlanner: endpoint_snap_radius
    MaxIterations   \* AStarPlanner: max_iterations

ASSUME PlanningAssumption ==
    /\ Static \subseteq Cell /\ {Lidar, Start} \cup Goals \subseteq Cell
    /\ SnapSq \in Nat /\ MaxIterations \in Nat

VARIABLES
    grid,      \* demo_grid_
    pc,        \* per thread: where on_perception() is
    todo,      \* per thread: the objects of its frame not yet marked
    snapshot,  \* the copy that is searched
    goal,      \* the goal it is planned for
    from, to,  \* the end points after snapping
    open,      \* the queue: nodes with cell, g, f and parent
    closed,    \* the nodes expanded, in order; a parent is an index, 0 = none
    iter,      \* turns of the search loop
    path,      \* the path found, from its end on while it is reconstructed
    back,      \* the index of the node reconstruct() takes next
    seen,      \* history: cells where an obstacle was reported
    known      \* history: the cells seen when the grid was copied

writers == <<grid, todo, seen>>
search == <<open, closed, iter, path, back>>
ends == <<snapshot, goal, from, to, known>>
vars == <<writers, search, ends, pc>>

Init ==
    /\ grid = [c \in Cell |-> FREE] /\ snapshot = [c \in Cell |-> FREE]
    /\ pc = [t \in Thread |-> "idle"]
    /\ todo = [t \in Thread |-> {}]
    /\ goal \in Goals /\ from = Start /\ to = goal
    /\ open = {} /\ closed = <<>> /\ iter = 0 /\ path = <<>> /\ back = 0
    /\ seen = {} /\ known = {}

\* Where on_perception() works on the copy.
Planned == {"search", "reconstruct", "found", "no path"}

Go(t, where) == pc' = [pc EXCEPT ![t] = where]
-----------------------------------------------------------------------------
\* on_perception() begins: inject_static_obstacles().
Inject(t) ==
    /\ pc[t] = "idle"
    /\ grid' = Inflate(grid, Static)
    /\ seen' = seen \cup Static
    /\ Go(t, "trace")
    /\ UNCHANGED <<todo, search, ends>>

\* The last scan is traced into the grid; without a scan nothing is.
Trace(t, echoes) ==
    /\ pc[t] = "trace"
    /\ grid' = Raytrace(grid, Lidar, echoes)
    /\ seen' = seen \cup echoes
    /\ Go(t, "frame")
    /\ UNCHANGED <<todo, search, ends>>

\* The objects of the frame, without those that would be the robot itself.
TakeFrame(t, objects) ==
    /\ pc[t] = "frame"
    /\ todo' = [todo EXCEPT ![t] = {o \in objects : DistSq(o, Start) >= InscribedSq}]
    /\ Go(t, "mark")
    /\ UNCHANGED <<grid, seen, search, ends>>

\* Each object is marked under the lock by itself.
Mark(t) ==
    /\ pc[t] = "mark"
    /\ \E o \in todo[t] :
          /\ grid' = Inflate(grid, {o})
          /\ seen' = seen \cup {o}
          /\ todo' = [todo EXCEPT ![t] = @ \ {o}]
    /\ UNCHANGED <<pc, search, ends>>

\* The robot is there already, or the gate refuses the goal.
Return(t) ==
    /\ pc[t] = "mark" /\ todo[t] = {}
    /\ Go(t, "idle")
    /\ UNCHANGED <<writers, search, ends>>
-----------------------------------------------------------------------------
(***************************************************************************)
(* snap_endpoint(): a cell that cannot be entered gives way to the nearest *)
(* one of the disc that can, row by row among equals, if there is one.     *)
(***************************************************************************)
Snapped(g, c) ==
    LET near == {d \in Cell : DistSq(c, d) <= SnapSq /\ Traversable(g, d)}
        nearest == {d \in near : \A e \in near : DistSq(c, d) <= DistSq(c, e)}
    IN  IF Traversable(g, c) THEN {c}
        ELSE {d \in nearest : \A e \in nearest :
                  d[2] < e[2] \/ (d[2] = e[2] /\ d[1] <= e[1])}

\* heuristic(), with heuristic_weight 1.
Heuristic(a, b) ==
    LET dx == AbsDiff(a[1], b[1])
        dy == AbsDiff(a[2], b[2])
    IN  141 * Min({dx, dy}) + 100 * AbsDiff(dx, dy)

NewNode(c, g, parent) == [cell |-> c, g |-> g, f |-> g + Heuristic(c, to'), parent |-> parent]

(***************************************************************************)
(* The grid is copied under the lock and plan() snaps the end points.  No  *)
(* cell to snap to means no path, equal ones a path of one cell.           *)
(***************************************************************************)
Snapshot(t) ==
    /\ pc[t] = "mark" /\ todo[t] = {}
    /\ \A u \in Thread : pc[u] \notin Planned
    /\ snapshot' = grid /\ known' = seen
    /\ closed' = <<>> /\ iter' = 0 /\ back' = 0
    /\ goal' \in Goals
    /\ \/ /\ Snapped(grid, Start) = {} \/ Snapped(grid, goal') = {}
          /\ Go(t, "no path")
          /\ open' = {} /\ path' = <<>>
          /\ UNCHANGED <<from, to>>
       \/ \E s \in Snapped(grid, Start), e \in Snapped(grid, goal') :
             /\ from' = s /\ to' = e
             /\ IF s = e THEN Go(t, "found") /\ open' = {} /\ path' = <<s>>
                ELSE /\ Go(t, "search")
                     /\ open' = {NewNode(s, 0, 0)} /\ path' = <<>>
    /\ UNCHANGED writers

\* Mutant: diagonals pass between two obstacles.
MovesAcrossCorners(g, c) ==
    {d \in Cell : d # c /\ DistSq(c, d) <= 2 /\ Traversable(g, d)}

\* The neighbours of a cell: diagonals only past two free ones.
Moves(g, c) ==
    {d \in Cell : /\ d # c /\ DistSq(c, d) <= 2 /\ Traversable(g, d)
                  /\ Traversable(g, <<d[1], c[2]>>) /\ Traversable(g, <<c[1], d[2]>>)}

\* The cost of a step: its length and the share of the cell entered.
StepCost(g, c, d) ==
    (IF DistSq(c, d) = 2 THEN 141 ELSE 100) + (100 * g[d]) \div INSCRIBED

Visited == {closed[i].cell : i \in DOMAIN closed}

Top == {n \in open : \A m \in open : n.f <= m.f}

\* Mutant: a cell that comes up a second time ends the search.
StaleEnds(t, n) ==
    /\ n.cell \in Visited
    /\ open' = {} /\ UNCHANGED <<closed, path, back, pc>>

\* A cell that was expanded before is passed over.
Stale(t, n) ==
    /\ n.cell \in Visited
    /\ open' = open \ {n} /\ UNCHANGED <<closed, path, back, pc>>

Reached(t, n) ==
    /\ n.cell \notin Visited /\ n.cell = to
    /\ closed' = Append(closed, n)
    /\ back' = Len(closed')
    /\ Go(t, "reconstruct")
    /\ open' = open \ {n}
    /\ UNCHANGED path

Expanded(n) ==
    /\ n.cell \notin Visited /\ n.cell # to
    /\ closed' = Append(closed, n)
    /\ open' = (open \ {n}) \cup
          {NewNode(d, n.g + StepCost(snapshot, n.cell, d), Len(closed')) :
              d \in Moves(snapshot, n.cell) \ Visited}
    /\ UNCHANGED <<path, back, pc>>

\* One turn of the loop in search().
Iterate(t) ==
    /\ pc[t] = "search" /\ open # {} /\ iter < MaxIterations
    /\ iter' = iter + 1
    /\ UNCHANGED ends
    /\ \E n \in Top : Stale(t, n) \/ Reached(t, n) \/ Expanded(n)
    /\ UNCHANGED writers

\* The loop ends without the goal.
Exhausted(t) ==
    /\ pc[t] = "search" /\ (open = {} \/ iter >= MaxIterations)
    /\ Go(t, "no path")
    /\ UNCHANGED <<writers, search, ends>>

\* One turn of the loop in reconstruct(), which ends before the start.
Reconstruct(t) ==
    /\ pc[t] = "reconstruct"
    /\ \/ /\ back > 0
          /\ path' = <<closed[back].cell>> \o path
          /\ back' = closed[back].parent
          /\ UNCHANGED pc
       \/ /\ back = 0
          /\ Go(t, "found")
          /\ UNCHANGED <<path, back>>
    /\ UNCHANGED <<open, closed, iter, writers, ends>>

\* on_perception() ends.
Finish(t) ==
    /\ pc[t] \in {"found", "no path"}
    /\ Go(t, "idle")
    /\ path' = <<>> /\ back' = 0 /\ open' = {} /\ closed' = <<>> /\ iter' = 0
    /\ UNCHANGED <<writers, ends>>

Next ==
    \E t \in Thread :
        \/ Inject(t)
        \/ \E echoes \in Echoes : Trace(t, echoes)
        \/ \E objects \in Frame : TakeFrame(t, objects)
        \/ Mark(t)
        \/ Return(t)
        \/ Snapshot(t)
        \/ Iterate(t)
        \/ Exhausted(t)
        \/ Reconstruct(t)
        \/ Finish(t)

Spec == Init /\ [][Next]_vars
-----------------------------------------------------------------------------
Done(how) == \E t \in Thread : pc[t] = how

Adjacent(a, b) == AbsDiff(a[1], b[1]) <= 1 /\ AbsDiff(a[2], b[2]) <= 1

(***************************************************************************)
(* A path can be driven: it leads from the snapped start to the snapped    *)
(* goal in single steps, through cells free in the copy, never twice       *)
(* through one, and never diagonally past the corner of an obstacle.       *)
(***************************************************************************)
PathSound ==
    Done("found") =>
        /\ path[1] = from /\ path[Len(path)] = to
        /\ IsInjective(path)
        /\ \A i \in 1..Len(path) : snapshot[path[i]] < INSCRIBED
        /\ \A i \in 1..(Len(path) - 1) :
              /\ Adjacent(path[i], path[i + 1])
              /\ snapshot[<<path[i][1], path[i + 1][2]>>] < INSCRIBED
              /\ snapshot[<<path[i + 1][1], path[i][2]>>] < INSCRIBED

(***************************************************************************)
(* No path leads through a cell where a scan, a frame or the static map    *)
(* has shown an obstacle before the copy was taken, whatever the other     *)
(* threads traced and cleared in between.                                  *)
(***************************************************************************)
AvoidsObstacles == ToSet(path) \cap known = {}

(***************************************************************************)
(* The reference: Costs(g, a)[n] are the costs of the best paths from a of *)
(* up to n steps, by relaxation.  A step costs at most MaxStepCost, so no  *)
(* path that enters a cell once costs as much as Infinite.                 *)
(***************************************************************************)
MaxStepCost == 240
Infinite == (MaxStepCost + 1) * Cardinality(Cell)
Relaxed(g, dist) ==
    LET relaxed == [c \in Cell |->
            IF ~Traversable(g, c) THEN Infinite
            ELSE Min({dist[c]} \cup {dist[b] + StepCost(g, b, c) : b \in Moves(g, c)})]
    IN  IF relaxed = dist THEN dist ELSE relaxed   \* compared, so that TLC tabulates it
Costs(g, a) ==
    LET costs[n \in 0..Cardinality(Cell)] ==
            IF n = 0 THEN [c \in Cell |-> IF c = a THEN 0 ELSE Infinite]
            ELSE Relaxed(g, costs[n - 1])
    IN  costs
Best(g, a) == Costs(g, a)[Cardinality(Cell)]

\* The limit ended the search, and a search may take more turns than that.
CutShort == iter >= MaxIterations /\ MaxIterations < 8 * Cardinality(Cell)

(***************************************************************************)
(* The path found is the cheapest, and none is missed: what it costs is    *)
(* what the best path in the copy costs; unless a limit of fewer than      *)
(* eight turns per cell cut the search short, it finds nothing only if an  *)
(* end point cannot be snapped or no path leads from one to the other.     *)
(***************************************************************************)
FindsBest ==
    /\ Done("found") /\ closed # <<>> => closed[Len(closed)].g = Best(snapshot, from)[to]
    /\ Done("no path") /\ ~CutShort =>
          \/ Snapped(snapshot, Start) = {} \/ Snapped(snapshot, goal) = {}
          \/ Best(snapshot, from)[to] >= Infinite

(***************************************************************************)
(* The static barrier is in every copy that is searched, its safety        *)
(* distance included: it is injected anew by every on_perception().        *)
(***************************************************************************)
BarrierStands ==
    Done("found") =>
        \A c \in ToSet(path), o \in Static : DistSq(c, o) > InscribedSq
=============================================================================
