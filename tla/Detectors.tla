------------------------------- MODULE Detectors -------------------------------
(***************************************************************************)
(* What turns sensor data into the detections of one frame: the clustering *)
(* of lidar points (cluster_detector.hpp), the runs of a depth scanline    *)
(* and their merging (depth_obstacle_detector.hpp), as operators.  Points  *)
(* and depths are whole numbers, radii are given by their squares.         *)
(***************************************************************************)
EXTENDS Integers, SequencesExt

CONSTANTS
    EpsSq,       \* ClusterDetector::Params::eps
    MinPts,      \* min_pts, the point itself included
    MaxObjects,  \* max_objects
    MinDepth,    \* DepthObstacleParams: depths outside the two are
    MaxDepth,    \*   no return
    DepthBreak,  \* depth_break_m
    MinRun,      \* min_run_length
    MergeSq      \* merge_radius

Square(n) == n * n

\* region_query()
Near(pts, i) ==
    {j \in DOMAIN pts \ {i} :
        Square(pts[i][1] - pts[j][1]) + Square(pts[i][2] - pts[j][2]) <= EpsSq}

Unvisited == -1
Noise == -2

(***************************************************************************)
(* The points the expansion from i visits: its neighbours, and the         *)
(* neighbours of every unclaimed one with MinPts neighbours besides        *)
(* itself, in whatever order the list is worked off.                       *)
(***************************************************************************)
Expansion(pts, labels, i) ==
    LET spreads(q) == labels[q] < 0 /\ Cardinality(Near(pts, q)) >= MinPts
        grown[n \in 0..Len(pts)] ==
            IF n = 0 THEN {i} \cup Near(pts, i)
            ELSE LET found == grown[n - 1]
                 IN  found \cup UNION {Near(pts, q) : q \in {p \in found : spreads(p)}}
    IN  grown[Len(pts)]

\* The turn of the loop for point i.
Visit(pts, state, i) ==
    IF state.labels[i] # Unvisited \/ state.clusters >= MaxObjects THEN state
    ELSE IF Cardinality(Near(pts, i)) + 1 < MinPts
         THEN [labels |-> [state.labels EXCEPT ![i] = Noise], clusters |-> state.clusters]
         ELSE LET visited == Expansion(pts, state.labels, i)
              IN  [labels |-> [q \in DOMAIN pts |->
                                  IF q \in visited /\ state.labels[q] < 0
                                  THEN state.clusters ELSE state.labels[q]],
                   clusters |-> state.clusters + 1]

\* ClusterDetector::detect(), up to the centroids.
Detect(pts) ==
    LET after[n \in 0..Len(pts)] ==
            IF n = 0 THEN [labels |-> [i \in DOMAIN pts |-> Unvisited], clusters |-> 0]
            ELSE Visit(pts, after[n - 1], n)
    IN  after[Len(pts)]

\* A cluster is its points; its centroid as a sum and a count.
ClusterOf(pts, found, c) == {pts[i] : i \in {j \in DOMAIN pts : found.labels[j] = c}}
-----------------------------------------------------------------------------
Valid(d) == d # 0 /\ d > MinDepth /\ d < MaxDepth

AbsDiff(m, n) == IF m < n THEN n - m ELSE m - n

\* flush(): a run that is long enough becomes a cluster.
Flush(state) ==
    [run |-> {}, last |-> state.last,
     clusters |-> IF Cardinality(state.run) >= MinRun
                  THEN Append(state.clusters, state.run) ELSE state.clusters]

\* One ray of the scanline; a cluster is the set of its rays.
Ray(depth, state, i) ==
    IF ~Valid(depth[i]) THEN [Flush(state) EXCEPT !.last = 0]
    ELSE LET broken == state.run # {} /\ AbsDiff(depth[i], state.last) > DepthBreak
             base == IF broken THEN Flush(state) ELSE state
         IN  [run |-> base.run \cup {i}, last |-> depth[i], clusters |-> base.clusters]

\* DepthObstacleDetector::detect()
DepthDetect(depth) ==
    LET after[n \in 0..Len(depth)] ==
            IF n = 0 THEN [run |-> {}, last |-> 0, clusters |-> <<>>]
            ELSE Ray(depth, after[n - 1], n)
    IN  Flush(after[Len(depth)]).clusters

\* merge(): the lidar's clusters, and those of the camera near none of them.
Merge(lidar, depth) ==
    LET apart(a, b) == Square(a[1] - b[1]) + Square(a[2] - b[2]) > MergeSq
    IN  lidar \o SelectSeq(depth, LAMBDA d : \A i \in DOMAIN lidar : apart(d, lidar[i]))
-----------------------------------------------------------------------------
\* What a chain of points of `via` joins to i: the least set that i is in and
\* that has all neighbours of the points of `via` that it has.
Linked(pts, via, i) ==
    LET closed == {S \in SUBSET DOMAIN pts :
                      i \in S /\ \A q \in S \cap via : Near(pts, q) \subseteq S}
    IN  {j \in DOMAIN pts : \A S \in closed : j \in S}

Core(pts) == {i \in DOMAIN pts : Cardinality(Near(pts, i)) + 1 >= MinPts}

(***************************************************************************)
(* Objects further apart than eps are never one cluster; unless there are  *)
(* too many clusters, no dense point is lost; a point in a cluster is near *)
(* a dense point of it or is one.                                          *)
(***************************************************************************)
ClustersSound(pts) ==
    LET found == Detect(pts)
    IN  /\ \A i \in DOMAIN pts : found.labels[i] >= 0 =>
              {j \in DOMAIN pts : found.labels[j] = found.labels[i]}
                  \subseteq Linked(pts, DOMAIN pts, i)
        /\ found.clusters < MaxObjects =>
              \A i \in Core(pts) : found.labels[i] >= 0
        /\ \A i \in DOMAIN pts : found.labels[i] >= 0 =>
              \E k \in Core(pts) \cap ({i} \cup Near(pts, i)) : found.labels[k] = found.labels[i]

(***************************************************************************)
(* Where every dense point has a neighbour more than it needs, the result  *)
(* is that of DBSCAN: dense points are in one cluster exactly if a chain   *)
(* of dense points joins them.  (Elsewhere one object may be cut into      *)
(* several, as the expansion asks for one neighbour more than the start.)  *)
(***************************************************************************)
ClustersStandard(pts) ==
    LET found == Detect(pts)
    IN  found.clusters < MaxObjects /\
        (\A i \in Core(pts) : Cardinality(Near(pts, i)) >= MinPts) =>
            \A i \in Core(pts) :
                {j \in Core(pts) : found.labels[j] = found.labels[i]}
                    = Core(pts) \cap Linked(pts, Core(pts), i)

\* Rays a to b see one surface.
Smooth(depth, a, b) ==
    /\ \A i \in a..b : Valid(depth[i])
    /\ \A i \in a..(b - 1) : AbsDiff(depth[i], depth[i + 1]) <= DepthBreak

\* The first and the last ray of each surface that is wide enough.
Surfaces(depth) ==
    {run \in (DOMAIN depth) \X (DOMAIN depth) :
        /\ run[1] <= run[2] /\ Smooth(depth, run[1], run[2])
        /\ run[1] = 1 \/ ~Smooth(depth, run[1] - 1, run[2])
        /\ run[2] = Len(depth) \/ ~Smooth(depth, run[1], run[2] + 1)
        /\ run[2] - run[1] + 1 >= MinRun}

LeftToRight(runs) ==
    \A i, j \in DOMAIN runs : i < j => \A p \in runs[i], q \in runs[j] : p < q

(***************************************************************************)
(* The depth clusters are the longest runs of valid, unbroken depths that  *)
(* are long enough, each once and from left to right.                      *)
(***************************************************************************)
RunsAreMaximal(depth) ==
    LET found == DepthDetect(depth)
    IN  /\ ToSet(found) = {run[1]..run[2] : run \in Surfaces(depth)}
        /\ LeftToRight(found)
=============================================================================
