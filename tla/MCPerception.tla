----------------------------- MODULE MCPerception -----------------------------
(***************************************************************************)
(* Two objects; the imu times out before the camera and the camera before  *)
(* the lidar's window and timeout together, as in the code.                *)
(***************************************************************************)
EXTENDS Perception
mcTimeout == [s \in Sensor |-> CASE s = "lidar" -> 1 [] s = "imu" -> 0 [] s = "camera" -> 1]
Symmetry == Permutations(Obj)

\* Whatever the distances, step 2 of the tracker makes one association.
Three == [tracks |-> {[id |-> i, obj |-> o, miss |-> 0] : i \in 1..3, o \in {CHOOSE o \in Obj : TRUE}},
          next_id |-> 4]
ASSUME AssociationAssumption ==
    \A detections \in [1..2 -> Obj] : \A distance \in Distances(Three, detections) :
        Cardinality(Associations(Three, detections, distance)) = 1

\* The detectors, with the points a cluster needs and the number of
\* clusters as parameters.
Detecting(minPts, maxObjects) == INSTANCE Detectors WITH
    EpsSq <- 1, MinPts <- minPts, MaxObjects <- maxObjects,
    MinDepth <- 1, MaxDepth <- 9, DepthBreak <- 2, MinRun <- 2, MergeSq <- 1

OnALine(xs) == [i \in DOMAIN xs |-> <<xs[i], 0>>]

\* Five points where one lies beside a dense one without being dense, six
\* where two dense groups fit, seven in a chain; the line that is cut in
\* two though every inner point is dense; scanlines of five rays.
ASSUME DetectorAssumption ==
    /\ \A xs \in [1..5 -> 0..3] : Detecting(3, 2)!ClustersSound(OnALine(xs))
    /\ \A xs \in [1..6 -> 0..2] : Detecting(2, 3)!ClustersStandard(OnALine(xs))
    /\ Detecting(2, 3)!ClustersStandard(OnALine(<<0, 0, 1, 2, 3, 4, 4>>))
    /\ Detecting(3, 2)!Detect(OnALine(<<0, 1, 2, 3, 4>>)).labels = <<0, 0, 0, 1, 1>>
    /\ \A depth \in [1..5 -> {0, 2, 4, 8}] : Detecting(3, 2)!RunsAreMaximal(depth)
    /\ Detecting(3, 2)!Merge(<<<<0, 0>>>>, <<<<1, 0>>, <<1, 1>>>>) = <<<<0, 0>>, <<1, 1>>>>
=============================================================================
