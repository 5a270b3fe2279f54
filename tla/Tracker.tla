------------------------------- MODULE Tracker --------------------------------
(***************************************************************************)
(* domain/perception/tracker.hpp.  A tracker is its set of tracks and the  *)
(* next identity.  The tracks stand in the order of their identities, as   *)
(* new ones go to the end and pruning keeps the order.  A track carries,   *)
(* unknown to the code, the object of its last detection, and a detection  *)
(* is the object it comes from; where the filter has a track is known by   *)
(* its distance from each detection alone.                                 *)
(***************************************************************************)
EXTENDS Integers, SequencesExt

CONSTANTS
    Obj,              \* the objects around the robot
    MaxMissedFrames,  \* TrackerParams::max_missed_frames
    MaxTracks,        \* TrackerParams::max_tracks
    Radius            \* association_radius, in the grades of distance told apart

ASSUME TrackerAssumption ==
    /\ IsFiniteSet(Obj) /\ MaxMissedFrames \in Nat /\ MaxTracks \in Nat
    /\ Radius \in Nat \ {0}

InitialTracker == [tracks |-> {}, next_id |-> 0]

Tracked(tr) == {t.obj : t \in tr.tracks}

\* The distances of tracks from detections, Radius for any that is too far.
Distances(tr, detections) == [tr.tracks -> [DOMAIN detections -> 0..Radius]]

\* The first of the closest detections within the radius that are not taken.
Closest(distance, taken) ==
    LET within == {j \in DOMAIN distance \ taken : distance[j] < Radius}
    IN  IF within = {} THEN 0
        ELSE CHOOSE j \in within : \A k \in within :
                distance[j] < distance[k] \/ (distance[j] = distance[k] /\ j <= k)

(***************************************************************************)
(* Step 2: track by track, each takes the closest detection that those     *)
(* before it have left, or none (0).                                       *)
(***************************************************************************)
Associations(tr, detections, distance) ==
    {m \in [tr.tracks -> 0..Len(detections)] :
        \A t \in tr.tracks :
            m[t] = Closest(distance[t], {m[s] : s \in {x \in tr.tracks : x.id < t.id}})}

\* A track is missed unless a detection is matched to it, which it follows.
Matched(tr, detections, m) ==
    {IF m[t] = 0 THEN [t EXCEPT !.miss = @ + 1]
     ELSE [t EXCEPT !.obj = detections[m[t]], !.miss = 0] : t \in tr.tracks}

\* The detections without a match, and how many of them come before one.
Unmatched(tr, detections, m) == {j \in DOMAIN detections : \A t \in tr.tracks : m[t] # j}
Before(tr, detections, m, j) == Cardinality({k \in Unmatched(tr, detections, m) : k < j})

\* Those there is room for when the loop comes to them.
Fresh(tr, detections, m) ==
    {j \in Unmatched(tr, detections, m) :
        Cardinality(tr.tracks) + Before(tr, detections, m, j) < MaxTracks}

\* Step 3: one new track, with a new identity, for each of them.
Spawned(tr, detections, m) ==
    {[obj |-> detections[j], id |-> tr.next_id + Before(tr, detections, m, j), miss |-> 0] :
        j \in Fresh(tr, detections, m)}

\* Mutant: a track is given up one frame early.
PruneEarly(tracks) == {t \in tracks : t.miss < MaxMissedFrames}

\* Step 4
Prune(tracks) == {t \in tracks : t.miss <= MaxMissedFrames}

\* Mutant: identities are numbered by the tracks there are.
UpdateRenumbers(tr, detections, m) ==
    [tracks |-> Prune(Matched(tr, detections, m) \cup Spawned(tr, detections, m)),
     next_id |-> Cardinality(tr.tracks)]

\* update(): what it returns are the tracks it leaves.
Update(tr, detections, m) ==
    [tracks |-> Prune(Matched(tr, detections, m) \cup Spawned(tr, detections, m)),
     next_id |-> tr.next_id + Cardinality(Fresh(tr, detections, m))]

(***************************************************************************)
(* What the association relies on: a track is within the radius of its own *)
(* object, and when it is also within that of another, nearer to its own.  *)
(* When an object is not detected, no other is that near.                  *)
(***************************************************************************)
OnItsObject(detections, distance) ==
    \A t \in DOMAIN distance : \A j \in DOMAIN detections :
        detections[j] = t.obj => distance[t][j] < Radius

ToldApart(detections, distance) ==
    \A t \in DOMAIN distance : \A j \in DOMAIN detections :
        \/ detections[j] = t.obj \/ distance[t][j] = Radius
        \/ \E k \in DOMAIN detections :
              detections[k] = t.obj /\ distance[t][k] < distance[t][j]
=============================================================================
