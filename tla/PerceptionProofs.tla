--------------------------- MODULE PerceptionProofs ---------------------------
(***************************************************************************)
(* What Perception promises, for every timing of sensors and timers and    *)
(* for any number of objects and tracks: first the tracker, then the node  *)
(* around it, last the detectors, for every scanline and list of points.   *)
(***************************************************************************)
EXTENDS Perception, Detectors, FiniteSetTheorems, WellFoundedInduction, TLAPS

Track == [obj : Obj, id : Nat, miss : Nat]
TrackerState == [tracks : SUBSET Track, next_id : Nat]

\* What the tracker is given: objects, each of them once.
Frame(detections) ==
    \E n \in Nat :
        /\ detections \in [1..n -> Obj]
        /\ \A i, j \in 1..n : detections[i] = detections[j] => i = j

\* One track per object and one object per identity.
Sound(tr) ==
    /\ tr \in TrackerState
    /\ \A s, t \in tr.tracks : s.obj = t.obj => s = t
    /\ \A s, t \in tr.tracks : s.id = t.id => s = t
    /\ \A t \in tr.tracks : t.id < tr.next_id /\ t.miss <= MaxMissedFrames

(***************************************************************************)
(* update() as if it knew the objects: every detection goes to the track   *)
(* of its object, and those of objects without one get a new track while   *)
(* there is room.                                                          *)
(***************************************************************************)
Untracked(tr, det) == {j \in DOMAIN det : det[j] \notin Tracked(tr)}
Ahead(tr, det, j) == Cardinality({k \in Untracked(tr, det) : k < j})
Admitted(tr, det) ==
    {j \in Untracked(tr, det) : Cardinality(tr.tracks) + Ahead(tr, det, j) < MaxTracks}
Kept(t, det) == [t EXCEPT !.miss = IF t.obj \in ToSet(det) THEN 0 ELSE @ + 1]
New(tr, det, j) ==
    [obj |-> det[j], id |-> tr.next_id + Ahead(tr, det, j), miss |-> 0]
Ideal(tr, det) ==
    [tracks |-> {t \in {Kept(s, det) : s \in tr.tracks}
                         \cup {New(tr, det, j) : j \in Admitted(tr, det)} :
                    t.miss <= MaxMissedFrames},
     next_id |-> tr.next_id + Cardinality(Admitted(tr, det))]

\* The identities of a tracker, and those given earlier, agree on the objects.
Named(tr) == {[id |-> t.id, obj |-> t.obj] : t \in tr.tracks}
Agree(tr, given0) == \A t \in tr.tracks, x \in given0 : x.id = t.id => x.obj = t.obj
Known(tr, given0) ==
    Agree(tr, given0) /\ \A x \in given0 : x.id \in Nat /\ x.id < tr.next_id

\* Identities stay with their objects from one set of tracks to the next.
Persist(before, after) ==
    \A old \in before, new \in after : old.id = new.id <=> old.obj = new.obj
-----------------------------------------------------------------------------
\* A set of numbers has a least one.
LEMMA LeastNat ==
    ASSUME NEW T, T \subseteq Nat, T # {}
    PROVE  \E m \in T : \A k \in T : m <= k
<1> DEFINE R == OpToRel(<, Nat)
<1>1. IsWellFoundedOn(R, Nat)
  BY NatLessThanWellFounded
<1>2. \A x, y \in Nat : x < y => <<x, y>> \in R
  BY DEF OpToRel
<1> HIDE DEF R
<1>3. \E x \in T : \A y \in T : ~(<<y, x>> \in R)
  BY <1>1, WFMin
<1>4. PICK x \in T : \A y \in T : ~(<<y, x>> \in R)
  BY <1>3
<1>5. \A y \in T : ~(y < x)
  BY <1>2, <1>4
<1>6. \A y \in T : x <= y
  BY <1>5
<1> QED
  BY <1>6

(***************************************************************************)
(* As many images as there are members, when no two share one.             *)
(***************************************************************************)
LEMMA InjectiveImage ==
    ASSUME NEW S, IsFiniteSet(S), NEW f, DOMAIN f = S, f = [x \in S |-> f[x]],
           \A x, y \in S : f[x] = f[y] => x = y
    PROVE  /\ IsFiniteSet({f[x] : x \in S})
           /\ Cardinality({f[x] : x \in S}) = Cardinality(S)
<1> DEFINE T == {f[x] : x \in S}
<1>1. f \in [S -> T]
  OBVIOUS
<1>2. f \in Bijection(S, T)
  BY <1>1 DEF Bijection, Injection, Surjection, IsInjective
<1>3. ExistsBijection(S, T)
  BY <1>2 DEF ExistsBijection
<1> QED
  BY <1>3, FS_Bijection

(***************************************************************************)
(* The numbers the loop of step 3 hands out, in the order of detections.   *)
(***************************************************************************)
LEMMA UnmatchedFinite ==
    ASSUME NEW tr, NEW n \in Nat, NEW det \in [1..n -> Obj]
    PROVE  /\ Untracked(tr, det) \subseteq 1..n /\ IsFiniteSet(Untracked(tr, det))
           /\ IsFiniteSet(Admitted(tr, det)) /\ Cardinality(Admitted(tr, det)) \in Nat
           /\ \A j : /\ IsFiniteSet({k \in Untracked(tr, det) : k < j})
                     /\ Ahead(tr, det, j) \in Nat
<1>1. IsFiniteSet(1..n)
  BY FS_Interval
<1>2. Untracked(tr, det) \subseteq 1..n
  BY DEF Untracked
<1>3. IsFiniteSet(Untracked(tr, det))
  BY <1>1, <1>2, FS_Subset
<1>4. Admitted(tr, det) \in SUBSET Untracked(tr, det)
  BY DEF Admitted
<1>5. IsFiniteSet(Admitted(tr, det))
  BY <1>3, <1>4, FS_Subset
<1>6. Cardinality(Admitted(tr, det)) \in Nat
  BY <1>5, FS_CardinalityType
<1>7. ASSUME NEW j
      PROVE  /\ IsFiniteSet({k \in Untracked(tr, det) : k < j})
             /\ Ahead(tr, det, j) \in Nat
  <2>1. {k \in Untracked(tr, det) : k < j} \in SUBSET Untracked(tr, det)
    OBVIOUS
  <2>2. IsFiniteSet({k \in Untracked(tr, det) : k < j})
    BY <1>3, <2>1, FS_Subset
  <2> QED
    BY <2>2, FS_CardinalityType DEF Ahead
<1> QED
  BY <1>2, <1>3, <1>5, <1>6, <1>7

LEMMA Numbering ==
    ASSUME NEW tr, NEW n \in Nat, NEW det \in [1..n -> Obj],
           Cardinality(tr.tracks) \in Int,
           NEW j \in Untracked(tr, det)
    PROVE  /\ \A l \in Untracked(tr, det) :
                 j < l => Ahead(tr, det, j) < Ahead(tr, det, l)
           /\ j \in Admitted(tr, det) => Ahead(tr, det, j) < Cardinality(Admitted(tr, det))
<1> DEFINE U == Untracked(tr, det)
           B(l) == {k \in U : k < l}
<1>1. /\ U \subseteq 1..n /\ IsFiniteSet(U) /\ IsFiniteSet(Admitted(tr, det))
      /\ \A l : IsFiniteSet(B(l)) /\ Ahead(tr, det, l) = Cardinality(B(l))
      /\ \A l : Ahead(tr, det, l) \in Nat
  BY UnmatchedFinite DEF Ahead
<1>2. U \subseteq Int /\ j \in U
  BY <1>1
<1> HIDE DEF U
<1>3. /\ IsFiniteSet(B(j) \cup {j})
      /\ Cardinality(B(j) \cup {j}) = Ahead(tr, det, j) + 1
  <2>1. j \notin B(j)
    BY <1>2
  <2>2. IsFiniteSet(B(j)) /\ Ahead(tr, det, j) = Cardinality(B(j))
    BY <1>1
  <2> HIDE DEF B
  <2> QED
    BY <2>1, <2>2, FS_AddElement
<1>4. ASSUME NEW l \in U, j < l PROVE Ahead(tr, det, j) < Ahead(tr, det, l)
  <2>1. B(j) \cup {j} \in SUBSET B(l)
    <3>1. ASSUME NEW k \in B(j) \cup {j} PROVE k \in B(l)
      <4>1. k \in U /\ k \in Int /\ j \in Int /\ l \in Int /\ (k < j \/ k = j)
        BY <1>2
      <4> QED
        BY <1>4, <4>1
    <3> QED
      BY <3>1
  <2>2. IsFiniteSet(B(l)) /\ Ahead(tr, det, l) = Cardinality(B(l))
    BY <1>1
  <2>3. Cardinality(B(j) \cup {j}) <= Cardinality(B(l))
    <3> HIDE DEF B
    <3> QED
      BY <2>1, <2>2, FS_Subset
  <2> HIDE DEF B
  <2> QED
    BY <1>1, <1>3, <2>2, <2>3
<1>5. ASSUME j \in Admitted(tr, det)
      PROVE  Ahead(tr, det, j) < Cardinality(Admitted(tr, det))
  <2>1. ASSUME NEW k \in B(j) PROVE k \in Admitted(tr, det)
    <3>1. k \in U /\ k < j
      OBVIOUS
    <3>2. B(k) \in SUBSET B(j)
      <4>1. ASSUME NEW i \in B(k) PROVE i \in B(j)
        <5>1. i \in U /\ i \in Int /\ k \in Int /\ j \in Int /\ i < k
          BY <1>2, <3>1
        <5> QED
          BY <3>1, <5>1
      <4> QED
        BY <4>1
    <3>3. Ahead(tr, det, k) <= Ahead(tr, det, j)
      <4>1. /\ IsFiniteSet(B(j)) /\ Ahead(tr, det, j) = Cardinality(B(j))
            /\ Ahead(tr, det, k) = Cardinality(B(k))
        BY <1>1
      <4> HIDE DEF B
      <4> QED
        BY <3>2, <4>1, FS_Subset
    <3>4. Cardinality(tr.tracks) + Ahead(tr, det, j) < MaxTracks
      BY <1>5 DEF Admitted
    <3>5. Cardinality(tr.tracks) + Ahead(tr, det, k) < MaxTracks
      BY <1>1, <3>3, <3>4, TrackerAssumption
    <3> QED
      BY <3>1, <3>5 DEF Admitted, U
  <2>2. B(j) \cup {j} \in SUBSET Admitted(tr, det)
    BY <1>5, <2>1
  <2>3. Cardinality(B(j) \cup {j}) <= Cardinality(Admitted(tr, det))
    <3> HIDE DEF B
    <3> QED
      BY <1>1, <2>2, FS_Subset
  <2>4. Cardinality(Admitted(tr, det)) \in Nat
    BY <1>1, FS_CardinalityType
  <2> HIDE DEF B
  <2> QED
    BY <1>1, <1>3, <2>3, <2>4
<1> QED
  BY <1>4, <1>5 DEF U

LEMMA TracksFinite ==
    ASSUME NEW tr, Sound(tr)
    PROVE  /\ IsFiniteSet(tr.tracks) /\ Cardinality(tr.tracks) \in Nat
           /\ IsFiniteSet(Tracked(tr)) /\ Tracked(tr) \subseteq Obj
           /\ Cardinality(Tracked(tr)) = Cardinality(tr.tracks)
<1> DEFINE S == tr.tracks
           f == [t \in S |-> t.obj]
<1>1. S \subseteq Track /\ \A s, t \in S : s.obj = t.obj => s = t
  BY DEF Sound, TrackerState
<1>2. \A t \in S : t.obj \in Obj
  BY <1>1 DEF Track
<1>3. /\ f \in [S -> Obj] /\ DOMAIN f = S /\ f = [x \in S |-> f[x]]
      /\ \A x, y \in S : f[x] = f[y] => x = y
  BY <1>1, <1>2
<1>4. Tracked(tr) = {f[x] : x \in S} /\ Tracked(tr) \subseteq Obj
  BY <1>2 DEF Tracked
<1> HIDE DEF S, f
<1>5. f \in Injection(S, Obj)
  BY <1>3 DEF Injection, IsInjective
<1>6. IsFiniteSet(S)
  BY <1>5, TrackerAssumption, FS_Injection
<1>7. Cardinality(S) \in Nat
  BY <1>6, FS_CardinalityType
<1>8. /\ IsFiniteSet({f[x] : x \in S})
      /\ Cardinality({f[x] : x \in S}) = Cardinality(S)
  BY <1>3, <1>6, InjectiveImage
<1> QED
  BY <1>4, <1>6, <1>7, <1>8 DEF S

LEMMA UpdateTracks ==
    ASSUME NEW tr, NEW det, NEW t
    PROVE  t \in Ideal(tr, det).tracks
             <=> /\ t.miss <= MaxMissedFrames
                 /\ \/ \E s \in tr.tracks : t = Kept(s, det)
                    \/ \E j \in Admitted(tr, det) : t = New(tr, det, j)
  BY DEF Ideal

LEMMA KeptFields ==
    ASSUME NEW t \in Track, NEW det
    PROVE  /\ Kept(t, det) \in Track
           /\ Kept(t, det).obj = t.obj /\ Kept(t, det).id = t.id
           /\ Kept(t, det).miss = IF t.obj \in ToSet(det) THEN 0 ELSE t.miss + 1
  BY DEF Track, Kept

LEMMA NewFields ==
    ASSUME NEW tr \in TrackerState, NEW n \in Nat, NEW det \in [1..n -> Obj],
           NEW j \in Admitted(tr, det)
    PROVE  /\ j \in 1..n /\ det[j] \in Obj /\ det[j] \notin Tracked(tr)
           /\ New(tr, det, j) \in Track
           /\ New(tr, det, j).obj = det[j] /\ New(tr, det, j).miss = 0
           /\ New(tr, det, j).id = tr.next_id + Ahead(tr, det, j)
<1>1. j \in Untracked(tr, det)
  BY DEF Admitted
<1>2. j \in 1..n /\ det[j] \in Obj /\ det[j] \notin Tracked(tr)
  BY <1>1 DEF Untracked
<1>3. tr.next_id \in Nat /\ Ahead(tr, det, j) \in Nat
  BY UnmatchedFinite DEF TrackerState
<1> QED
  BY <1>2, <1>3 DEF New, Track

(***************************************************************************)
(* update() keeps the tracker sound and every identity with its object.    *)
(***************************************************************************)
LEMMA UpdateSound ==
    ASSUME NEW tr, Sound(tr), NEW det, Frame(det)
    PROVE  Sound(Ideal(tr, det)) /\ Persist(tr.tracks, Ideal(tr, det).tracks)
<1> DEFINE up == Ideal(tr, det)
<1>1. PICK n \in Nat : /\ det \in [1..n -> Obj]
                       /\ \A i, j \in 1..n : det[i] = det[j] => i = j
  BY DEF Frame
<1>2. /\ tr \in TrackerState /\ tr.tracks \subseteq Track /\ tr.next_id \in Nat
      /\ \A s, t \in tr.tracks : s.obj = t.obj => s = t
      /\ \A s, t \in tr.tracks : s.id = t.id => s = t
      /\ \A t \in tr.tracks : t.id < tr.next_id /\ t.id \in Nat /\ t.obj \in Tracked(tr)
  BY DEF Sound, TrackerState, Track, Tracked
<1>3. up.next_id = tr.next_id + Cardinality(Admitted(tr, det))
  BY DEF Ideal
<1>4. Cardinality(tr.tracks) \in Int /\ Cardinality(Admitted(tr, det)) \in Nat
  BY <1>1, TracksFinite, UnmatchedFinite
<1>5. \A t \in up.tracks :
          /\ t.miss <= MaxMissedFrames
          /\ \/ \E s \in tr.tracks : t = Kept(s, det)
             \/ \E j \in Admitted(tr, det) : t = New(tr, det, j)
  BY UpdateTracks
<1>6. ASSUME NEW s \in tr.tracks
      PROVE  /\ Kept(s, det) \in Track
             /\ Kept(s, det).obj = s.obj /\ Kept(s, det).id = s.id
             /\ s.obj \in Tracked(tr) /\ s.id < tr.next_id /\ s.id \in Nat
  BY <1>2, KeptFields
<1>7. ASSUME NEW j \in Admitted(tr, det)
      PROVE  /\ New(tr, det, j) \in Track /\ New(tr, det, j).obj = det[j]
             /\ det[j] \notin Tracked(tr) /\ j \in 1..n
             /\ tr.next_id <= New(tr, det, j).id
             /\ New(tr, det, j).id < up.next_id
             /\ New(tr, det, j).id = tr.next_id + Ahead(tr, det, j)
             /\ Ahead(tr, det, j) \in Nat
  <2>1. /\ New(tr, det, j) \in Track /\ New(tr, det, j).obj = det[j]
        /\ det[j] \notin Tracked(tr) /\ j \in 1..n
        /\ New(tr, det, j).id = tr.next_id + Ahead(tr, det, j)
    BY <1>1, <1>2, NewFields
  <2>2. j \in Untracked(tr, det)
    BY DEF Admitted
  <2>3. Ahead(tr, det, j) < Cardinality(Admitted(tr, det))
    BY <1>1, <1>4, <2>2, Numbering
  <2>4. Ahead(tr, det, j) \in Nat
    BY <1>1, UnmatchedFinite
  <2> HIDE DEF up
  <2> QED
    BY <1>2, <1>3, <1>4, <2>1, <2>3, <2>4
<1>8. ASSUME NEW j \in Admitted(tr, det), NEW l \in Admitted(tr, det),
             New(tr, det, j).id = New(tr, det, l).id
      PROVE  j = l
  <2>1. Ahead(tr, det, j) = Ahead(tr, det, l)
    BY <1>2, <1>7, <1>8
  <2>2. j \in Untracked(tr, det) /\ l \in Untracked(tr, det) /\ j \in Int /\ l \in Int
    BY <1>7 DEF Admitted
  <2>3. ~ j < l
    BY <1>1, <1>4, <1>7, <2>1, <2>2, Numbering
  <2>4. ~ l < j
    BY <1>1, <1>4, <1>7, <2>1, <2>2, Numbering
  <2> QED
    BY <2>2, <2>3, <2>4
<1> HIDE DEF up
<1>9. up \in TrackerState
  <2>1. up.tracks \subseteq Track
    BY <1>5, <1>6, <1>7
  <2>2. up.next_id \in Nat
    BY <1>2, <1>3, <1>4
  <2>3. up = [tracks |-> up.tracks, next_id |-> up.next_id]
    BY DEF up, Ideal
  <2> QED
    BY <2>1, <2>2, <2>3 DEF TrackerState
<1>10. \A s, t \in up.tracks : s.obj = t.obj => s = t
  <2> SUFFICES ASSUME NEW s \in up.tracks, NEW t \in up.tracks, s.obj = t.obj
               PROVE  s = t
    OBVIOUS
  <2>1. ASSUME NEW x \in tr.tracks, NEW y \in tr.tracks, s = Kept(x, det), t = Kept(y, det)
        PROVE  s = t
    BY <1>2, <1>6, <2>1
  <2>2. ASSUME NEW j \in Admitted(tr, det), NEW l \in Admitted(tr, det),
               s = New(tr, det, j), t = New(tr, det, l)
        PROVE  s = t
    BY <1>1, <1>7, <2>2
  <2>3. ASSUME NEW x \in tr.tracks, NEW l \in Admitted(tr, det),
               {s, t} = {Kept(x, det), New(tr, det, l)}
        PROVE  FALSE
    BY <1>6, <1>7, <2>3
  <2> QED
    BY <1>5, <2>1, <2>2, <2>3
<1>11. \A s, t \in up.tracks : s.id = t.id => s = t
  <2> SUFFICES ASSUME NEW s \in up.tracks, NEW t \in up.tracks, s.id = t.id
               PROVE  s = t
    OBVIOUS
  <2>1. ASSUME NEW x \in tr.tracks, NEW y \in tr.tracks, s = Kept(x, det), t = Kept(y, det)
        PROVE  s = t
    BY <1>2, <1>6, <2>1
  <2>2. ASSUME NEW j \in Admitted(tr, det), NEW l \in Admitted(tr, det),
               s = New(tr, det, j), t = New(tr, det, l)
        PROVE  s = t
    BY <1>8, <2>2
  <2>3. ASSUME NEW x \in tr.tracks, NEW l \in Admitted(tr, det)
        PROVE  Kept(x, det).id # New(tr, det, l).id
    BY <1>2, <1>6, <1>7
  <2> QED
    BY <1>5, <2>1, <2>2, <2>3
<1>12. \A t \in up.tracks : t.id < up.next_id /\ t.miss <= MaxMissedFrames
  BY <1>2, <1>3, <1>4, <1>5, <1>6, <1>7
<1>13. Persist(tr.tracks, up.tracks)
  <2> SUFFICES ASSUME NEW old \in tr.tracks, NEW new \in up.tracks
               PROVE  old.id = new.id <=> old.obj = new.obj
    BY DEF Persist
  <2>1. ASSUME NEW x \in tr.tracks, new = Kept(x, det)
        PROVE  old.id = new.id <=> old.obj = new.obj
    BY <1>2, <1>6, <2>1
  <2>2. ASSUME NEW j \in Admitted(tr, det), new = New(tr, det, j)
        PROVE  old.id # new.id /\ old.obj # new.obj
    BY <1>2, <1>6, <1>7, <2>2
  <2> QED
    BY <1>5, <2>1, <2>2
<1> QED
  BY <1>9, <1>10, <1>11, <1>12, <1>13 DEF Sound, up

(***************************************************************************)
(* With as many tracks as objects there is always room.                    *)
(***************************************************************************)
LEMMA Room ==
    ASSUME NEW tr, Sound(tr), NEW det, Frame(det), Cardinality(Obj) <= MaxTracks,
           NEW j \in Untracked(tr, det)
    PROVE  j \in Admitted(tr, det)
<1>1. PICK n \in Nat : /\ det \in [1..n -> Obj]
                       /\ \A i, k \in 1..n : det[i] = det[k] => i = k
  BY DEF Frame
<1> DEFINE K == {k \in Untracked(tr, det) : k < j}
           f == [k \in K |-> det[k]]
           A == Tracked(tr)
           B == {f[k] : k \in K}
<1>2. /\ Untracked(tr, det) \subseteq 1..n /\ IsFiniteSet(K)
      /\ Ahead(tr, det, j) = Cardinality(K) /\ Ahead(tr, det, j) \in Nat
  <2>1. Untracked(tr, det) \subseteq 1..n /\ IsFiniteSet(K)
    <3>1. Untracked(tr, det) \subseteq 1..n /\ IsFiniteSet(Untracked(tr, det))
      BY <1>1, UnmatchedFinite
    <3>2. K \in SUBSET Untracked(tr, det)
      OBVIOUS
    <3> QED
      BY <3>1, <3>2, FS_Subset
  <2>2. Ahead(tr, det, j) \in Nat
    BY <1>1, UnmatchedFinite, Zenon
  <2> QED
    BY <2>1, <2>2 DEF Ahead
<1>3. /\ IsFiniteSet(A) /\ A \subseteq Obj /\ Cardinality(tr.tracks) \in Nat
      /\ Cardinality(A) = Cardinality(tr.tracks)
  BY TracksFinite
<1>4. j \in 1..n /\ det[j] \in Obj /\ det[j] \notin A
  BY <1>1, <1>2 DEF Untracked
<1>5. \A k \in K : k \in 1..n /\ k # j /\ det[k] \in Obj /\ det[k] \notin A
  <2> SUFFICES ASSUME NEW k \in K
               PROVE  k \in 1..n /\ k # j /\ det[k] \in Obj /\ det[k] \notin A
    OBVIOUS
  <2>1. k \in 1..n /\ j \in Int /\ k \in Int /\ k < j
    BY <1>2, <1>4
  <2>2. det[k] \in Obj
    BY <1>1, <2>1
  <2> QED
    BY <2>1, <2>2 DEF Untracked
<1>6. /\ DOMAIN f = K /\ f = [x \in K |-> f[x]]
      /\ \A x, y \in K : f[x] = f[y] => x = y
  BY <1>1, <1>5
<1>7. B \subseteq Obj /\ A \cap B = {} /\ det[j] \notin B
  BY <1>1, <1>4, <1>5
<1> HIDE DEF K, f, A
<1>8. IsFiniteSet(B) /\ Cardinality(B) = Cardinality(K)
  BY <1>2, <1>6, InjectiveImage
<1> HIDE DEF B
<1>9. IsFiniteSet(A \cup B) /\ Cardinality(A \cup B) = Cardinality(A) + Cardinality(B)
  <2>1. /\ IsFiniteSet(A \cup B)
        /\ Cardinality(A \cup B) = Cardinality(A) + Cardinality(B) - Cardinality(A \cap B)
    BY <1>3, <1>8, FS_Union
  <2>2. Cardinality(A \cap B) = 0
    BY <1>7, FS_EmptySet
  <2> QED
    BY <1>2, <1>3, <1>8, <2>1, <2>2
<1>10. Cardinality((A \cup B) \cup {det[j]}) = Cardinality(A \cup B) + 1
  <2>1. det[j] \notin A \cup B
    BY <1>4, <1>7
  <2> QED
    BY <1>9, <2>1, FS_AddElement
<1>11. Cardinality((A \cup B) \cup {det[j]}) <= Cardinality(Obj)
  <2>1. (A \cup B) \cup {det[j]} \in SUBSET Obj
    BY <1>3, <1>4, <1>7
  <2> QED
    BY <2>1, TrackerAssumption, FS_Subset
<1>12. Cardinality(Obj) \in Nat /\ MaxTracks \in Nat
  BY TrackerAssumption, FS_CardinalityType
<1>13. Cardinality(tr.tracks) + Ahead(tr, det, j) < MaxTracks
  BY <1>2, <1>3, <1>8, <1>9, <1>10, <1>11, <1>12
<1> QED
  BY <1>13 DEF Admitted

\* The frames an object has gone unseen, after one more of them.
Unseen(u, det) ==
    [o \in Obj |-> IF o \in ToSet(det) THEN 0 ELSE Capped(u[o] + 1, MaxMissedFrames + 1)]

\* The tracks tell for how long their objects have not been seen.
Follows(tr, u) ==
    /\ \A t \in tr.tracks : t.miss = u[t.obj]
    /\ Cardinality(Obj) <= MaxTracks =>
          \A o \in Obj : u[o] <= MaxMissedFrames => o \in Tracked(tr)

LEMMA UpdateFollows ==
    ASSUME NEW tr, Sound(tr), NEW det, Frame(det),
           NEW u \in [Obj -> Nat], Follows(tr, u)
    PROVE  Unseen(u, det) \in [Obj -> Nat] /\ Follows(Ideal(tr, det), Unseen(u, det))
<1> DEFINE v == Unseen(u, det)
           up == Ideal(tr, det)
<1>1. PICK n \in Nat : det \in [1..n -> Obj]
  BY DEF Frame
<1>2. MaxMissedFrames \in Nat
  BY TrackerAssumption
<1>3. ASSUME NEW o \in Obj
      PROVE  /\ v[o] \in Nat
             /\ o \in ToSet(det) => v[o] = 0
             /\ o \notin ToSet(det) /\ u[o] + 1 <= MaxMissedFrames => v[o] = u[o] + 1
             /\ o \notin ToSet(det) /\ v[o] <= MaxMissedFrames => u[o] + 1 <= MaxMissedFrames
  BY <1>2 DEF Unseen, Capped
<1>4. v \in [Obj -> Nat]
  <2>1. v = [o \in Obj |-> v[o]]
    BY DEF Unseen
  <2> QED
    BY <1>3, <2>1
<1>5. /\ tr \in TrackerState /\ tr.tracks \subseteq Track
      /\ \A t \in tr.tracks : t.obj \in Obj /\ t.miss = u[t.obj] /\ t.miss \in Nat
  BY DEF Sound, TrackerState, Track, Follows
<1> HIDE DEF v, up
<1>6. ASSUME NEW s \in tr.tracks
      PROVE  /\ Kept(s, det).obj = s.obj
             /\ Kept(s, det).miss = IF s.obj \in ToSet(det) THEN 0 ELSE s.miss + 1
  BY <1>5, KeptFields
<1>7. ASSUME NEW j \in Admitted(tr, det)
      PROVE  /\ New(tr, det, j).obj = det[j] /\ New(tr, det, j).miss = 0
             /\ det[j] \in ToSet(det) /\ det[j] \in Obj
  <2>1. /\ New(tr, det, j).obj = det[j] /\ New(tr, det, j).miss = 0
        /\ j \in 1..n /\ det[j] \in Obj
    BY <1>1, <1>5, NewFields
  <2> QED
    BY <1>1, <2>1 DEF ToSet
<1>8. ASSUME NEW t \in up.tracks PROVE t.miss = v[t.obj]
  <2>1. /\ t.miss <= MaxMissedFrames
        /\ \/ \E s \in tr.tracks : t = Kept(s, det)
           \/ \E j \in Admitted(tr, det) : t = New(tr, det, j)
    BY <1>8, UpdateTracks DEF up
  <2>2. ASSUME NEW s \in tr.tracks, t = Kept(s, det) PROVE t.miss = v[t.obj]
    BY <1>3, <1>5, <1>6, <2>1, <2>2
  <2>3. ASSUME NEW j \in Admitted(tr, det), t = New(tr, det, j) PROVE t.miss = v[t.obj]
    BY <1>3, <1>7, <2>3
  <2> QED
    BY <2>1, <2>2, <2>3
<1>9. ASSUME Cardinality(Obj) <= MaxTracks, NEW o \in Obj, v[o] <= MaxMissedFrames
      PROVE  o \in Tracked(up)
  <2>1. ASSUME NEW s \in tr.tracks, s.obj = o, Kept(s, det).miss <= MaxMissedFrames
        PROVE  o \in Tracked(up)
    <3>1. Kept(s, det) \in up.tracks
      BY <2>1, UpdateTracks DEF up
    <3> QED
      BY <1>6, <2>1, <3>1 DEF Tracked
  <2>2. CASE o \in ToSet(det) /\ o \in Tracked(tr)
    <3>1. PICK s \in tr.tracks : s.obj = o
      BY <2>2 DEF Tracked
    <3> QED
      BY <1>2, <1>6, <2>1, <2>2, <3>1
  <2>3. CASE o \in ToSet(det) /\ o \notin Tracked(tr)
    <3>1. PICK j \in DOMAIN det : det[j] = o
      BY <2>3 DEF ToSet
    <3>2. j \in Untracked(tr, det)
      BY <2>3, <3>1 DEF Untracked
    <3>3. j \in Admitted(tr, det)
      BY <1>9, <3>2, Room
    <3>4. New(tr, det, j) \in up.tracks
      BY <1>2, <1>7, <3>3, UpdateTracks DEF up
    <3> QED
      BY <1>7, <3>1, <3>3, <3>4 DEF Tracked
  <2>4. CASE o \notin ToSet(det)
    <3>1. u[o] + 1 <= MaxMissedFrames
      BY <1>3, <1>9, <2>4
    <3>2. o \in Tracked(tr)
      BY <1>2, <1>9, <3>1 DEF Follows
    <3>3. PICK s \in tr.tracks : s.obj = o
      BY <3>2 DEF Tracked
    <3> QED
      BY <1>5, <1>6, <2>1, <2>4, <3>1, <3>3
  <2> QED
    BY <2>2, <2>3, <2>4
<1> QED
  BY <1>4, <1>8, <1>9 DEF Follows, v, up

-----------------------------------------------------------------------------
(***************************************************************************)
(* Step 2 takes a closest one of the detections that are left within the   *)
(* radius.                                                                 *)
(***************************************************************************)
LEMMA ClosestIs ==
    ASSUME NEW n \in Nat, NEW d \in [1..n -> Nat], NEW taken,
           NEW W, W = {j \in (1..n) \ taken : d[j] < Radius}
    PROVE  IF W = {} THEN Closest(d, taken) = 0
           ELSE Closest(d, taken) \in W /\ \A k \in W : d[Closest(d, taken)] <= d[k]
<1> DEFINE First(j) == \A k \in W : d[j] < d[k] \/ (d[j] = d[k] /\ j <= k)
<1>1. DOMAIN d = 1..n /\ W \subseteq 1..n /\ \A j \in W : d[j] \in Nat /\ j \in Nat
  OBVIOUS
<1>2. Closest(d, taken) = IF W = {} THEN 0 ELSE CHOOSE j \in W : First(j)
  BY <1>1 DEF Closest
<1>3. CASE W = {}
  BY <1>2, <1>3
<1>4. CASE W # {}
  <2> DEFINE values == {d[j] : j \in W}
  <2>1. PICK v \in values : \A u \in values : v <= u
    <3>1. values \subseteq Nat /\ values # {}
      BY <1>1, <1>4
    <3> HIDE DEF values
    <3> QED
      BY <3>1, LeastNat
  <2> DEFINE best == {j \in W : d[j] = v}
  <2>2. best \subseteq Nat /\ best # {}
    BY <1>1, <2>1
  <2>3. PICK j \in best : \A k \in best : j <= k
    BY <2>2, LeastNat
  <2>4. ASSUME NEW k \in W PROVE d[j] < d[k] \/ (d[j] = d[k] /\ j <= k)
    <3>1. v \in Nat /\ d[k] \in Nat /\ v <= d[k] /\ d[j] = v
      BY <1>1, <2>1, <2>3
    <3>2. d[k] = v => j <= k
      BY <2>3
    <3> QED
      BY <3>1, <3>2
  <2>5. j \in W /\ First(j)
    BY <2>3, <2>4
  <2> HIDE DEF First
  <2>6. Closest(d, taken) \in W /\ First(Closest(d, taken))
    BY <1>2, <1>4, <2>5
  <2>7. ASSUME NEW k \in W PROVE d[Closest(d, taken)] <= d[k]
    <3>1. \/ d[Closest(d, taken)] < d[k] \/ d[Closest(d, taken)] = d[k]
      BY <2>6, <2>7 DEF First
    <3>2. d[Closest(d, taken)] \in Nat /\ d[k] \in Nat
      BY <1>1, <2>6, <2>7
    <3> QED
      BY <3>1, <3>2
  <2> QED
    BY <1>4, <2>6, <2>7
<1> QED
  BY <1>3, <1>4

\* What a track is matched with when it is matched with its object.
Right(t, det, m) ==
    IF t.obj \in ToSet(det) THEN m[t] \in DOMAIN det /\ det[m[t]] = t.obj ELSE m[t] = 0

(***************************************************************************)
(* Greedy as it is, the association is right when objects are told apart:  *)
(* by induction over the tracks in their order, none takes the detection   *)
(* of another's object.                                                    *)
(***************************************************************************)
LEMMA AssociatesRight ==
    ASSUME NEW tr, Sound(tr), NEW det, Frame(det), NEW dist \in Distances(tr, det),
           OnItsObject(det, dist), ToldApart(det, dist),
           NEW m \in Associations(tr, det, dist), NEW t0 \in tr.tracks
    PROVE  Right(t0, det, m)
<1>1. PICK n \in Nat : /\ det \in [1..n -> Obj]
                       /\ \A i, j \in 1..n : det[i] = det[j] => i = j
  BY DEF Frame
<1>2. /\ \A s, t \in tr.tracks : s.obj = t.obj => s = t
      /\ \A t \in tr.tracks : t.id \in Nat
  BY DEF Sound, TrackerState, Track
<1>3. DOMAIN det = 1..n /\ dist \in [tr.tracks -> [1..n -> 0..Radius]] /\ Radius \in Nat
  BY <1>1, TrackerAssumption DEF Distances
<1> DEFINE Wrong == {t \in tr.tracks : ~Right(t, det, m)}
           ids == {t.id : t \in Wrong}
<1> SUFFICES ASSUME Wrong # {} PROVE FALSE
  OBVIOUS
<1>4. ids \subseteq Nat /\ ids # {}
  BY <1>2
<1>5. PICK b \in ids : \A k \in ids : b <= k
  BY <1>4, LeastNat
<1>6. PICK t \in Wrong : t.id = b
  BY <1>5
<1>7. ASSUME NEW s \in tr.tracks, s.id < t.id PROVE Right(s, det, m) /\ s # t
  <2>1. s.id \in Nat /\ t.id \in Nat
    BY <1>2, <1>6
  <2>2. s \notin Wrong
    BY <1>5, <1>6, <1>7, <2>1
  <2> QED
    BY <1>7, <2>1, <2>2
<1> DEFINE taken == {m[s] : s \in {x \in tr.tracks : x.id < t.id}}
           W == {j \in (1..n) \ taken : dist[t][j] < Radius}
<1>8. m[t] = Closest(dist[t], taken)
  BY <1>6 DEF Associations
<1>9. dist[t] \in [1..n -> Nat] /\ \A j \in 1..n : dist[t][j] \in Nat
  <2>1. dist[t] \in [1..n -> 0..Radius]
    BY <1>3, <1>6
  <2>2. 0..Radius \subseteq Nat
    BY <1>3
  <2> QED
    BY <2>1, <2>2
<1>10. ASSUME NEW j \in 1..n, det[j] # t.obj, j \in W
       PROVE  \E k \in 1..n : det[k] = t.obj /\ dist[t][k] < dist[t][j]
  <2>1. t \in DOMAIN dist
    BY <1>3, <1>6
  <2>2. \/ det[j] = t.obj \/ dist[t][j] = Radius
        \/ \E k \in 1..n : det[k] = t.obj /\ dist[t][k] < dist[t][j]
    BY <1>3, <2>1 DEF ToldApart
  <2>3. dist[t][j] # Radius
    BY <1>3, <1>9, <1>10
  <2> QED
    BY <1>10, <2>2, <2>3
<1>11. CASE t.obj \in ToSet(det)
  <2>1. PICK k \in 1..n : det[k] = t.obj
    BY <1>3, <1>11 DEF ToSet
  <2>2. k \notin taken
    <3> SUFFICES ASSUME NEW s \in tr.tracks, s.id < t.id, m[s] = k PROVE FALSE
      OBVIOUS
    <3>1. Right(s, det, m) /\ s # t
      BY <1>7
    <3>2. k # 0
      OBVIOUS
    <3>3. det[m[s]] = s.obj
      BY <3>1, <3>2 DEF Right
    <3> QED
      BY <1>2, <1>6, <2>1, <3>1, <3>3
  <2>3. dist[t][k] < Radius
    <3>1. t \in DOMAIN dist /\ k \in DOMAIN det
      BY <1>3, <1>6
    <3> QED
      BY <2>1, <3>1 DEF OnItsObject
  <2>4. k \in W
    BY <2>2, <2>3
  <2> HIDE DEF taken, W
  <2>5. m[t] \in W /\ dist[t][m[t]] <= dist[t][k]
    <3>1. W = {j \in (1..n) \ taken : dist[t][j] < Radius}
      BY DEF W
    <3>2. IF W = {} THEN Closest(dist[t], taken) = 0
          ELSE /\ Closest(dist[t], taken) \in W
               /\ \A i \in W : dist[t][Closest(dist[t], taken)] <= dist[t][i]
      BY <1>9, <3>1, ClosestIs
    <3> QED
      BY <1>8, <2>4, <3>2
  <2>6. m[t] \in 1..n
    BY <2>5 DEF W
  <2>7. det[m[t]] = t.obj
    <3> SUFFICES ASSUME det[m[t]] # t.obj PROVE FALSE
      OBVIOUS
    <3>1. PICK i \in 1..n : det[i] = t.obj /\ dist[t][i] < dist[t][m[t]]
      BY <1>10, <2>5, <2>6
    <3>2. i = k
      BY <1>1, <2>1, <3>1
    <3>3. dist[t][k] \in Nat /\ dist[t][m[t]] \in Nat
      BY <1>9, <2>6
    <3> QED
      BY <2>5, <3>1, <3>2, <3>3
  <2> QED
    BY <1>3, <1>6, <1>11, <2>6, <2>7 DEF Right
<1>12. CASE t.obj \notin ToSet(det)
  <2>1. \A k \in 1..n : det[k] # t.obj
    BY <1>3, <1>12 DEF ToSet
  <2>2. W = {}
    <3> SUFFICES ASSUME NEW j \in W PROVE FALSE
      OBVIOUS
    <3>1. j \in 1..n
      OBVIOUS
    <3> QED
      BY <1>10, <2>1, <3>1
  <2> HIDE DEF taken, W
  <2>3. m[t] = 0
    <3>1. W = {j \in (1..n) \ taken : dist[t][j] < Radius}
      BY DEF W
    <3> QED
      BY <1>8, <1>9, <2>2, <3>1, ClosestIs
  <2> QED
    BY <1>6, <1>12, <2>3 DEF Right
<1> QED
  BY <1>11, <1>12

\* So update() does what it would do if it knew the objects.
LEMMA UpdateIsIdeal ==
    ASSUME NEW tr, Sound(tr), NEW det, Frame(det), NEW dist \in Distances(tr, det),
           OnItsObject(det, dist), ToldApart(det, dist),
           NEW m \in Associations(tr, det, dist)
    PROVE  Update(tr, det, m) = Ideal(tr, det)
<1>1. PICK n \in Nat : /\ det \in [1..n -> Obj]
                       /\ \A i, j \in 1..n : det[i] = det[j] => i = j
  BY DEF Frame
<1>2. DOMAIN det = 1..n /\ tr.tracks \subseteq Track
  BY <1>1 DEF Sound, TrackerState
<1>3. \A t \in tr.tracks : Right(t, det, m)
  BY AssociatesRight
<1> DEFINE Next1(t) == IF m[t] = 0 THEN [t EXCEPT !.miss = @ + 1]
                       ELSE [t EXCEPT !.obj = det[m[t]], !.miss = 0]
<1>4. ASSUME NEW t \in tr.tracks PROVE Next1(t) = Kept(t, det)
  <2>1. t \in Track /\ t = [obj |-> t.obj, id |-> t.id, miss |-> t.miss]
    BY <1>2 DEF Track
  <2>2. CASE t.obj \in ToSet(det)
    <3>1. m[t] \in 1..n /\ det[m[t]] = t.obj
      BY <1>2, <1>3, <2>2 DEF Right
    <3>2. m[t] # 0
      BY <3>1
    <3>3. Next1(t) = [obj |-> t.obj, id |-> t.id, miss |-> 0]
      BY <2>1, <3>1, <3>2
    <3>4. Kept(t, det) = [obj |-> t.obj, id |-> t.id, miss |-> 0]
      BY <2>1, <2>2 DEF Kept
    <3> QED
      BY <3>3, <3>4
  <2>3. CASE t.obj \notin ToSet(det)
    <3>1. m[t] = 0
      BY <1>3, <2>3 DEF Right
    <3> QED
      BY <2>3, <3>1 DEF Kept
  <2> QED
    BY <2>2, <2>3
<1>5. Matched(tr, det, m) = {Kept(s, det) : s \in tr.tracks}
  <2>1. Matched(tr, det, m) = {Next1(s) : s \in tr.tracks}
    BY DEF Matched
  <2> HIDE DEF Next1
  <2> QED
    BY <1>4, <2>1
<1>6. Unmatched(tr, det, m) = Untracked(tr, det)
  <2>1. ASSUME NEW j \in 1..n, NEW t \in tr.tracks PROVE m[t] = j <=> det[j] = t.obj
    <3>1. CASE t.obj \in ToSet(det)
      <4>1. m[t] \in 1..n /\ det[m[t]] = t.obj
        BY <1>2, <1>3, <3>1 DEF Right
      <4> QED
        BY <1>1, <4>1
    <3>2. CASE t.obj \notin ToSet(det)
      <4>1. m[t] = 0 /\ j # 0 /\ det[j] # t.obj
        BY <1>2, <1>3, <3>2 DEF Right, ToSet
      <4> QED
        BY <4>1
    <3> QED
      BY <3>1, <3>2
  <2> QED
    BY <1>2, <2>1 DEF Unmatched, Untracked, Tracked
<1>7. \A j : Before(tr, det, m, j) = Ahead(tr, det, j)
  BY <1>6 DEF Before, Ahead
<1>8. Fresh(tr, det, m) = Admitted(tr, det)
  BY <1>6, <1>7 DEF Fresh, Admitted
<1>9. Spawned(tr, det, m) = {New(tr, det, j) : j \in Admitted(tr, det)}
  BY <1>7, <1>8 DEF Spawned, New
<1> QED
  BY <1>5, <1>8, <1>9 DEF Update, Prune, Ideal

(***************************************************************************)
(* Identities given earlier stay with their objects.                       *)
(***************************************************************************)
LEMMA UpdateKnown ==
    ASSUME NEW tr, Sound(tr), NEW det, Frame(det), NEW given0, Known(tr, given0)
    PROVE  /\ Agree(Ideal(tr, det), given0)
           /\ Known(Ideal(tr, det), given0 \cup Named(Ideal(tr, det)))
<1> DEFINE up == Ideal(tr, det)
<1>1. Sound(up)
  BY UpdateSound
<1>2. PICK n \in Nat : det \in [1..n -> Obj]
  BY DEF Frame
<1>3. /\ tr \in TrackerState /\ tr.next_id \in Nat /\ up.next_id \in Nat
      /\ tr.tracks \subseteq Track
      /\ \A x \in given0 : x.id \in Nat /\ x.id < tr.next_id
  BY <1>1 DEF Sound, TrackerState, Known
<1>4. up.next_id = tr.next_id + Cardinality(Admitted(tr, det))
  BY DEF Ideal
<1>5. Cardinality(Admitted(tr, det)) \in Nat
  BY <1>2, UnmatchedFinite
<1>6. ASSUME NEW t \in up.tracks, NEW x \in given0, x.id = t.id PROVE x.obj = t.obj
  <2>1. \/ \E s \in tr.tracks : t = Kept(s, det)
        \/ \E j \in Admitted(tr, det) : t = New(tr, det, j)
    BY UpdateTracks
  <2>2. ASSUME NEW s \in tr.tracks, t = Kept(s, det) PROVE x.obj = t.obj
    <3>1. s \in Track
      BY <1>3
    <3>2. t.id = s.id /\ t.obj = s.obj
      BY <2>2, <3>1, KeptFields
    <3> QED
      BY <1>6, <3>2 DEF Known, Agree
  <2>3. ASSUME NEW j \in Admitted(tr, det), t = New(tr, det, j) PROVE FALSE
    <3>1. t.id = tr.next_id + Ahead(tr, det, j)
      BY <1>2, <1>3, <2>3, NewFields
    <3>2. Ahead(tr, det, j) \in Nat
      BY <1>2, UnmatchedFinite
    <3> QED
      BY <1>3, <1>6, <3>1, <3>2
  <2> QED
    BY <2>1, <2>2, <2>3
<1> HIDE DEF up
<1>7. Agree(up, given0)
  BY <1>6 DEF Agree
<1>8. ASSUME NEW x \in Named(up)
      PROVE  /\ x.id \in Nat /\ x.id < up.next_id
             /\ \A t \in up.tracks : x.id = t.id => x.obj = t.obj
  <2>1. PICK s \in up.tracks : x = [id |-> s.id, obj |-> s.obj]
    BY <1>8 DEF Named
  <2>2. x.id = s.id /\ x.obj = s.obj
    BY <2>1
  <2>3. s \in Track
    BY <1>1 DEF Sound, TrackerState
  <2> QED
    BY <1>1, <2>2, <2>3 DEF Sound, Track
<1>9. \A x \in given0 : x.id \in Nat /\ x.id < up.next_id
  BY <1>3, <1>4, <1>5
<1>10. Known(up, given0 \cup Named(up))
  BY <1>7, <1>8, <1>9 DEF Known, Agree
<1> QED
  BY <1>7, <1>10 DEF up

LEMMA UnseenTyped ==
    ASSUME NEW u \in [Obj -> Nat], NEW det
    PROVE  Unseen(u, det) \in [Obj -> Nat]
<1>1. ASSUME NEW o \in Obj PROVE Unseen(u, det)[o] \in Nat
  BY TrackerAssumption DEF Unseen, Capped
<1>2. Unseen(u, det) = [o \in Obj |-> Unseen(u, det)[o]]
  BY DEF Unseen
<1> QED
  BY <1>1, <1>2

\* Whatever it matches, update() leaves tracks and a number.
LEMMA UpdateTyped ==
    ASSUME NEW tr \in TrackerState, NEW det, Frame(det), NEW dist,
           NEW m \in Associations(tr, det, dist)
    PROVE  Update(tr, det, m) \in TrackerState
<1>1. PICK n \in Nat : det \in [1..n -> Obj]
  BY DEF Frame
<1>2. /\ DOMAIN det = 1..n /\ Len(det) = n /\ tr.tracks \subseteq Track /\ tr.next_id \in Nat
      /\ IsFiniteSet(1..n)
  BY <1>1, FS_Interval DEF TrackerState
<1>3. m \in [tr.tracks -> 0..n]
  BY <1>2 DEF Associations
<1>4. ASSUME NEW S \in SUBSET (1..n) PROVE Cardinality(S) \in Nat
  BY <1>2, <1>4, FS_Subset, FS_CardinalityType
<1>5. /\ Unmatched(tr, det, m) \in SUBSET (1..n) /\ Fresh(tr, det, m) \in SUBSET (1..n)
      /\ \A j : {k \in Unmatched(tr, det, m) : k < j} \in SUBSET (1..n)
  BY <1>2 DEF Unmatched, Fresh
<1>6. /\ Cardinality(Fresh(tr, det, m)) \in Nat
      /\ \A j : Before(tr, det, m, j) \in Nat
  BY <1>4, <1>5 DEF Before
<1> DEFINE Next1(t) == IF m[t] = 0 THEN [t EXCEPT !.miss = @ + 1]
                       ELSE [t EXCEPT !.obj = det[m[t]], !.miss = 0]
<1>7. ASSUME NEW t \in tr.tracks PROVE Next1(t) \in Track
  <2>1. t \in Track /\ m[t] \in 0..n
    BY <1>2, <1>3
  <2>2. CASE m[t] = 0
    BY <2>1, <2>2 DEF Track
  <2>3. CASE m[t] # 0
    <3>1. det[m[t]] \in Obj
      BY <1>1, <2>1, <2>3
    <3> DEFINE o == det[m[t]]
               h == [t EXCEPT !.obj = o]
    <3> HIDE DEF o
    <3>2. h \in Track
      BY <2>1, <3>1 DEF Track, o
    <3>3. [t EXCEPT !.obj = o, !.miss = 0] = [h EXCEPT !.miss = 0]
      OBVIOUS
    <3> HIDE DEF h
    <3>4. [h EXCEPT !.miss = 0] \in Track
      BY <3>2 DEF Track
    <3> QED
      BY <2>3, <3>3, <3>4 DEF o
  <2> QED
    BY <2>2, <2>3
<1>8. Matched(tr, det, m) \subseteq Track
  <2>1. Matched(tr, det, m) = {Next1(t) : t \in tr.tracks}
    BY DEF Matched
  <2> HIDE DEF Next1
  <2> QED
    BY <1>7, <2>1
<1>9. Spawned(tr, det, m) \subseteq Track
  <2>1. ASSUME NEW j \in Fresh(tr, det, m)
        PROVE  [obj |-> det[j], id |-> tr.next_id + Before(tr, det, m, j), miss |-> 0] \in Track
    <3>1. det[j] \in Obj
      BY <1>1, <1>5
    <3> QED
      BY <1>2, <1>6, <3>1 DEF Track
  <2> QED
    BY <2>1 DEF Spawned
<1> QED
  BY <1>2, <1>6, <1>8, <1>9 DEF Update, Prune, TrackerState

-----------------------------------------------------------------------------
(***************************************************************************)
(* The node around the tracker.                                            *)
(***************************************************************************)
Age == {a \in Int : a >= -NeverAge}
Service ==
    [age : [Sensor -> Age], snapshot : Int, depth : BOOLEAN, tracker : TrackerState]

Typed ==
    /\ lc \in {"unconfigured", "inactive", "active"}
    /\ works \subseteq {"imu", "camera"} /\ watched \in Sensor
    /\ adapter \in [arrival : Int, event : Int]
    /\ IF lc = "unconfigured" THEN service = None ELSE service \in Service
    /\ since \in Int /\ timer \in 0..Jitter /\ hb_age \in 0..HeartbeatEvery
    /\ silence \in Nat /\ unseen \in [Obj -> Nat]

\* Silence and the timers count only in an active node.
AtRest == lc # "active" => silence = 0 /\ timer = 0 /\ hb_age = 0

\* A sensor that answers is not silent, nor is the lidar longer than its
\* last scan is old, which the adapter drops after its window.
Heard ==
    /\ watched \in works => silence = 0
    /\ watched = "lidar" /\ adapter.arrival # Never =>
          silence <= adapter.arrival \/ adapter.arrival > StaleWindow

\* From its first call on the timer's ticks leave no gap.
Ticking == lc = "active" => since = timer \/ silence <= timer

Window(s) == IF s = "lidar" THEN StaleWindow ELSE 0
Slack(s) == NeverAge + Window(s) + Jitter

\* The age of the sensor follows its silence until it is stale; so does
\* the level, and with it what the heartbeat has told.
AgeFollows ==
    lc # "unconfigured" =>
        \/ service.age[watched] > Timeout[watched]
        \/ silence <= service.age[watched] + Slack(watched) + timer
LevelFollows ==
    level = "FULL" => silence <= Timeout[watched] + Slack(watched) + timer
ReadyFollows ==
    ready => silence <= Timeout[watched] + Slack(watched) + Jitter + hb_age

\* The tracks follow what was published, and identities their objects.
TrackerSound ==
    IF lc = "unconfigured" THEN unseen = [o \in Obj |-> MaxMissedFrames + 1] /\ given = {}
    ELSE ~Crowded => /\ Sound(service.tracker) /\ Follows(service.tracker, unseen)
                     /\ Known(service.tracker, given)

PerceptionInv ==
    /\ Typed /\ AtRest /\ Heard /\ Ticking
    /\ AgeFollows /\ LevelFollows /\ ReadyFollows
    /\ TrackerSound

-----------------------------------------------------------------------------
LEMMA Constants ==
    /\ NeverAge \in Nat /\ StaleWindow \in Nat /\ Jitter \in Nat /\ TickLimit \in Nat
    /\ Jitter < TickLimit /\ HeartbeatEvery \in Nat
    /\ \A s \in Sensor : Timeout[s] \in Nat /\ Window(s) \in Nat /\ Slack(s) \in Nat
    /\ \A s \in Sensor : Slack(s) = NeverAge + Window(s) + Jitter
<1>1. /\ NeverAge \in Nat /\ StaleWindow \in Nat /\ Jitter \in Nat /\ TickLimit \in Nat
      /\ Jitter < TickLimit /\ HeartbeatEvery \in Nat
  BY PerceptionAssumption
<1>2. ASSUME NEW s \in Sensor PROVE Timeout[s] \in Nat
  BY PerceptionAssumption
<1>3. ASSUME NEW s \in Sensor PROVE Window(s) \in Nat
  BY <1>1 DEF Window
<1> QED
  BY <1>1, <1>2, <1>3 DEF Slack

LEMMA ServiceIsSome == \A sv \in Service : sv # None
<1> SUFFICES ASSUME NEW sv \in Service, sv = None PROVE FALSE
  OBVIOUS
<1>1. sv.age \in [Sensor -> Age]
  BY DEF Service
<1>2. sv.age = <<>>
  BY DEF None
<1>3. DOMAIN sv.age = Sensor /\ DOMAIN sv.age = {}
  BY <1>1, <1>2
<1> QED
  BY <1>3 DEF Sensor

(***************************************************************************)
(* DegradationPolicy::evaluate() is FULL only if no sensor is stale.       *)
(***************************************************************************)
LEMMA FullMeansFresh ==
    ASSUME NEW age, Evaluate(age) = "FULL", NEW s \in Sensor
    PROVE  ~(age[s] > Timeout[s])
<1> DEFINE missing == {r \in Sensor : IsStale(r, age[r])}
<1>1. IsFiniteSet(Sensor)
  <2>1. IsFiniteSet({"lidar"})
    BY FS_Singleton
  <2>2. IsFiniteSet({"lidar"} \cup {"imu"})
    BY <2>1, FS_AddElement
  <2>3. IsFiniteSet(({"lidar"} \cup {"imu"}) \cup {"camera"})
    BY <2>2, FS_AddElement
  <2>4. Sensor = ({"lidar"} \cup {"imu"}) \cup {"camera"}
    BY DEF Sensor
  <2> QED
    BY <2>3, <2>4
<1>2. IsFiniteSet(missing) /\ missing \subseteq Sensor
  <2>1. missing \in SUBSET Sensor
    OBVIOUS
  <2> QED
    BY <1>1, <2>1, FS_Subset
<1>3. Evaluate(age) = CASE Cardinality(missing) >= 2 -> "CRITICAL"
                        [] missing = {} -> "FULL"
                        [] missing = {"lidar"} -> "NO_LIDAR"
                        [] missing = {"imu"} -> "NO_IMU"
                        [] missing = {"camera"} -> "NO_CAMERA"
  BY DEF Evaluate
<1> HIDE DEF missing
<1>4. Cardinality(missing) \in Nat
  BY <1>2, FS_CardinalityType
<1>5. \/ Cardinality(missing) >= 2
      \/ missing = {} \/ missing = {"lidar"} \/ missing = {"imu"} \/ missing = {"camera"}
  <2>1. CASE Cardinality(missing) = 0
    BY <1>2, <2>1, FS_EmptySet
  <2>2. CASE Cardinality(missing) = 1
    <3>1. PICK x : missing = {x}
      BY <1>2, <2>2, FS_Singleton
    <3> QED
      BY <1>2, <3>1 DEF Sensor
  <2> QED
    BY <1>4, <2>1, <2>2
<1>6. missing = {}
  BY <1>3, <1>5
<1> QED
  BY <1>6 DEF missing, IsStale

LEMMA TickedFields ==
    ASSUME NEW sv \in Service, NEW dt \in Nat, adapter \in [arrival : Int, event : Int]
    PROVE  /\ Ticked(sv, dt) \in Service
           /\ Ticked(sv, dt).tracker = sv.tracker
           /\ \A s \in Sensor :
                 Ticked(sv, dt).age[s] =
                     IF Reads(s) THEN 0 ELSE Capped(sv.age[s] + dt, AgeCap(s))
<1> DEFINE age == [s \in Sensor |->
                      IF Reads(s) THEN 0 ELSE Capped(sv.age[s] + dt, AgeCap(s))]
           snapshot == IF LidarReads THEN adapter.event ELSE sv.snapshot
           depth == "camera" \in works
<1>1. ASSUME NEW s \in Sensor PROVE age[s] \in Age
  <2>1. sv.age[s] \in Int /\ sv.age[s] >= -NeverAge
    BY DEF Service, Age
  <2>2. Timeout[s] \in Nat /\ NeverAge \in Nat
    BY Constants
  <2> QED
    BY <2>1, <2>2 DEF Capped, AgeCap, Age
<1>2. age \in [Sensor -> Age]
  BY <1>1
<1>3. snapshot \in Int
  BY DEF Service
<1>4. depth \in BOOLEAN
  OBVIOUS
<1>5. Ticked(sv, dt) = [sv EXCEPT !.age = age, !.snapshot = snapshot, !.depth = depth]
  BY DEF Ticked
<1>6. \A s \in Sensor : age[s] = IF Reads(s) THEN 0 ELSE Capped(sv.age[s] + dt, AgeCap(s))
  OBVIOUS
<1> HIDE DEF age, snapshot, depth
<1> DEFINE h == [sv EXCEPT !.age = age]
           k == [h EXCEPT !.snapshot = snapshot]
<1>7. h \in Service /\ h.age = age /\ h.tracker = sv.tracker
  BY <1>2 DEF Service
<1>8. [sv EXCEPT !.age = age, !.snapshot = snapshot, !.depth = depth]
        = [k EXCEPT !.depth = depth]
  OBVIOUS
<1> HIDE DEF h
<1>9. k \in Service /\ k.age = age /\ k.tracker = sv.tracker
  BY <1>3, <1>7 DEF Service
<1> HIDE DEF k
<1>10. /\ [k EXCEPT !.depth = depth] \in Service
       /\ [k EXCEPT !.depth = depth].age = age
       /\ [k EXCEPT !.depth = depth].tracker = sv.tracker
  BY <1>4, <1>9 DEF Service
<1> QED
  BY <1>5, <1>6, <1>8, <1>10

LEMMA DetectionsFrame ==
    ASSUME NEW sv, NEW lv, NEW det \in Detections(sv, lv)
    PROVE  Frame(det)
<1>1. CASE det = <<>>
  BY <1>1 DEF Frame
<1>2. ASSUME NEW seen \in SUBSET Obj, det \in SetToSeqs(seen) PROVE Frame(det)
  <2>1. Cardinality(seen) \in Nat
    BY TrackerAssumption, FS_Subset, FS_CardinalityType
  <2>2. /\ det \in [1..Cardinality(seen) -> Obj]
        /\ \A i, j \in 1..Cardinality(seen) : i # j => det[i] # det[j]
    BY <1>2 DEF SetToSeqs
  <2> QED
    BY <2>1, <2>2 DEF Frame
<1> QED
  BY <1>1, <1>2 DEF Detections

-----------------------------------------------------------------------------
LEMMA PerceptionInit == Init => PerceptionInv
<1> SUFFICES ASSUME Init PROVE PerceptionInv
  OBVIOUS
<1>1. Typed
  <2>1. adapter \in [arrival : Int, event : Int]
    BY DEF Init, NoScan, Never
  <2>2. unseen \in [Obj -> Nat]
    BY TrackerAssumption DEF Init
  <2> QED
    BY <2>1, <2>2, Constants DEF Init, Typed, Never
<1>2. AtRest /\ Heard /\ Ticking /\ AgeFollows
  BY DEF Init, AtRest, Heard, Ticking, AgeFollows, NoScan
<1>3. LevelFollows /\ ReadyFollows
  BY <1>1, Constants DEF Init, LevelFollows, ReadyFollows, Typed
<1>4. TrackerSound
  BY DEF Init, TrackerSound
<1> QED
  BY <1>1, <1>2, <1>3, <1>4 DEF PerceptionInv

LEMMA ConfigureStep ==
    ASSUME PerceptionInv, OnConfigure, UNCHANGED watched
    PROVE  PerceptionInv'
<1>1. /\ lc' = "inactive" /\ adapter' = NoScan /\ service' = NewService
      /\ UNCHANGED <<works, since, timer, level, hb_age, ready, silence, unseen, given,
                     watched>>
      /\ lc = "unconfigured"
  BY DEF OnConfigure
<1>2. Typed /\ silence = 0 /\ timer = 0 /\ hb_age = 0
  BY <1>1 DEF PerceptionInv, AtRest
<1>3. InitialTracker \in TrackerState /\ InitialTracker.tracks = {}
  BY DEF InitialTracker, TrackerState
<1>4. /\ service' \in Service /\ service'.tracker = InitialTracker
      /\ \A s \in Sensor : service'.age[s] = -NeverAge
  BY <1>1, <1>3, Constants DEF NewService, Service, Age, Never
<1>5. Typed'
  <2>1. adapter' \in [arrival : Int, event : Int]
    BY <1>1 DEF NoScan, Never
  <2> QED
    BY <1>1, <1>2, <1>4, <2>1 DEF Typed
<1>6. AtRest' /\ Heard' /\ Ticking'
  BY <1>1, <1>2 DEF AtRest, Heard, Ticking, NoScan
<1>7. AgeFollows' /\ LevelFollows' /\ ReadyFollows'
  <2>1. watched \in Sensor
    BY <1>2 DEF Typed
  <2>2. service'.age[watched] = -NeverAge
    BY <1>4, <2>1
  <2>3. /\ NeverAge \in Nat /\ Jitter \in Nat /\ Window(watched) \in Nat
        /\ Timeout[watched] \in Nat
        /\ Slack(watched) = NeverAge + Window(watched) + Jitter
    BY <2>1, Constants
  <2> QED
    BY <1>1, <1>2, <2>2, <2>3 DEF AgeFollows, LevelFollows, ReadyFollows
<1>8. TrackerSound'
  <2>1. Sound(InitialTracker)
    BY <1>3 DEF Sound
  <2>2. \A o \in Obj : unseen[o] = MaxMissedFrames + 1
    BY <1>1 DEF PerceptionInv, TrackerSound
  <2>3. Follows(InitialTracker, unseen)
    BY <1>3, <2>2, TrackerAssumption DEF Follows
  <2>4. given = {}
    BY <1>1 DEF PerceptionInv, TrackerSound
  <2>5. Known(InitialTracker, given)
    BY <2>4 DEF Known, Agree
  <2> QED
    BY <1>1, <1>4, <2>1, <2>3, <2>5 DEF TrackerSound
<1> QED
  BY <1>5, <1>6, <1>7, <1>8 DEF PerceptionInv

(***************************************************************************)
(* A step that leaves the service alone, and the silence unless it ends.   *)
(***************************************************************************)
LEMMA QuietStep ==
    ASSUME PerceptionInv,
           UNCHANGED <<watched, service, since, level, unseen, given>>,
           lc = "unconfigured" <=> lc' = "unconfigured",
           Typed', AtRest', Heard',
           lc' = "active" => lc = "active" \/ silence' = 0,
           silence' \in {0, silence},
           timer' = timer \/ silence' = 0,
           hb_age' = hb_age \/ silence' = 0,
           ready' = ready
    PROVE  PerceptionInv'
<1>1. Typed
  BY DEF PerceptionInv
<1>2. watched \in Sensor /\ watched' = watched
  BY <1>1 DEF Typed
<1>3. /\ Slack(watched) \in Nat /\ Timeout[watched] \in Nat /\ NeverAge \in Nat
      /\ Window(watched) \in Nat /\ Jitter \in Nat
      /\ Slack(watched) = NeverAge + Window(watched) + Jitter
  BY <1>2, Constants
<1>4. /\ silence \in Nat /\ silence' \in Nat /\ timer \in Nat /\ timer' \in Nat
      /\ hb_age \in Nat /\ hb_age' \in Nat
  BY <1>1, Constants DEF Typed
<1>5. Ticking'
  BY <1>4 DEF PerceptionInv, Ticking
<1>6. AgeFollows'
  <2> SUFFICES ASSUME lc # "unconfigured"
               PROVE  \/ service.age[watched] > Timeout[watched]
                      \/ silence' <= service.age[watched] + Slack(watched) + timer'
    BY <1>2 DEF AgeFollows
  <2>1. service.age[watched] \in Int /\ service.age[watched] >= -NeverAge
    BY <1>1, <1>2 DEF Typed, Service, Age
  <2>2. \/ service.age[watched] > Timeout[watched]
        \/ silence <= service.age[watched] + Slack(watched) + timer
    BY DEF PerceptionInv, AgeFollows
  <2> QED
    BY <1>3, <1>4, <2>1, <2>2
<1>7. LevelFollows'
  BY <1>2, <1>3, <1>4 DEF PerceptionInv, LevelFollows
<1>8. ReadyFollows'
  BY <1>2, <1>3, <1>4 DEF PerceptionInv, ReadyFollows
<1>9. TrackerSound'
  BY DEF PerceptionInv, TrackerSound
<1> QED
  BY <1>5, <1>6, <1>7, <1>8, <1>9 DEF PerceptionInv

LEMMA LifecycleStep ==
    ASSUME PerceptionInv, OnActivate \/ OnDeactivate, UNCHANGED watched
    PROVE  PerceptionInv'
<1>1. /\ lc # "unconfigured" /\ lc' # "unconfigured" /\ lc \in {"inactive", "active"}
      /\ UNCHANGED <<works, watched, adapter, service, since, level, ready, unseen, given>>
      /\ \/ /\ lc = "inactive" /\ lc' = "active"
            /\ UNCHANGED <<timer, hb_age, silence>>
         \/ lc' = "inactive" /\ timer' = 0 /\ hb_age' = 0 /\ silence' = 0
  BY DEF OnActivate, OnDeactivate
<1>2. Typed
  BY DEF PerceptionInv
<1>3. Typed'
  BY <1>1, <1>2, Constants DEF Typed
<1>4. lc = "inactive" => silence = 0
  BY DEF PerceptionInv, AtRest
<1>5. AtRest'
  BY <1>1, <1>4 DEF AtRest
<1>6. Heard'
  <2>1. silence' = 0
    BY <1>1, <1>4
  <2>2. adapter'.arrival \in Int /\ StaleWindow \in Nat
    BY <1>3, Constants DEF Typed
  <2>3. watched' = "lidar" /\ adapter'.arrival # Never =>
            silence' <= adapter'.arrival \/ adapter'.arrival > StaleWindow
    BY <1>1, <1>2, <2>1, <2>2 DEF PerceptionInv, Heard, Typed
  <2> QED
    BY <2>1, <2>3 DEF Heard
<1> QED
  BY <1>1, <1>3, <1>4, <1>5, <1>6, QuietStep

LEMMA FeedScanStep ==
    ASSUME PerceptionInv, NEW lag \in 0..MaxLag, FeedScan(lag), UNCHANGED watched
    PROVE  PerceptionInv'
<1>1. /\ UNCHANGED <<lc, works, watched, service, since, timer, level, hb_age, ready, unseen,
                     given>>
      /\ \/ /\ adapter' = [arrival |-> 0, event |-> lag]
            /\ silence' = (IF watched = "lidar" THEN 0 ELSE silence)
         \/ UNCHANGED <<adapter, silence>>
  BY DEF FeedScan
<1>2. Typed /\ AtRest /\ Heard
  BY DEF PerceptionInv
<1>3. Typed'
  <2>1. lag \in Int
    BY PerceptionAssumption
  <2>2. adapter' \in [arrival : Int, event : Int] /\ silence' \in Nat
    BY <1>1, <1>2, <2>1 DEF Typed
  <2> QED
    BY <1>1, <1>2, <2>2 DEF Typed
<1>4. AtRest'
  BY <1>1, <1>2 DEF AtRest
<1>5. Heard'
  BY <1>1, <1>2 DEF Heard
<1> QED
  BY <1>1, <1>3, <1>4, <1>5, QuietStep

LEMMA ToggleStep ==
    ASSUME PerceptionInv, NEW s \in {"imu", "camera"}, Toggle(s), UNCHANGED watched
    PROVE  PerceptionInv'
<1>1. /\ UNCHANGED <<lc, watched, adapter, service, since, timer, level, hb_age, ready, unseen,
                     given>>
      /\ works' = IF s \in works THEN works \ {s} ELSE works \cup {s}
      /\ silence' = (IF watched = s THEN 0 ELSE silence)
  BY DEF Toggle, fusion
<1>2. Typed /\ AtRest /\ Heard
  BY DEF PerceptionInv
<1>3. Typed'
  <2>1. works' \subseteq {"imu", "camera"} /\ silence' \in Nat
    BY <1>1, <1>2 DEF Typed
  <2> QED
    BY <1>1, <1>2, <2>1 DEF Typed
<1>4. AtRest'
  BY <1>1, <1>2 DEF AtRest
<1>5. Heard'
  <2>1. watched' \in works' => silence' = 0
    BY <1>1, <1>2 DEF Heard
  <2>2. watched = "lidar" => silence' = silence
    BY <1>1
  <2> QED
    BY <1>1, <1>2, <2>1, <2>2 DEF Heard
<1> QED
  BY <1>1, <1>3, <1>4, <1>5, QuietStep

LEMMA CleanupStep ==
    ASSUME PerceptionInv, OnCleanup, UNCHANGED watched
    PROVE  PerceptionInv'
<1>1. /\ lc = "inactive" /\ lc' = "unconfigured" /\ service' = None /\ adapter' = NoScan
      /\ unseen' = [o \in Obj |-> MaxMissedFrames + 1] /\ given' = {}
      /\ UNCHANGED <<works, since, timer, level, hb_age, ready, silence, watched>>
  BY DEF OnCleanup
<1>2. Typed /\ AtRest
  BY DEF PerceptionInv
<1>3. Typed'
  <2>1. adapter' \in [arrival : Int, event : Int] /\ unseen' \in [Obj -> Nat]
    BY <1>1, TrackerAssumption DEF NoScan, Never
  <2> QED
    BY <1>1, <1>2, <2>1 DEF Typed
<1>4. AtRest' /\ Ticking' /\ AgeFollows' /\ TrackerSound'
  BY <1>1, <1>2 DEF AtRest, Ticking, AgeFollows, TrackerSound
<1>5. Heard'
  BY <1>1, <1>2 DEF Heard, AtRest, NoScan
<1>6. LevelFollows' /\ ReadyFollows'
  BY <1>1 DEF PerceptionInv, LevelFollows, ReadyFollows
<1> QED
  BY <1>3, <1>4, <1>5, <1>6 DEF PerceptionInv

(***************************************************************************)
(* The heartbeat tells the level the last call of the timer found.         *)
(***************************************************************************)
LEMMA HeartbeatStep ==
    ASSUME PerceptionInv, Heartbeat, UNCHANGED watched
    PROVE  PerceptionInv'
<1>1. /\ UNCHANGED <<lc, works, watched, adapter, service, since, timer, level, silence,
                     unseen, given>>
      /\ lc = "active" /\ hb_age' = 0 /\ ready' = (level = "FULL")
  BY DEF Heartbeat
<1>2. Typed
  BY DEF PerceptionInv
<1>3. Typed' /\ AtRest' /\ Heard' /\ Ticking'
  BY <1>1, <1>2, Constants DEF PerceptionInv, Typed, AtRest, Heard, Ticking
<1>4. AgeFollows' /\ LevelFollows' /\ TrackerSound'
  BY <1>1 DEF PerceptionInv, AgeFollows, LevelFollows, TrackerSound
<1>5. ReadyFollows'
  <2>1. watched \in Sensor /\ timer \in 0..Jitter /\ silence \in Nat
    BY <1>2 DEF Typed
  <2>2. Slack(watched) \in Nat /\ Timeout[watched] \in Nat /\ Jitter \in Nat
    BY <2>1, Constants
  <2> SUFFICES ASSUME level = "FULL"
               PROVE  silence <= Timeout[watched] + Slack(watched) + Jitter + 0
    BY <1>1 DEF ReadyFollows
  <2>3. silence <= Timeout[watched] + Slack(watched) + timer
    BY DEF PerceptionInv, LevelFollows
  <2> QED
    BY <2>1, <2>2, <2>3
<1> QED
  BY <1>3, <1>4, <1>5 DEF PerceptionInv

(***************************************************************************)
(* Time passes: silence grows no faster than timers and scans grow old.    *)
(***************************************************************************)
LEMMA TimeStep ==
    ASSUME PerceptionInv, TimePasses, UNCHANGED watched
    PROVE  PerceptionInv'
<1>1. /\ UNCHANGED <<lc, works, watched, level, ready, unseen, given>>
      /\ lc = "active" => timer < Jitter /\ hb_age < HeartbeatEvery
      /\ since' = Older(since, TickLimit)
      /\ IF lc = "active" THEN timer' = timer + 1 /\ hb_age' = hb_age + 1
                          ELSE UNCHANGED <<timer, hb_age>>
      /\ adapter' = [arrival |-> Older(adapter.arrival, StaleWindow + 1),
                     event |-> Older(adapter.event, Tolerance + 1)]
      /\ service' = IF service = None THEN None
                    ELSE [service EXCEPT !.snapshot = Older(@, Tolerance + 1)]
      /\ silence' = IF lc # "active" \/ watched \in works THEN silence
                    ELSE Capped(silence + 1, Notice(watched) + 1)
  BY DEF TimePasses
<1>2. Typed /\ AtRest /\ Heard
  BY DEF PerceptionInv
<1>3. /\ watched \in Sensor /\ timer \in 0..Jitter /\ hb_age \in 0..HeartbeatEvery
      /\ silence \in Nat /\ since \in Int
      /\ adapter.arrival \in Int /\ adapter.event \in Int
  BY <1>2 DEF Typed
<1>4. /\ Slack(watched) \in Nat /\ Timeout[watched] \in Nat /\ NeverAge \in Nat
      /\ StaleWindow \in Nat /\ Jitter \in Nat /\ HeartbeatEvery \in Nat
      /\ TickLimit \in Nat /\ Jitter < TickLimit /\ Tolerance \in Nat
  BY <1>3, Constants, PerceptionAssumption
<1>5. \A a \in Int, cap \in Nat : Older(a, cap) \in Int
  BY DEF Older, Never, Capped
<1>6. silence' \in Nat /\ silence' <= silence + 1 /\ (lc # "active" => silence' = silence)
  <2>1. Notice(watched) \in Nat
    BY <1>3, <1>4 DEF Notice
  <2> QED
    BY <1>1, <1>3, <2>1 DEF Capped
<1>7. lc # "unconfigured" =>
          /\ service \in Service /\ service' \in Service
          /\ service'.age = service.age /\ service'.tracker = service.tracker
  <2> SUFFICES ASSUME lc # "unconfigured"
               PROVE  /\ service \in Service /\ service' \in Service
                      /\ service'.age = service.age /\ service'.tracker = service.tracker
    OBVIOUS
  <2>1. service \in Service
    BY <1>2 DEF Typed
  <2>2. service' = [service EXCEPT !.snapshot = Older(service.snapshot, Tolerance + 1)]
    BY <1>1, <2>1, ServiceIsSome
  <2>3. Older(service.snapshot, Tolerance + 1) \in Int
    <3>1. service.snapshot \in Int /\ Tolerance + 1 \in Nat
      BY <1>4, <2>1 DEF Service
    <3> QED
      BY <1>5, <3>1
  <2> QED
    BY <2>1, <2>2, <2>3 DEF Service
<1>8. lc = "unconfigured" => service' = None
  BY <1>1, <1>2 DEF Typed
<1>9. Typed'
  <2>1. since' \in Int
    BY <1>1, <1>3, <1>4, <1>5
  <2>2. adapter' \in [arrival : Int, event : Int]
    <3>1. StaleWindow + 1 \in Nat /\ Tolerance + 1 \in Nat
      BY <1>4
    <3>2. /\ Older(adapter.arrival, StaleWindow + 1) \in Int
          /\ Older(adapter.event, Tolerance + 1) \in Int
      BY <1>3, <1>5, <3>1
    <3> QED
      BY <1>1, <3>2
  <2>3. timer' \in 0..Jitter /\ hb_age' \in 0..HeartbeatEvery
    BY <1>1, <1>3, <1>4
  <2> QED
    BY <1>1, <1>2, <1>6, <1>7, <1>8, <2>1, <2>2, <2>3 DEF Typed
<1>10. AtRest'
  BY <1>1, <1>2, <1>6 DEF AtRest
<1>11. Heard'
  <2>1. watched' \in works' => silence' = 0
    BY <1>1, <1>2 DEF Heard
  <2>2. ASSUME watched = "lidar", adapter'.arrival # Never
        PROVE  silence' <= adapter'.arrival \/ adapter'.arrival > StaleWindow
    <3>1. adapter'.arrival = Older(adapter.arrival, StaleWindow + 1)
      BY <1>1
    <3>2. adapter.arrival # Never
      BY <2>2, <3>1 DEF Older
    <3>3. silence <= adapter.arrival \/ adapter.arrival > StaleWindow
      BY <1>2, <2>2, <3>2 DEF Heard
    <3>4. adapter'.arrival = Capped(adapter.arrival + 1, StaleWindow + 1)
      BY <3>1, <3>2 DEF Older
    <3> QED
      BY <1>3, <1>4, <1>6, <3>3, <3>4 DEF Capped
  <2> QED
    BY <1>1, <2>1, <2>2 DEF Heard
<1>12. Ticking'
  <2> SUFFICES ASSUME lc = "active" PROVE since' = timer' \/ silence' <= timer'
    BY <1>1 DEF Ticking
  <2>1. since = timer \/ silence <= timer
    BY DEF PerceptionInv, Ticking
  <2>2. timer' = timer + 1 /\ timer < Jitter
    BY <1>1
  <2>3. CASE since = timer
    <3>1. since' = timer + 1
      BY <1>1, <1>3, <1>4, <2>2, <2>3 DEF Older, Never, Capped
    <3> QED
      BY <2>2, <3>1
  <2>4. CASE silence <= timer
    BY <1>3, <1>6, <2>2, <2>4
  <2> QED
    BY <2>1, <2>3, <2>4
<1>13. silence' - timer' <= silence - timer /\ silence' - hb_age' <= silence - hb_age
  BY <1>1, <1>3, <1>4, <1>6
<1>14. ASSUME NEW bound \in Int, NEW t \in Int, NEW u \in Int,
              NEW old \in Int, NEW new \in Int, new - u <= old - t, old <= bound + t
       PROVE  new <= bound + u
  BY <1>14
<1>15. /\ silence \in Int /\ silence' \in Int
       /\ timer \in Int /\ timer' \in Int /\ hb_age \in Int /\ hb_age' \in Int
  BY <1>2, <1>9 DEF Typed
<1>16. AgeFollows'
  <2> SUFFICES ASSUME lc # "unconfigured"
               PROVE  \/ service.age[watched] > Timeout[watched]
                      \/ silence' <= service.age[watched] + Slack(watched) + timer'
    BY <1>1, <1>7 DEF AgeFollows
  <2>1. \/ service.age[watched] > Timeout[watched]
        \/ silence <= service.age[watched] + Slack(watched) + timer
    BY DEF PerceptionInv, AgeFollows
  <2>2. service.age[watched] \in Int
    BY <1>3, <1>7 DEF Service, Age
  <2>3. service.age[watched] + Slack(watched) \in Int
    BY <1>4, <2>2
  <2> QED
    BY <1>13, <1>14, <1>15, <2>1, <2>3
<1>17. LevelFollows' /\ ReadyFollows'
  <2>1. /\ Timeout[watched] + Slack(watched) \in Int
        /\ Timeout[watched] + Slack(watched) + Jitter \in Int
    BY <1>4
  <2>2. level = "FULL" => silence <= Timeout[watched] + Slack(watched) + timer
    BY DEF PerceptionInv, LevelFollows
  <2>3. ready => silence <= Timeout[watched] + Slack(watched) + Jitter + hb_age
    BY DEF PerceptionInv, ReadyFollows
  <2>4. level = "FULL" => silence' <= Timeout[watched] + Slack(watched) + timer'
    BY <1>13, <1>14, <1>15, <2>1, <2>2
  <2>5. ready => silence' <= Timeout[watched] + Slack(watched) + Jitter + hb_age'
    BY <1>13, <1>14, <1>15, <2>1, <2>3
  <2> QED
    BY <1>1, <2>4, <2>5 DEF LevelFollows, ReadyFollows
<1>18. TrackerSound'
  BY <1>1, <1>7 DEF PerceptionInv, TrackerSound
<1> QED
  BY <1>9, <1>10, <1>11, <1>12, <1>16, <1>17, <1>18 DEF PerceptionInv

(***************************************************************************)
(* timer_callback(): the service it leaves, whether the gate publishes or  *)
(* not.                                                                    *)
(***************************************************************************)
LEMMA CallbackService ==
    ASSUME PerceptionInv, TimerCallback
    PROVE  /\ service \in Service /\ service' \in Service
           /\ TickedIfDue \in Service /\ service'.age = TickedIfDue.age
           /\ level' = Evaluate(service'.age)
           /\ unseen' \in [Obj -> Nat]
           /\ ~Crowded => /\ Sound(service'.tracker) /\ Follows(service'.tracker, unseen')
                          /\ Known(service'.tracker, given')
                          /\ Persist(service.tracker.tracks, service'.tracker.tracks)
                          /\ Agree(service'.tracker, given)
<1> DEFINE sv == TickedIfDue
<1>1. /\ lc = "active" /\ level' = Evaluate(sv.age)
      /\ IF GateOk(sv)
         THEN \E det \in Detections(sv, level') : Publish(sv, det)
         ELSE service' = sv /\ UNCHANGED <<unseen, given>>
  BY DEF TimerCallback, TimerDue
<1>2. /\ service \in Service /\ adapter \in [arrival : Int, event : Int]
      /\ unseen \in [Obj -> Nat]
      /\ ~Crowded => /\ Sound(service.tracker) /\ Follows(service.tracker, unseen)
                     /\ Known(service.tracker, given)
  BY <1>1 DEF PerceptionInv, Typed, TrackerSound
<1>3. sv \in Service /\ sv.tracker = service.tracker
  <2>1. CASE since \in 1..(TickLimit - 1)
    <3>1. since \in Nat
      BY <2>1, Constants
    <3> QED
      BY <1>2, <2>1, <3>1, TickedFields DEF TickedIfDue
  <2>2. CASE since \notin 1..(TickLimit - 1)
    BY <1>2, <2>2 DEF TickedIfDue
  <2> QED
    BY <2>1, <2>2
<1> HIDE DEF sv
<1>4. CASE GateOk(sv)
  <2>1. PICK det \in Detections(sv, level') : Publish(sv, det)
    BY <1>1, <1>4
  <2>2. Frame(det)
    BY DetectionsFrame
  <2>3. PICK dist \in Distances(sv.tracker, det) :
            /\ OnItsObject(det, dist) /\ (Crowded \/ ToldApart(det, dist))
            /\ \E m \in Associations(sv.tracker, det, dist) :
                  service' = [sv EXCEPT !.tracker = Update(sv.tracker, det, m)]
            /\ unseen' = Unseen(unseen, det)
            /\ given' = given \cup {[id |-> t.id, obj |-> t.obj] : t \in service'.tracker.tracks}
    BY <2>1 DEF Publish, Unseen
  <2>4. PICK m \in Associations(sv.tracker, det, dist) :
            service' = [sv EXCEPT !.tracker = Update(sv.tracker, det, m)]
    BY <2>3
  <2> DEFINE up == Update(sv.tracker, det, m)
  <2>5. up \in TrackerState
    BY <1>3, <2>2, UpdateTyped DEF Service
  <2>6. unseen' \in [Obj -> Nat]
    BY <1>2, <2>3, UnseenTyped
  <2>7. ASSUME ~Crowded
        PROVE  /\ Sound(up) /\ Persist(service.tracker.tracks, up.tracks)
               /\ Follows(up, unseen')
               /\ Agree(up, given) /\ Known(up, given \cup Named(up))
    <3>1. up = Ideal(service.tracker, det)
      BY <1>2, <1>3, <2>2, <2>3, <2>7, UpdateIsIdeal
    <3> HIDE DEF up
    <3> QED
      BY <1>2, <2>2, <2>3, <2>7, <3>1, UpdateSound, UpdateFollows, UpdateKnown
  <2> HIDE DEF up
  <2>8. service' \in Service /\ service'.age = sv.age /\ service'.tracker = up
    BY <1>3, <2>4, <2>5 DEF Service, up
  <2>9. given' = given \cup Named(up)
    BY <2>3, <2>8 DEF Named
  <2> QED
    BY <1>1, <1>2, <1>3, <2>6, <2>7, <2>8, <2>9 DEF sv
<1>5. CASE ~GateOk(sv)
  <2>1. service' = sv /\ unseen' = unseen /\ given' = given
    BY <1>1, <1>5
  <2>2. ASSUME ~Crowded
        PROVE  /\ Persist(service.tracker.tracks, service.tracker.tracks)
               /\ Agree(service.tracker, given)
    BY <1>2, <2>2 DEF Sound, Persist, Known
  <2> QED
    BY <1>1, <1>2, <1>3, <2>1, <2>2 DEF sv
<1> QED
  BY <1>4, <1>5

(***************************************************************************)
(* The age of the watched sensor catches up with its silence: a tick adds  *)
(* what has passed since the last one, and only the first call after       *)
(* on_activate() may skip it, when the silence is no longer than Jitter.   *)
(***************************************************************************)
LEMMA AgeCatchesUp ==
    ASSUME PerceptionInv, TimerDue, TickedIfDue \in Service
    PROVE  \/ TickedIfDue.age[watched] > Timeout[watched]
           \/ silence <= TickedIfDue.age[watched] + Slack(watched)
<1> DEFINE a == service.age[watched]
           b == TickedIfDue.age[watched]
<1> SUFFICES b > Timeout[watched] \/ silence <= b + Slack(watched)
  OBVIOUS
<1>1. Typed /\ Heard
  BY DEF PerceptionInv
<1>2. /\ lc = "active" /\ timer >= 1 /\ timer \in 0..Jitter /\ silence \in Nat
      /\ watched \in Sensor /\ since \in Int /\ service \in Service
      /\ adapter \in [arrival : Int, event : Int]
  BY <1>1 DEF TimerDue, Typed
<1>3. /\ Slack(watched) = NeverAge + Window(watched) + Jitter
      /\ Timeout[watched] \in Nat /\ NeverAge \in Nat /\ Window(watched) \in Nat
      /\ Jitter \in Nat /\ TickLimit \in Nat /\ Jitter < TickLimit
  BY <1>2, Constants
<1>4. /\ a \in Int /\ a >= -NeverAge /\ b \in Int /\ b >= -NeverAge
  BY <1>2 DEF Service, Age
<1>5. since = timer \/ silence <= timer
  BY <1>2 DEF PerceptionInv, Ticking
<1>6. a > Timeout[watched] \/ silence <= a + Slack(watched) + timer
  BY <1>2 DEF PerceptionInv, AgeFollows
<1>7. Reads(watched) => silence <= Window(watched)
  <2>1. CASE watched = "lidar"
    <3> SUFFICES ASSUME LidarReads PROVE silence <= StaleWindow
      BY <2>1 DEF Reads, Window
    <3>1. adapter.arrival # Never /\ adapter.arrival <= StaleWindow
      BY DEF LidarReads
    <3>2. silence <= adapter.arrival \/ adapter.arrival > StaleWindow
      BY <1>1, <2>1, <3>1 DEF Heard
    <3>3. adapter.arrival \in Int /\ StaleWindow \in Int
      BY <1>2, Constants
    <3> QED
      BY <1>2, <3>1, <3>2, <3>3
  <2>2. CASE watched # "lidar"
    BY <1>1, <1>3, <2>2 DEF Reads, Heard
  <2> QED
    BY <2>1, <2>2
<1>8. CASE since \in 1..(TickLimit - 1)
  <2>1. since \in Nat
    BY <1>3, <1>8
  <2>2. TickedIfDue = Ticked(service, since)
    BY <1>8 DEF TickedIfDue
  <2>3. b = IF Reads(watched) THEN 0 ELSE Capped(a + since, AgeCap(watched))
    BY <1>2, <2>1, <2>2, TickedFields
  <2> HIDE DEF a, b
  <2>4. CASE Reads(watched)
    BY <1>2, <1>3, <1>7, <2>3, <2>4
  <2>5. CASE ~Reads(watched)
    <3>1. b = a + since \/ b = Timeout[watched] + 1
      BY <2>3, <2>5 DEF Capped, AgeCap
    <3>2. CASE b = a + since /\ since = timer
      BY <1>2, <1>3, <1>4, <1>6, <3>2
    <3>3. CASE silence <= timer
      BY <1>2, <1>3, <1>4, <3>3
    <3>4. CASE b = Timeout[watched] + 1
      BY <1>3, <3>4
    <3> QED
      BY <1>5, <3>1, <3>2, <3>3, <3>4
  <2> QED
    BY <2>4, <2>5
<1>9. CASE since \notin 1..(TickLimit - 1)
  <2>1. silence <= timer
    BY <1>2, <1>3, <1>5, <1>9
  <2> HIDE DEF a, b
  <2> QED
    BY <1>2, <1>3, <1>4, <2>1
<1> QED
  BY <1>8, <1>9

LEMMA TimerStep ==
    ASSUME PerceptionInv, TimerCallback, UNCHANGED watched
    PROVE  PerceptionInv'
<1>1. /\ TimerDue /\ lc = "active" /\ since' = 0 /\ timer' = 0
      /\ UNCHANGED <<lc, hb_age, adapter, works, ready, silence, watched>>
  BY DEF TimerCallback, TimerDue
<1>2. Typed
  BY DEF PerceptionInv
<1>3. /\ service' \in Service /\ TickedIfDue \in Service
      /\ service'.age = TickedIfDue.age /\ level' = Evaluate(service'.age)
      /\ unseen' \in [Obj -> Nat]
      /\ ~Crowded => /\ Sound(service'.tracker) /\ Follows(service'.tracker, unseen')
                     /\ Known(service'.tracker, given')
  BY CallbackService
<1>4. /\ watched \in Sensor /\ silence \in Nat
      /\ Timeout[watched] \in Nat /\ Slack(watched) \in Nat /\ Jitter \in Nat
  BY <1>2, Constants DEF Typed
<1>5. \/ service'.age[watched] > Timeout[watched]
      \/ silence <= service'.age[watched] + Slack(watched)
  BY <1>1, <1>3, AgeCatchesUp
<1>6. service'.age[watched] \in Int
  BY <1>3, <1>4 DEF Service, Age
<1>7. Typed'
  BY <1>1, <1>2, <1>3, <1>4 DEF Typed
<1>8. AtRest' /\ Heard' /\ Ticking'
  BY <1>1 DEF PerceptionInv, AtRest, Heard, Ticking
<1>9. AgeFollows'
  <2>1. \/ service'.age[watched] > Timeout[watched]
        \/ silence <= service'.age[watched] + Slack(watched) + 0
    BY <1>4, <1>5, <1>6
  <2> QED
    BY <1>1, <2>1 DEF AgeFollows
<1>10. LevelFollows'
  <2> SUFFICES ASSUME level' = "FULL"
               PROVE  silence <= Timeout[watched] + Slack(watched) + 0
    BY <1>1 DEF LevelFollows
  <2>1. ~(service'.age[watched] > Timeout[watched])
    BY <1>3, <1>4, FullMeansFresh
  <2> QED
    BY <1>4, <1>5, <1>6, <2>1
<1>11. ReadyFollows'
  BY <1>1 DEF PerceptionInv, ReadyFollows
<1>12. TrackerSound'
  BY <1>1, <1>3 DEF TrackerSound
<1> QED
  BY <1>7, <1>8, <1>9, <1>10, <1>11, <1>12 DEF PerceptionInv

LEMMA PerceptionStep == PerceptionInv /\ [Next]_vars => PerceptionInv'
<1> SUFFICES ASSUME PerceptionInv, [Next]_vars PROVE PerceptionInv'
  OBVIOUS
<1>1. ASSUME UNCHANGED <<fusion, adapter, works, ready, watched, silence, unseen, given>>
      PROVE  PerceptionInv'
  <2>1. UNCHANGED <<lc, service, since, timer, level, hb_age, adapter, works, ready,
                    watched, silence, unseen, given>>
    BY <1>1 DEF fusion
  <2>2. Typed' /\ AtRest' /\ Heard'
    BY <2>1 DEF PerceptionInv, Typed, AtRest, Heard
  <2>3. Ticking' /\ AgeFollows' /\ LevelFollows' /\ ReadyFollows' /\ TrackerSound'
    BY <2>1 DEF PerceptionInv, Ticking, AgeFollows, LevelFollows, ReadyFollows, TrackerSound
  <2> QED
    BY <2>2, <2>3 DEF PerceptionInv
<1>2. CASE UNCHANGED vars
  BY <1>1, <1>2 DEF vars
<1>3. CASE Next
  <2>1. UNCHANGED watched
    BY <1>3 DEF Next
  <2>2. CASE ConfigureFails
    BY <1>1, <2>1, <2>2 DEF ConfigureFails
  <2> QED
    BY <1>3, <2>1, <2>2, ConfigureStep, LifecycleStep, CleanupStep, FeedScanStep,
       TimerStep, HeartbeatStep, ToggleStep, TimeStep DEF Next, Step
<1> QED
  BY <1>2, <1>3

LEMMA PerceptionAlways == Spec => []PerceptionInv
  BY PerceptionInit, PerceptionStep, PTL DEF Spec
-----------------------------------------------------------------------------
(***************************************************************************)
(* The loss of any sensor is told to the decision node in time, for every  *)
(* setting of the timeouts, of the adapter's window, of the stamp gate and *)
(* of the heartbeat, however late timers fire and scans arrive, as long as *)
(* a late timer does not look like a stall (Jitter < TickLimit).           *)
(***************************************************************************)
THEOREM PerceptionLossIsTold == Spec => []LossIsTold
<1>1. ASSUME PerceptionInv PROVE LossIsTold
  <2> SUFFICES ASSUME lc = "active", ready PROVE silence <= Notice(watched)
    BY DEF LossIsTold
  <2>1. /\ watched \in Sensor /\ silence \in Nat /\ hb_age \in 0..HeartbeatEvery
    BY <1>1 DEF PerceptionInv, Typed
  <2>2. /\ Timeout[watched] \in Nat /\ NeverAge \in Nat /\ Window(watched) \in Nat
        /\ Jitter \in Nat /\ HeartbeatEvery \in Nat
        /\ Slack(watched) = NeverAge + Window(watched) + Jitter
    BY <2>1, Constants
  <2>3. silence <= Timeout[watched] + Slack(watched) + Jitter + hb_age
    BY <1>1 DEF PerceptionInv, ReadyFollows
  <2>4. Notice(watched) = NeverAge + Timeout[watched] + Window(watched)
                            + 2 * Jitter + HeartbeatEvery
    BY DEF Notice, Window
  <2> QED
    BY <2>1, <2>2, <2>3, <2>4
<1> QED
  BY <1>1, PerceptionAlways, PTL

(***************************************************************************)
(* The objects published are those detected in the last frames, one track  *)
(* for each, for any number of objects; none is forgotten as long as       *)
(* max_tracks is not below their number.  Objects are told apart.          *)
(***************************************************************************)
THEOREM PerceptionTracksFollow ==
    ASSUME ~Crowded
    PROVE  Spec => []TracksFollowDetections
<1>1. ASSUME PerceptionInv PROVE TracksFollowDetections
  <2> SUFFICES ASSUME service # None
               PROVE  /\ \A s, t \in service.tracker.tracks : s.obj = t.obj => s = t
                      /\ \A o \in Obj :
                            /\ o \in Tracked(service.tracker) => unseen[o] <= MaxMissedFrames
                            /\ unseen[o] <= MaxMissedFrames /\ Cardinality(Obj) <= MaxTracks
                                 => o \in Tracked(service.tracker)
    BY DEF TracksFollowDetections
  <2>1. Sound(service.tracker) /\ Follows(service.tracker, unseen)
    BY <1>1 DEF PerceptionInv, Typed, TrackerSound
  <2> QED
    BY <2>1 DEF Sound, Follows, Tracked
<1> QED
  BY <1>1, PerceptionAlways, PTL

(***************************************************************************)
(* An object keeps its identity while it is tracked, and no identity goes  *)
(* to a second object through any number of tracks pruned and spawned,     *)
(* until the tracker is made anew, as long as objects are told apart.      *)
(***************************************************************************)
THEOREM PerceptionIdsPersist ==
    ASSUME ~Crowded
    PROVE  Spec => IdsPersist
<1> DEFINE Keeps ==
        service # None /\ service' # None =>
            \A new \in service'.tracker.tracks :
                /\ \A old \in service.tracker.tracks : old.obj = new.obj => old.id = new.id
                /\ \A g \in given : g.id = new.id => g.obj = new.obj
<1>1. ASSUME PerceptionInv, [Next]_vars
      PROVE  [Keeps]_vars
  <2> SUFFICES ASSUME Next, service # None, service' # None
               PROVE  /\ Persist(service.tracker.tracks, service'.tracker.tracks)
                      /\ Agree(service'.tracker, given)
    BY <1>1 DEF Persist, Agree
  <2>1. /\ lc # "unconfigured" /\ service \in Service
        /\ Sound(service.tracker) /\ Known(service.tracker, given)
    BY <1>1 DEF PerceptionInv, Typed, TrackerSound
  <2>2. CASE TimerCallback
    BY <1>1, <2>2, CallbackService
  <2>3. CASE service'.tracker = service.tracker
    BY <2>1, <2>3 DEF Sound, Persist, Known
  <2>4. CASE TimePasses
    <3>1. service' = [service EXCEPT !.snapshot = Older(service.snapshot, Tolerance + 1)]
      BY <2>1, <2>4, ServiceIsSome DEF TimePasses
    <3>2. service'.tracker = service.tracker
      BY <2>1, <3>1 DEF Service
    <3> QED
      BY <2>3, <3>2
  <2>5. ASSUME ~TimerCallback, ~TimePasses PROVE service' = service
    BY <2>1, <2>5 DEF Next, Step, OnConfigure, ConfigureFails, OnActivate, OnDeactivate,
       OnCleanup, FeedScan, Heartbeat, Toggle, fusion
  <2> QED
    BY <2>2, <2>3, <2>4, <2>5
<1> QED
  BY <1>1, PerceptionAlways, PTL DEF Spec, IdsPersist
-----------------------------------------------------------------------------
(***************************************************************************)
(* The depth detector, for every scanline.                                 *)
(***************************************************************************)
\* Induction, as a set that is closed under the successor.
LEMMA Induct ==
    ASSUME NEW S, 0 \in S, \A n \in Nat : n \in S => n + 1 \in S
    PROVE  Nat \subseteq S
<1> SUFFICES ASSUME Nat \ S # {} PROVE FALSE
  OBVIOUS
<1>1. PICK m \in Nat \ S : \A k \in Nat \ S : m <= k
  BY LeastNat
<1>2. m \in Nat /\ m # 0 /\ m - 1 \in Nat /\ m = (m - 1) + 1
  BY <1>1
<1>3. m - 1 \in S
  BY <1>1, <1>2
<1> QED
  BY <1>1, <1>2, <1>3

DepthLimits ==
    /\ MinDepth \in Nat /\ MaxDepth \in Nat /\ DepthBreak \in Nat
    /\ MinRun \in Nat \ {0}

\* Rays i and i + 1 see one surface.
Joined(depth, i) ==
    /\ Valid(depth[i]) /\ Valid(depth[i + 1])
    /\ AbsDiff(depth[i], depth[i + 1]) <= DepthBreak

LEMMA SmoothAt ==
    ASSUME NEW depth, NEW a \in Nat
    PROVE  Smooth(depth, a, a) <=> Valid(depth[a])
<1>1. \A i \in a..a : i = a
  OBVIOUS
<1>2. a \in a..a
  OBVIOUS
<1>3. a..(a - 1) = {}
  OBVIOUS
<1> QED
  BY <1>1, <1>2, <1>3, Zenon DEF Smooth

LEMMA SmoothJoins ==
    ASSUME NEW depth, NEW a \in Nat, NEW b \in Nat, a <= b
    PROVE  Smooth(depth, a, b) <=> /\ Valid(depth[a])
                                   /\ \A i \in a..(b - 1) : Joined(depth, i)
<1>1. \A i \in a..(b - 1) : i \in a..b /\ i + 1 \in a..b
  OBVIOUS
<1>2. \A i \in a..b : i = a \/ (i - 1 \in a..(b - 1) /\ (i - 1) + 1 = i)
  OBVIOUS
<1>3. a \in a..b
  OBVIOUS
<1>4. ASSUME Smooth(depth, a, b)
      PROVE  Valid(depth[a]) /\ \A i \in a..(b - 1) : Joined(depth, i)
  BY <1>1, <1>3, <1>4, Zenon DEF Smooth, Joined
<1>5. ASSUME Valid(depth[a]), \A i \in a..(b - 1) : Joined(depth, i)
      PROVE  Smooth(depth, a, b)
  <2>1. ASSUME NEW i \in a..b PROVE Valid(depth[i])
    <3>1. CASE i = a
      BY <1>5, <3>1
    <3>2. CASE i - 1 \in a..(b - 1) /\ (i - 1) + 1 = i
      <4>1. Valid(depth[(i - 1) + 1])
        BY <1>5, <3>2, Zenon DEF Joined
      <4> QED
        BY <3>2, <4>1, Zenon
    <3> QED
      BY <1>2, <3>1, <3>2
  <2>2. \A i \in a..(b - 1) : AbsDiff(depth[i], depth[i + 1]) <= DepthBreak
    BY <1>5, Zenon DEF Joined
  <2> QED
    BY <2>1, <2>2, Zenon DEF Smooth
<1> QED
  BY <1>4, <1>5, Zenon

\* A surface gains a ray at either end exactly if the ray is joined to it.
LEMMA SmoothGrows ==
    ASSUME NEW depth, NEW a \in Nat, NEW b \in Nat, a <= b
    PROVE  /\ Smooth(depth, a, b + 1) <=> Smooth(depth, a, b) /\ Joined(depth, b)
           /\ a > 0 => (Smooth(depth, a - 1, b) <=> Joined(depth, a - 1) /\ Smooth(depth, a, b))
<1>1. a <= b + 1 /\ b + 1 \in Nat /\ (b + 1) - 1 = b
  OBVIOUS
<1>2. Smooth(depth, a, b) <=> /\ Valid(depth[a])
                              /\ \A i \in a..(b - 1) : Joined(depth, i)
  BY SmoothJoins
<1>3. Smooth(depth, a, b + 1) <=> /\ Valid(depth[a])
                                  /\ \A i \in a..b : Joined(depth, i)
  BY <1>1, SmoothJoins
<1>4. \A i : i \in a..b <=> i \in a..(b - 1) \/ i = b
  OBVIOUS
<1>5. Smooth(depth, a, b + 1) <=> Smooth(depth, a, b) /\ Joined(depth, b)
  BY <1>2, <1>3, <1>4, Zenon
<1>6. ASSUME a > 0
      PROVE  Smooth(depth, a - 1, b) <=> Joined(depth, a - 1) /\ Smooth(depth, a, b)
  <2>1. a - 1 \in Nat /\ a - 1 <= b /\ (a - 1) + 1 = a
    BY <1>6
  <2>2. Smooth(depth, a - 1, b) <=> /\ Valid(depth[a - 1])
                                    /\ \A i \in (a - 1)..(b - 1) : Joined(depth, i)
    BY <2>1, SmoothJoins
  <2>3. \A i : i \in (a - 1)..(b - 1) <=> i \in a..(b - 1) \/ i = a - 1
    BY <2>1
  <2>4. Joined(depth, a - 1) => Valid(depth[a - 1]) /\ Valid(depth[a])
    BY <2>1 DEF Joined
  <2> QED
    BY <1>2, <2>2, <2>3, <2>4, Zenon
<1> QED
  BY <1>5, <1>6, Zenon

\* The surfaces that end before ray n, and those that reach it.
Starts(depth, run) ==
    /\ run[1] <= run[2] /\ Smooth(depth, run[1], run[2])
    /\ run[1] = 1 \/ ~Joined(depth, run[1] - 1)
    /\ run[2] - run[1] + 1 >= MinRun

Closed(depth, n) ==
    {run \in (DOMAIN depth) \X (DOMAIN depth) :
        Starts(depth, run) /\ run[2] < n /\ ~Joined(depth, run[2])}

Ended(depth, n) ==
    {run \in (DOMAIN depth) \X (DOMAIN depth) : Starts(depth, run) /\ run[2] = n}

Rays(runs) == {run[1]..run[2] : run \in runs}

LEMMA SurfacesAre ==
    ASSUME NEW depth \in Seq(Nat), DepthLimits
    PROVE  Surfaces(depth) = Closed(depth, Len(depth)) \cup Ended(depth, Len(depth))
<1>0. \A x, y \in Nat : (x <= y => x = y \/ x < y) /\ (x = y => ~(x < y))
  OBVIOUS
<1>1. Len(depth) \in Nat /\ DOMAIN depth = 1..Len(depth)
  OBVIOUS
<1> DEFINE L == Len(depth)
<1>2. ASSUME NEW run \in (DOMAIN depth) \X (DOMAIN depth)
      PROVE  run \in Surfaces(depth) <=> run \in Closed(depth, L) \cup Ended(depth, L)
  <2>1. PICK a \in 1..L, b \in 1..L : run = <<a, b>>
    BY <1>1, <1>2
  <2>2. run[1] = a /\ run[2] = b /\ a \in Nat /\ b \in Nat /\ a > 0 /\ b <= L
    BY <1>1, <2>1
  <2>3. CASE ~(a <= b)
    BY <2>2, <2>3 DEF Surfaces, Closed, Ended, Starts
  <2>4. CASE a <= b
    <3>1. /\ Smooth(depth, a, b + 1) <=> Smooth(depth, a, b) /\ Joined(depth, b)
          /\ Smooth(depth, a - 1, b) <=> Joined(depth, a - 1) /\ Smooth(depth, a, b)
      BY <2>2, <2>4, SmoothGrows
    <3>2. b = L \/ b < L
      BY <1>0, <1>1, <2>2, Zenon
    <3>3. b = L => ~(b < L)
      BY <1>0, <1>1, <2>2, Zenon
    <3>4. run \in Surfaces(depth) <=>
            /\ Smooth(depth, a, b)
            /\ a = 1 \/ ~Joined(depth, a - 1)
            /\ b = L \/ ~Joined(depth, b)
            /\ b - a + 1 >= MinRun
      BY <2>2, <2>4, <3>1, Zenon DEF Surfaces
    <3>5. Starts(depth, run) <=>
            /\ Smooth(depth, a, b)
            /\ a = 1 \/ ~Joined(depth, a - 1)
            /\ b - a + 1 >= MinRun
      BY <2>2, <2>4, Zenon DEF Starts
    <3>6. /\ run \in Closed(depth, L) <=> Starts(depth, run) /\ b < L /\ ~Joined(depth, b)
          /\ run \in Ended(depth, L) <=> Starts(depth, run) /\ b = L
      BY <2>2, Zenon DEF Closed, Ended
    <3> QED
      BY <3>2, <3>3, <3>4, <3>5, <3>6, Zenon
  <2> QED
    BY <2>3, <2>4
<1>3. /\ Surfaces(depth) \subseteq (DOMAIN depth) \X (DOMAIN depth)
      /\ Closed(depth, L) \subseteq (DOMAIN depth) \X (DOMAIN depth)
      /\ Ended(depth, L) \subseteq (DOMAIN depth) \X (DOMAIN depth)
  BY Zenon DEF Surfaces, Closed, Ended
<1> QED
  BY <1>2, <1>3, Zenon

\* One ray further.
LEMMA ClosedGrows ==
    ASSUME NEW depth \in Seq(Nat), NEW n \in 0..Len(depth)
    PROVE  Closed(depth, n + 1) =
             IF Joined(depth, n) THEN Closed(depth, n)
             ELSE Closed(depth, n) \cup Ended(depth, n)
<1>1. n \in Nat /\ DOMAIN depth = 1..Len(depth) /\ Len(depth) \in Nat
  OBVIOUS
<1>2. ASSUME NEW run \in (DOMAIN depth) \X (DOMAIN depth)
      PROVE  /\ run \in Closed(depth, n + 1) <=>
                  run \in Closed(depth, n) \/ (run \in Ended(depth, n) /\ ~Joined(depth, n))
  <2>1. run[2] \in Nat
    BY <1>1, <1>2
  <2>2. run[2] < n + 1 <=> run[2] < n \/ run[2] = n
    BY <1>1, <2>1
  <2> QED
    BY <2>2, Zenon DEF Closed, Ended
<1>3. /\ Closed(depth, n + 1) \subseteq (DOMAIN depth) \X (DOMAIN depth)
      /\ Closed(depth, n) \subseteq (DOMAIN depth) \X (DOMAIN depth)
      /\ Ended(depth, n) \subseteq (DOMAIN depth) \X (DOMAIN depth)
  BY Zenon DEF Closed, Ended
<1> QED
  BY <1>2, <1>3, Zenon

\* What the state of the loop is after ray n.
Told(depth, n, clusters) ==
    /\ clusters \in Seq(SUBSET Nat)
    /\ ToSet(clusters) = Rays(Closed(depth, n))
    /\ LeftToRight(clusters)

OpenFrom(depth, n, state, a) ==
    /\ a \in 1..n /\ state.run = a..n /\ state.last = depth[n]
    /\ Smooth(depth, a, n) /\ (a = 1 \/ ~Joined(depth, a - 1))

Open(depth, n, state) ==
    \/ state.run = {} /\ (n = 0 \/ ~Valid(depth[n]))
    \/ \E a : OpenFrom(depth, n, state, a)

\* Of the surfaces that reach ray n one at most starts.
LEMMA OneStart ==
    ASSUME NEW depth \in Seq(Nat), NEW n \in 1..Len(depth), NEW a \in 1..n, NEW b \in 1..n,
           Smooth(depth, a, n), a = 1 \/ ~Joined(depth, a - 1),
           Smooth(depth, b, n), b = 1 \/ ~Joined(depth, b - 1)
    PROVE  a = b
<1>1. n \in Nat /\ a \in Nat /\ b \in Nat /\ a <= n /\ b <= n /\ 1 <= a /\ 1 <= b
  OBVIOUS
<1>2. \A i \in a..(n - 1) : Joined(depth, i)
  BY <1>1, SmoothJoins
<1>3. \A i \in b..(n - 1) : Joined(depth, i)
  BY <1>1, SmoothJoins
<1>4. a < b => b # 1 /\ b - 1 \in a..(n - 1)
  BY <1>1
<1>5. b < a => a # 1 /\ a - 1 \in b..(n - 1)
  BY <1>1
<1>6. ~(a < b) /\ ~(b < a)
  BY <1>2, <1>3, <1>4, <1>5, Zenon
<1> QED
  BY <1>1, <1>6

LEMMA EndedIs ==
    ASSUME NEW depth \in Seq(Nat), DepthLimits, NEW n \in 1..Len(depth), NEW a \in 1..n,
           Smooth(depth, a, n), a = 1 \/ ~Joined(depth, a - 1)
    PROVE  Ended(depth, n) = IF n - a + 1 >= MinRun THEN {<<a, n>>} ELSE {}
<1>1. /\ n \in Nat /\ a \in Nat /\ a <= n /\ 1 <= a /\ DOMAIN depth = 1..Len(depth)
      /\ Len(depth) \in Nat
  OBVIOUS
<1>2. ASSUME NEW run \in Ended(depth, n) PROVE run = <<a, n>> /\ n - a + 1 >= MinRun
  <2>1. run \in (DOMAIN depth) \X (DOMAIN depth) /\ Starts(depth, run) /\ run[2] = n
    BY Zenon DEF Ended
  <2>2. run = <<run[1], run[2]>> /\ run[1] \in 1..Len(depth)
    BY <1>1, <2>1
  <2>3. /\ run[1] <= n /\ Smooth(depth, run[1], n)
        /\ run[1] = 1 \/ ~Joined(depth, run[1] - 1)
        /\ n - run[1] + 1 >= MinRun
    BY <2>1 DEF Starts
  <2>4. run[1] \in 1..n
    BY <1>1, <2>2, <2>3
  <2>5. run[1] = a
    BY <2>3, <2>4, OneStart
  <2> QED
    BY <2>1, <2>2, <2>3, <2>5
<1>3. ASSUME n - a + 1 >= MinRun PROVE <<a, n>> \in Ended(depth, n)
  <2>1. a \in DOMAIN depth /\ n \in DOMAIN depth
    BY <1>1
  <2>2. <<a, n>>[1] = a /\ <<a, n>>[2] = n
    OBVIOUS
  <2>3. Starts(depth, <<a, n>>)
    BY <1>1, <1>3, <2>2 DEF Starts
  <2> QED
    BY <2>1, <2>2, <2>3 DEF Ended
<1> QED
  BY <1>2, <1>3, Zenon

LEMMA EndedNone ==
    ASSUME NEW depth \in Seq(Nat), NEW n \in 0..Len(depth), n = 0 \/ ~Valid(depth[n])
    PROVE  Ended(depth, n) = {}
<1> SUFFICES ASSUME NEW run \in Ended(depth, n) PROVE FALSE
  BY Zenon
<1>1. run \in (DOMAIN depth) \X (DOMAIN depth) /\ Starts(depth, run) /\ run[2] = n
  BY Zenon DEF Ended
<1>2. run[1] \in Nat /\ n \in Nat /\ n # 0
  BY <1>1
<1>3. run[1] <= n /\ Smooth(depth, run[1], n)
  BY <1>1 DEF Starts
<1>4. n \in run[1]..n
  BY <1>2, <1>3
<1>5. Valid(depth[n])
  BY <1>3, <1>4, Zenon DEF Smooth
<1> QED
  BY <1>2, <1>5

\* A surface that has ended lies left of the one that is open.
LEMMA ClosedBefore ==
    ASSUME NEW depth \in Seq(Nat), NEW n \in 1..Len(depth), NEW a \in 1..n,
           Smooth(depth, a, n), NEW run \in Closed(depth, n)
    PROVE  run[2] \in Nat /\ run[2] < a
<1>1. run \in (DOMAIN depth) \X (DOMAIN depth) /\ run[2] < n /\ ~Joined(depth, run[2])
  BY Zenon DEF Closed
<1>2. run[2] \in Nat /\ n \in Nat /\ a \in Nat /\ a <= n
  BY <1>1
<1>3. \A i \in a..(n - 1) : Joined(depth, i)
  BY <1>2, SmoothJoins
<1>4. run[2] \notin a..(n - 1)
  BY <1>1, <1>3, Zenon
<1> QED
  BY <1>1, <1>2, <1>4

\* An interval is as large as it is long.
LEMMA IntervalSize ==
    ASSUME NEW a \in Nat, NEW b \in Nat, a <= b
    PROVE  Cardinality(a..b) = b - a + 1
<1>1. \A x, y \in Int : Cardinality(x..y) = IF x > y THEN 0 ELSE y - x + 1
  BY FS_Interval
<1>2. a \in Int /\ b \in Int /\ ~(a > b)
  OBVIOUS
<1> QED
  BY <1>1, <1>2

LEMMA AppendedRuns ==
    ASSUME NEW c \in Seq(SUBSET Nat), NEW run \in SUBSET Nat
    PROVE  /\ Append(c, run) \in Seq(SUBSET Nat)
           /\ ToSet(Append(c, run)) = ToSet(c) \cup {run}
           /\ (LeftToRight(c) /\ \A old \in ToSet(c) : \A p \in old, q \in run : p < q)
                => LeftToRight(Append(c, run))
<1> DEFINE d == Append(c, run)
           L == Len(c)
<1>1. /\ L \in Nat /\ d \in Seq(SUBSET Nat) /\ Len(d) = L + 1
      /\ DOMAIN c = 1..L /\ DOMAIN d = 1..(L + 1)
      /\ d[L + 1] = run /\ \A i \in 1..L : d[i] = c[i]
  OBVIOUS
<1>2. \A i \in 1..(L + 1) : i \in 1..L \/ i = L + 1
  BY <1>1
<1>3. L + 1 \in 1..(L + 1) /\ \A i \in 1..L : i \in 1..(L + 1)
  BY <1>1
<1> HIDE DEF d, L
<1>4. \A x : x \in ToSet(d) <=> x \in ToSet(c) \cup {run}
  BY <1>1, <1>2, <1>3 DEF ToSet
<1>5. ASSUME LeftToRight(c), \A old \in ToSet(c) : \A p \in old, q \in run : p < q
      PROVE  LeftToRight(d)
  <2> SUFFICES ASSUME NEW i \in 1..(L + 1), NEW j \in 1..(L + 1), i < j
               PROVE  \A p \in d[i], q \in d[j] : p < q
    BY <1>1, Zenon DEF LeftToRight
  <2>1. i \in 1..L
    BY <1>1
  <2>2. CASE j \in 1..L
    BY <1>1, <1>5, <2>1, <2>2, Zenon DEF LeftToRight
  <2>3. CASE j = L + 1
    <3>1. d[i] \in ToSet(c)
      BY <1>1, <2>1 DEF ToSet
    <3> QED
      BY <1>1, <1>5, <2>3, <3>1, Zenon
  <2> QED
    BY <1>2, <2>2, <2>3
<1> QED
  BY <1>1, <1>4, <1>5, Zenon DEF d

\* flush() adds the surface that reaches the ray it is called after.
LEMMA FlushTells ==
    ASSUME NEW depth \in Seq(Nat), DepthLimits, NEW n \in 0..Len(depth), NEW state,
           Told(depth, n, state.clusters), Open(depth, n, state)
    PROVE  /\ Flush(state).clusters \in Seq(SUBSET Nat)
           /\ ToSet(Flush(state).clusters) = Rays(Closed(depth, n) \cup Ended(depth, n))
           /\ LeftToRight(Flush(state).clusters)
<1> DEFINE c == state.clusters
<1>1. Flush(state).clusters = IF Cardinality(state.run) >= MinRun
                              THEN Append(c, state.run) ELSE c
  BY DEF Flush
<1>2. /\ c \in Seq(SUBSET Nat) /\ ToSet(c) = Rays(Closed(depth, n)) /\ LeftToRight(c)
  BY DEF Told
<1> HIDE DEF c
<1>3. MinRun \in Nat /\ MinRun # 0
  BY DEF DepthLimits
<1>4. CASE state.run = {} /\ (n = 0 \/ ~Valid(depth[n]))
  <2>1. Cardinality(state.run) = 0
    BY <1>4, FS_EmptySet
  <2>2. Flush(state).clusters = c
    BY <1>1, <1>3, <2>1
  <2>3. Closed(depth, n) \cup Ended(depth, n) = Closed(depth, n)
    BY <1>4, EndedNone
  <2> QED
    BY <1>2, <2>2, <2>3
<1>5. ASSUME NEW a, OpenFrom(depth, n, state, a)
      PROVE  /\ Flush(state).clusters \in Seq(SUBSET Nat)
             /\ ToSet(Flush(state).clusters) = Rays(Closed(depth, n) \cup Ended(depth, n))
             /\ LeftToRight(Flush(state).clusters)
  <2>1. /\ a \in 1..n /\ state.run = a..n
        /\ Smooth(depth, a, n) /\ (a = 1 \/ ~Joined(depth, a - 1))
    BY <1>5 DEF OpenFrom
  <2>2. n \in 1..Len(depth) /\ a \in Nat /\ n \in Nat /\ a <= n
    BY <2>1
  <2>3. Cardinality(state.run) = n - a + 1
    BY <2>1, <2>2, IntervalSize
  <2>4. Ended(depth, n) = IF n - a + 1 >= MinRun THEN {<<a, n>>} ELSE {}
    BY <2>1, <2>2, EndedIs
  <2>5. CASE n - a + 1 >= MinRun
    <3>1. Flush(state).clusters = Append(c, state.run)
      BY <1>1, <2>3, <2>5
    <3>2. Ended(depth, n) = {<<a, n>>}
      BY <2>4, <2>5
    <3>3. <<a, n>>[1]..<<a, n>>[2] = state.run
      BY <2>1
    <3>4. Rays(Closed(depth, n) \cup Ended(depth, n)) = Rays(Closed(depth, n)) \cup {state.run}
      BY <3>2, <3>3 DEF Rays
    <3>5. state.run \in SUBSET Nat
      BY <2>1, <2>2
    <3>6. ASSUME NEW old \in ToSet(c), NEW p \in old, NEW q \in state.run PROVE p < q
      <4>1. old \in Rays(Closed(depth, n))
        BY <1>2
      <4>2. PICK run \in Closed(depth, n) : old = run[1]..run[2]
        BY <4>1 DEF Rays
      <4>3. run[2] \in Nat /\ run[2] < a
        BY <2>1, <2>2, ClosedBefore
      <4>4. run \in (DOMAIN depth) \X (DOMAIN depth)
        BY Zenon DEF Closed
      <4>5. run[1] \in Nat
        BY <4>4
      <4>6. p \in run[1]..run[2] /\ q \in a..n
        BY <2>1, <4>2
      <4> QED
        BY <2>2, <4>3, <4>5, <4>6
    <3> QED
      BY <1>2, <3>1, <3>4, <3>5, <3>6, AppendedRuns
  <2>6. CASE ~(n - a + 1 >= MinRun)
    <3>1. Flush(state).clusters = c
      BY <1>1, <2>3, <2>6
    <3>2. Closed(depth, n) \cup Ended(depth, n) = Closed(depth, n)
      BY <2>4, <2>6
    <3> QED
      BY <1>2, <3>1, <3>2
  <2> QED
    BY <2>5, <2>6
<1> QED
  BY <1>4, <1>5, Zenon DEF Open

LEMMA AbsDiffs ==
    ASSUME NEW m \in Nat, NEW n \in Nat
    PROVE  AbsDiff(m, n) \in Nat /\ AbsDiff(m, n) = AbsDiff(n, m)
BY DEF AbsDiff

\* One ray keeps the account of the surfaces.
LEMMA RayTells ==
    ASSUME NEW depth \in Seq(Nat), DepthLimits, NEW n \in Nat, n + 1 <= Len(depth), NEW state,
           Told(depth, n, state.clusters), Open(depth, n, state)
    PROVE  /\ Told(depth, n + 1, Ray(depth, state, n + 1).clusters)
           /\ Open(depth, n + 1, Ray(depth, state, n + 1))
<1> DEFINE m == n + 1
           broken == state.run # {} /\ AbsDiff(depth[m], state.last) > DepthBreak
           flushed == Flush(state)
           next == Ray(depth, state, m)
<1>1. /\ n \in 0..Len(depth) /\ m \in 1..Len(depth) /\ m \in Nat /\ m # 0 /\ m - 1 = n
      /\ depth[m] \in Nat /\ m \in 1..m
  OBVIOUS
<1>2. DepthBreak \in Nat
  BY DEF DepthLimits
<1>3. /\ flushed.clusters \in Seq(SUBSET Nat)
      /\ ToSet(flushed.clusters) = Rays(Closed(depth, n) \cup Ended(depth, n))
      /\ LeftToRight(flushed.clusters)
  BY <1>1, FlushTells
<1>4. flushed.run = {} /\ flushed = [run |-> {}, last |-> state.last, clusters |-> flushed.clusters]
  BY DEF Flush
<1>5. Closed(depth, m) = IF Joined(depth, n) THEN Closed(depth, n)
                         ELSE Closed(depth, n) \cup Ended(depth, n)
  BY <1>1, ClosedGrows
<1>6. ~Joined(depth, n) => Told(depth, m, flushed.clusters)
  BY <1>3, <1>5 DEF Told
<1>7. (Joined(depth, n) \/ Ended(depth, n) = {}) => Told(depth, m, state.clusters)
  <2>1. (Joined(depth, n) \/ Ended(depth, n) = {}) => Closed(depth, m) = Closed(depth, n)
    BY <1>5
  <2> QED
    BY <2>1 DEF Told
<1>8. ~Valid(depth[m]) => next = [run |-> {}, last |-> 0, clusters |-> flushed.clusters]
  BY <1>4 DEF Ray
<1>9. Valid(depth[m]) /\ broken =>
        next = [run |-> flushed.run \cup {m}, last |-> depth[m], clusters |-> flushed.clusters]
  BY DEF Ray
<1>10. Valid(depth[m]) /\ ~broken =>
        next = [run |-> state.run \cup {m}, last |-> depth[m], clusters |-> state.clusters]
  BY DEF Ray
<1> HIDE DEF next, flushed
<1>11. Smooth(depth, m, m) <=> Valid(depth[m])
  BY <1>1, SmoothAt
<1>12. m..m = {m}
  BY <1>1
\* A surface may begin with this ray.
<1>13. ASSUME Valid(depth[m]), next.run = {m}, next.last = depth[m], m = 1 \/ ~Joined(depth, n)
       PROVE  Open(depth, m, next)
  <2>1. OpenFrom(depth, m, next, m)
    BY <1>1, <1>11, <1>12, <1>13 DEF OpenFrom
  <2> QED
    BY <2>1, Zenon DEF Open
<1>14. ASSUME ~Valid(depth[m])
       PROVE  Told(depth, m, next.clusters) /\ Open(depth, m, next)
  <2>1. ~Joined(depth, n)
    BY <1>14 DEF Joined
  <2>2. next.run = {} /\ next.clusters = flushed.clusters
    BY <1>8, <1>14
  <2> QED
    BY <1>6, <1>14, <2>1, <2>2 DEF Open
<1>15. ASSUME Valid(depth[m]), state.run = {}, n = 0 \/ ~Valid(depth[n])
       PROVE  Told(depth, m, next.clusters) /\ Open(depth, m, next)
  <2>1. next.run = {m} /\ next.last = depth[m] /\ next.clusters = state.clusters
    BY <1>10, <1>15
  <2>2. m = 1 \/ ~Joined(depth, n)
    BY <1>15 DEF Joined
  <2>3. Ended(depth, n) = {}
    BY <1>1, <1>15, EndedNone
  <2>4. Open(depth, m, next)
    BY <1>13, <1>15, <2>1, <2>2
  <2> QED
    BY <1>7, <2>1, <2>3, <2>4
<1>16. ASSUME Valid(depth[m]), NEW a, OpenFrom(depth, n, state, a)
       PROVE  Told(depth, m, next.clusters) /\ Open(depth, m, next)
  <2>1. /\ a \in 1..n /\ state.run = a..n /\ state.last = depth[n]
        /\ Smooth(depth, a, n) /\ (a = 1 \/ ~Joined(depth, a - 1))
    BY <1>16 DEF OpenFrom
  <2>2. a \in Nat /\ a <= n /\ a \in 1..m /\ n \in a..n /\ n \in 1..Len(depth)
    BY <1>1, <2>1
  <2>3. state.run # {} /\ Valid(depth[n]) /\ depth[n] \in Nat
    <3>1. \A i \in a..n : Valid(depth[i])
      BY <2>1, Zenon DEF Smooth
    <3>2. state.run # {}
      BY <2>1, <2>2, Zenon
    <3>3. Valid(depth[n])
      BY <2>2, <3>1, Zenon
    <3>4. depth[n] \in Nat
      BY <2>2
    <3> QED
      BY <3>2, <3>3, <3>4, Zenon
  <2>4. AbsDiff(depth[m], state.last) = AbsDiff(depth[n], depth[m])
        /\ AbsDiff(depth[n], depth[m]) \in Nat
    BY <1>1, <2>1, <2>3, AbsDiffs
  <2>5. broken <=> ~Joined(depth, n)
    <3>1. broken <=> ~(AbsDiff(depth[n], depth[m]) <= DepthBreak)
      BY <1>2, <2>3, <2>4
    <3> QED
      BY <1>16, <2>3, <3>1 DEF Joined
  <2> HIDE DEF broken
  <2>6. CASE broken
    <3>1. next.run = {m} /\ next.last = depth[m] /\ next.clusters = flushed.clusters
      BY <1>4, <1>9, <1>16, <2>6
    <3> QED
      BY <1>6, <1>13, <1>16, <2>5, <2>6, <3>1
  <2>7. CASE ~broken
    <3>1. next.run = (a..n) \cup {m} /\ next.last = depth[m] /\ next.clusters = state.clusters
      BY <1>10, <1>16, <2>1, <2>7
    <3>2. (a..n) \cup {m} = a..m
      BY <1>1, <2>2
    <3>3. Smooth(depth, a, m)
      BY <2>1, <2>2, <2>5, <2>7, SmoothGrows
    <3>4. OpenFrom(depth, m, next, a)
      BY <2>1, <2>2, <3>1, <3>2, <3>3, Zenon DEF OpenFrom
    <3> QED
      BY <1>7, <2>5, <2>7, <3>1, <3>4, Zenon DEF Open
  <2> QED
    BY <2>6, <2>7
<1>17. Told(depth, m, next.clusters) /\ Open(depth, m, next)
  BY <1>14, <1>15, <1>16, Zenon DEF Open
<1> QED
  BY <1>17 DEF next

\* The loop over the rays as a function that satisfies its own definition.
Looped(depth, k, after) ==
    after = [n \in 0..k |-> IF n = 0 THEN [run |-> {}, last |-> 0, clusters |-> <<>>]
                            ELSE Ray(depth, after[n - 1], n)]

LEMMA LoopExists ==
    ASSUME NEW depth
    PROVE  \A k \in Nat : \E after : Looped(depth, k, after)
<1> DEFINE S == {k \in Nat : \E after : Looped(depth, k, after)}
           first == [run |-> {}, last |-> 0, clusters |-> <<>>]
<1>1. 0 \in S
  <2> DEFINE f == [n \in 0..0 |-> first]
  <2>1. Looped(depth, 0, f)
    BY DEF Looped
  <2> HIDE DEF f
  <2> QED
    BY <2>1
<1>2. ASSUME NEW k \in Nat, k \in S PROVE k + 1 \in S
  <2>1. PICK f : Looped(depth, k, f)
    BY <1>2
  <2> DEFINE more == [n \in 0..(k + 1) |-> IF n = k + 1 THEN Ray(depth, f[k], k + 1) ELSE f[n]]
  <2>2. ASSUME NEW n \in 0..(k + 1)
        PROVE  more[n] = IF n = 0 THEN first ELSE Ray(depth, more[n - 1], n)
    <3>1. CASE n = k + 1
      <4>1. n # 0 /\ n - 1 = k /\ k \in 0..(k + 1) /\ k # k + 1
        BY <3>1
      <4>2. more[n] = Ray(depth, f[k], k + 1) /\ more[n - 1] = f[k]
        BY <3>1, <4>1
      <4> QED
        BY <3>1, <4>1, <4>2
    <3>2. CASE n # k + 1
      <4>1. n \in 0..k
        BY <3>2
      <4>2. f[n] = IF n = 0 THEN first ELSE Ray(depth, f[n - 1], n)
        BY <2>1, <4>1 DEF Looped
      <4>3. more[n] = f[n]
        BY <3>2
      <4>4. n # 0 => more[n - 1] = f[n - 1]
        BY <4>1
      <4> QED
        BY <4>2, <4>3, <4>4
    <3> QED
      BY <3>1, <3>2
  <2>3. Looped(depth, k + 1, more)
    BY <2>2 DEF Looped
  <2> HIDE DEF more
  <2> QED
    BY <2>3
<1> HIDE DEF S
<1>3. Nat \subseteq S
  BY <1>1, <1>2, Induct
<1> QED
  BY <1>3 DEF S

(***************************************************************************)
(* DepthObstacleDetector::detect() finds the surfaces of every scanline,   *)
(* each once and from left to right, for all limits of the depth and every *)
(* least length of a run.                                                  *)
(***************************************************************************)
THEOREM DepthRunsMaximal ==
    ASSUME NEW depth \in Seq(Nat), DepthLimits
    PROVE  RunsAreMaximal(depth)
<1> DEFINE L == Len(depth)
           f == CHOOSE after : Looped(depth, L, after)
           S == {n \in Nat : n <= L => /\ Told(depth, n, f[n].clusters)
                                       /\ Open(depth, n, f[n])}
<1>1. L \in Nat
  OBVIOUS
<1>2. Looped(depth, L, f)
  BY <1>1, LoopExists
<1>3. DepthDetect(depth) = Flush(f[L]).clusters
  BY DEF DepthDetect, Looped
<1> HIDE DEF f
<1>4. \A n \in 0..L : f[n] = IF n = 0 THEN [run |-> {}, last |-> 0, clusters |-> <<>>]
                             ELSE Ray(depth, f[n - 1], n)
  BY <1>2 DEF Looped
<1>5. 0 \in S
  <2>1. f[0].run = {} /\ f[0].clusters = <<>>
    BY <1>1, <1>4
  <2>2. Open(depth, 0, f[0])
    BY <2>1 DEF Open
  <2>3. Closed(depth, 0) = {}
    <3>1. \A run \in (DOMAIN depth) \X (DOMAIN depth) : run[2] \in Nat
      OBVIOUS
    <3>2. \A x \in Nat : ~(x < 0)
      OBVIOUS
    <3> QED
      BY <3>1, <3>2, Zenon DEF Closed
  <2>4. Rays(Closed(depth, 0)) = {}
    BY <2>3 DEF Rays
  <2>5. <<>> \in Seq(SUBSET Nat) /\ ToSet(<<>>) = {} /\ LeftToRight(<<>>)
    BY DEF ToSet, LeftToRight
  <2>6. Told(depth, 0, f[0].clusters)
    BY <2>1, <2>4, <2>5 DEF Told
  <2> QED
    BY <2>2, <2>6
<1>6. ASSUME NEW n \in Nat, n \in S PROVE n + 1 \in S
  <2> SUFFICES ASSUME n + 1 <= L
               PROVE  Told(depth, n + 1, f[n + 1].clusters) /\ Open(depth, n + 1, f[n + 1])
    OBVIOUS
  <2>1. n <= L /\ n + 1 \in 0..L /\ n + 1 # 0 /\ (n + 1) - 1 = n
    BY <1>1
  <2>2. Told(depth, n, f[n].clusters) /\ Open(depth, n, f[n])
    BY <1>6, <2>1
  <2>3. f[n + 1] = Ray(depth, f[n], n + 1)
    BY <1>4, <2>1
  <2> QED
    BY <2>2, <2>3, RayTells
<1> HIDE DEF S
<1>7. Nat \subseteq S
  BY <1>5, <1>6, Induct
<1>8. Told(depth, L, f[L].clusters) /\ Open(depth, L, f[L])
  BY <1>1, <1>7 DEF S
<1>9. L \in 0..Len(depth)
  BY <1>1
<1>10. /\ ToSet(Flush(f[L]).clusters) = Rays(Closed(depth, L) \cup Ended(depth, L))
       /\ LeftToRight(Flush(f[L]).clusters)
  BY <1>8, <1>9, FlushTells
<1>11. Surfaces(depth) = Closed(depth, L) \cup Ended(depth, L)
  BY SurfacesAre
<1> QED
  BY <1>3, <1>10, <1>11 DEF RunsAreMaximal, Rays

-----------------------------------------------------------------------------
(***************************************************************************)
(* The clustering, for every list of points.                               *)
(***************************************************************************)
ClusterLimits == EpsSq \in Nat /\ MinPts \in Nat /\ MaxObjects \in Nat

Points == Seq(Int \X Int)

LEMMA SquareOfDiff ==
    ASSUME NEW x \in Int, NEW y \in Int
    PROVE  Square(x - y) = Square(y - x) /\ Square(x - y) \in Int
<1>1. \A d \in Int : d * d = (-d) * (-d) /\ d * d \in Int
  OBVIOUS
<1>2. y - x = -(x - y) /\ x - y \in Int
  OBVIOUS
<1> QED
  BY <1>1, <1>2 DEF Square

\* Being near is mutual.
LEMMA NearMutual ==
    ASSUME NEW pts \in Points, NEW i \in DOMAIN pts, NEW j \in Near(pts, i)
    PROVE  j \in DOMAIN pts /\ i \in Near(pts, j)
<1>1. /\ j \in DOMAIN pts /\ j # i
      /\ Square(pts[i][1] - pts[j][1]) + Square(pts[i][2] - pts[j][2]) <= EpsSq
  BY DEF Near
<1>2. \A k \in DOMAIN pts : pts[k][1] \in Int /\ pts[k][2] \in Int
  BY DEF Points
<1>3. /\ Square(pts[i][1] - pts[j][1]) = Square(pts[j][1] - pts[i][1])
      /\ Square(pts[i][2] - pts[j][2]) = Square(pts[j][2] - pts[i][2])
  BY <1>1, <1>2, SquareOfDiff
<1> QED
  BY <1>1, <1>3 DEF Near

LEMMA NearFinite ==
    ASSUME NEW pts \in Points, NEW i
    PROVE  Near(pts, i) \subseteq DOMAIN pts /\ Cardinality(Near(pts, i)) \in Nat
<1>1. Near(pts, i) \subseteq DOMAIN pts
  BY DEF Near
<1>2. DOMAIN pts = 1..Len(pts) /\ Len(pts) \in Nat
  BY DEF Points
<1>3. IsFiniteSet(DOMAIN pts)
  BY <1>2, FS_Interval
<1> QED
  BY <1>1, <1>3, FS_Subset, FS_CardinalityType

Spreads(pts, labels, q) == labels[q] < 0 /\ Cardinality(Near(pts, q)) >= MinPts

Spread(pts, labels, found) ==
    found \cup UNION {Near(pts, q) : q \in {p \in found : Spreads(pts, labels, p)}}

Grows(pts, labels, i, k, grown) ==
    grown = [n \in 0..k |-> IF n = 0 THEN {i} \cup Near(pts, i)
                            ELSE Spread(pts, labels, grown[n - 1])]

LEMMA GrowthExists ==
    ASSUME NEW pts, NEW labels, NEW i
    PROVE  \A k \in Nat : \E grown : Grows(pts, labels, i, k, grown)
<1> DEFINE S == {k \in Nat : \E grown : Grows(pts, labels, i, k, grown)}
           first == {i} \cup Near(pts, i)
           Nx(x) == Spread(pts, labels, x)
<1>1. 0 \in S
  <2> DEFINE f == [n \in 0..0 |-> first]
  <2>1. Grows(pts, labels, i, 0, f)
    BY DEF Grows
  <2> HIDE DEF f
  <2> QED
    BY <2>1
<1>2. ASSUME NEW k \in Nat, k \in S PROVE k + 1 \in S
  <2>1. PICK f : Grows(pts, labels, i, k, f)
    BY <1>2
  <2> DEFINE more == [n \in 0..(k + 1) |-> IF n = k + 1 THEN Nx(f[k]) ELSE f[n]]
  <2>2. ASSUME NEW n \in 0..(k + 1)
        PROVE  more[n] = IF n = 0 THEN first ELSE Nx(more[n - 1])
    <3> HIDE DEF Nx, first
    <3>1. CASE n = k + 1
      <4>1. n # 0 /\ n - 1 = k /\ k \in 0..(k + 1) /\ k # k + 1
        BY <3>1
      <4>2. more[n] = Nx(f[k]) /\ more[n - 1] = f[k]
        BY <3>1, <4>1
      <4> QED
        BY <3>1, <4>1, <4>2
    <3>2. CASE n # k + 1
      <4>1. n \in 0..k
        BY <3>2
      <4>2. f[n] = IF n = 0 THEN first ELSE Nx(f[n - 1])
        BY <2>1, <4>1 DEF Grows, Nx, first
      <4>3. more[n] = f[n]
        BY <3>2
      <4>4. n # 0 => more[n - 1] = f[n - 1]
        BY <4>1
      <4> QED
        BY <4>2, <4>3, <4>4
    <3> QED
      BY <3>1, <3>2
  <2>3. Grows(pts, labels, i, k + 1, more)
    BY <2>2 DEF Grows
  <2> HIDE DEF more
  <2> QED
    BY <2>3
<1> HIDE DEF S
<1>3. Nat \subseteq S
  BY <1>1, <1>2, Induct
<1> QED
  BY <1>3 DEF S

\* The points that are near i or near a point of `visited` that spreads.
Reachable(pts, labels, i, visited) ==
    {i} \cup Near(pts, i) \cup
        UNION {Near(pts, q) : q \in {p \in visited : Spreads(pts, labels, p)}}

(***************************************************************************)
(* What an expansion visits: it has its start, all that is near a point of *)
(* it that spreads, and nothing else; in particular, as many rounds as     *)
(* there are points are enough.                                            *)
(***************************************************************************)
LEMMA ExpansionIs ==
    ASSUME NEW pts \in Points, NEW labels, NEW i \in DOMAIN pts
    PROVE  LET visited == Expansion(pts, labels, i)
           IN  /\ i \in visited /\ visited \subseteq DOMAIN pts
               /\ visited \subseteq Reachable(pts, labels, i, visited)
               /\ \A q \in visited : Spreads(pts, labels, q) => Near(pts, q) \subseteq visited
               /\ \A S : i \in S /\ (\A q \in S : q = i \/ Spreads(pts, labels, q)
                                               => Near(pts, q) \subseteq S)
                        => visited \subseteq S
<1> DEFINE L == Len(pts)
           g == CHOOSE grown : Grows(pts, labels, i, L, grown)
           V == g[L]
<1>1. L \in Nat /\ DOMAIN pts = 1..L
  BY DEF Points
<1>2. Grows(pts, labels, i, L, g)
  BY <1>1, GrowthExists
<1>3. Expansion(pts, labels, i) = V
  BY DEF Expansion, Grows, Spread, Spreads
<1> HIDE DEF g
<1>4. \A n \in 0..L : g[n] = IF n = 0 THEN {i} \cup Near(pts, i)
                             ELSE Spread(pts, labels, g[n - 1])
  BY <1>2 DEF Grows
<1>5. g[0] = {i} \cup Near(pts, i)
  BY <1>1, <1>4
<1>6. ASSUME NEW n \in Nat, n + 1 <= L PROVE g[n + 1] = Spread(pts, labels, g[n])
  <2>1. n + 1 \in 0..L /\ n + 1 # 0 /\ (n + 1) - 1 = n
    BY <1>1, <1>6
  <2> QED
    BY <1>4, <2>1
<1>7. ASSUME NEW n \in Nat, n <= L PROVE g[n] \subseteq V
  <2> DEFINE T == {d \in Nat : d <= L => g[L - d] \subseteq V}
  <2>1. 0 \in T
    <3>1. L - 0 = L
      BY <1>1
    <3> QED
      BY <3>1
  <2>2. ASSUME NEW d \in Nat, d \in T PROVE d + 1 \in T
    <3> SUFFICES ASSUME d + 1 <= L PROVE g[L - (d + 1)] \subseteq V
      OBVIOUS
    <3>1. /\ L - (d + 1) \in Nat /\ (L - (d + 1)) + 1 = L - d /\ d <= L
          /\ (L - (d + 1)) + 1 <= L
      BY <1>1
    <3>2. g[L - d] \subseteq V
      BY <2>2, <3>1
    <3>3. g[L - d] = Spread(pts, labels, g[L - (d + 1)])
      BY <1>6, <3>1
    <3>4. g[L - (d + 1)] \subseteq g[L - d]
      BY <3>3, Zenon DEF Spread
    <3> QED
      BY <3>2, <3>4
  <2> HIDE DEF T
  <2>3. Nat \subseteq T
    BY <2>1, <2>2, Induct
  <2>4. L - n \in Nat /\ L - n <= L /\ L - (L - n) = n
    BY <1>1, <1>7
  <2>5. L - n \in T
    BY <2>3, <2>4
  <2>6. g[L - (L - n)] \subseteq V
    BY <2>4, <2>5 DEF T
  <2> QED
    BY <2>4, <2>6
<1> HIDE DEF V
<1>8. ASSUME NEW S, i \in S,
             \A q \in S : q = i \/ Spreads(pts, labels, q) => Near(pts, q) \subseteq S
      PROVE  V \subseteq S
  <2> DEFINE T == {n \in Nat : n <= L => g[n] \subseteq S}
  <2>1. 0 \in T
    BY <1>5, <1>8
  <2>2. ASSUME NEW n \in Nat, n \in T PROVE n + 1 \in T
    <3> SUFFICES ASSUME n + 1 <= L PROVE g[n + 1] \subseteq S
      OBVIOUS
    <3>1. n <= L
      BY <1>1
    <3>2. g[n] \subseteq S
      BY <2>2, <3>1
    <3>3. g[n + 1] = Spread(pts, labels, g[n])
      BY <1>6
    <3> QED
      BY <1>8, <3>2, <3>3, Zenon DEF Spread
  <2> HIDE DEF T
  <2>3. Nat \subseteq T
    BY <2>1, <2>2, Induct
  <2>4. L <= L
    BY <1>1
  <2> QED
    BY <1>1, <2>3, <2>4 DEF T, V
<1>9. V \subseteq Reachable(pts, labels, i, V)
  <2> DEFINE T == {n \in Nat : n <= L => g[n] \subseteq Reachable(pts, labels, i, V)}
  <2>1. 0 \in T
    BY <1>5, Zenon DEF Reachable
  <2>2. ASSUME NEW n \in Nat, n \in T PROVE n + 1 \in T
    <3> SUFFICES ASSUME n + 1 <= L PROVE g[n + 1] \subseteq Reachable(pts, labels, i, V)
      OBVIOUS
    <3>1. n <= L
      BY <1>1
    <3>2. g[n] \subseteq Reachable(pts, labels, i, V) /\ g[n] \subseteq V
      BY <1>7, <2>2, <3>1
    <3>3. g[n + 1] = Spread(pts, labels, g[n])
      BY <1>6
    <3> QED
      BY <3>2, <3>3, Zenon DEF Spread, Reachable
  <2> HIDE DEF T
  <2>3. Nat \subseteq T
    BY <2>1, <2>2, Induct
  <2>4. L <= L
    BY <1>1
  <2> QED
    BY <1>1, <2>3, <2>4 DEF T, V
<1>10. i \in V
  <2>1. g[0] \subseteq V
    BY <1>1, <1>7
  <2> QED
    BY <1>5, <2>1
<1>11. V \subseteq DOMAIN pts
  BY <1>8, NearFinite
<1>12. Spread(pts, labels, V) = V
  <2> DEFINE T == {n \in Nat : n <= L => \/ Spread(pts, labels, g[n]) = g[n]
                                         \/ Cardinality(g[n]) >= n + 1}
  <2>1. IsFiniteSet(DOMAIN pts) /\ Cardinality(DOMAIN pts) = L
    <3>1. \A lo, hi \in Int : /\ IsFiniteSet(lo..hi)
                             /\ Cardinality(lo..hi) = IF lo > hi THEN 0 ELSE hi - lo + 1
      BY FS_Interval
    <3>2. Cardinality(1..L) = IF 1 > L THEN 0 ELSE L - 1 + 1
      BY <1>1, <3>1
    <3>3. (IF 1 > L THEN 0 ELSE L - 1 + 1) = L
      BY <1>1
    <3>4. IsFiniteSet(1..L)
      BY <1>1, <3>1
    <3> QED
      BY <1>1, <3>2, <3>3, <3>4, Zenon
  <2>2. ASSUME NEW n \in Nat, n <= L
        PROVE  g[n] \subseteq DOMAIN pts /\ IsFiniteSet(g[n]) /\ Cardinality(g[n]) \in Nat
    <3>1. g[n] \subseteq DOMAIN pts
      BY <1>7, <1>11, <2>2
    <3> QED
      BY <2>1, <3>1, FS_Subset, FS_CardinalityType
  <2>3. 0 \in T
    <3>1. 0 <= L /\ g[0] # {}
      BY <1>1, <1>5
    <3>2. Cardinality(g[0]) # 0 /\ Cardinality(g[0]) \in Nat
      BY <2>2, <3>1, FS_EmptySet
    <3> QED
      BY <3>2
  <2>4. ASSUME NEW n \in Nat, n \in T PROVE n + 1 \in T
    <3> SUFFICES ASSUME n + 1 <= L
                 PROVE  \/ Spread(pts, labels, g[n + 1]) = g[n + 1]
                        \/ Cardinality(g[n + 1]) >= (n + 1) + 1
      OBVIOUS
    <3>1. n <= L
      BY <1>1
    <3>2. g[n + 1] = Spread(pts, labels, g[n])
      BY <1>6
    <3>3. CASE Spread(pts, labels, g[n]) = g[n]
      BY <3>2, <3>3
    <3>4. CASE Spread(pts, labels, g[n]) # g[n]
      <4>1. Cardinality(g[n]) >= n + 1
        BY <2>4, <3>1, <3>4
      <4>2. g[n] \subseteq g[n + 1]
        BY <3>2, Zenon DEF Spread
      <4>3. /\ IsFiniteSet(g[n + 1]) /\ Cardinality(g[n + 1]) \in Nat
            /\ Cardinality(g[n]) \in Nat
        BY <2>2, <3>1
      <4>4. /\ Cardinality(g[n]) <= Cardinality(g[n + 1])
            /\ Cardinality(g[n + 1]) = Cardinality(g[n]) => g[n + 1] = g[n]
        BY <4>2, <4>3, FS_Subset
      <4>5. Cardinality(g[n + 1]) # Cardinality(g[n])
        BY <3>2, <3>4, <4>4
      <4>6. ASSUME NEW x \in Nat, NEW y \in Nat, x >= n + 1, x <= y, y # x
            PROVE  y >= (n + 1) + 1
        BY <4>6
      <4> QED
        BY <4>1, <4>3, <4>4, <4>5, <4>6, Zenon
    <3> QED
      BY <3>3, <3>4
  <2> HIDE DEF T
  <2>5. Nat \subseteq T
    BY <2>3, <2>4, Induct
  <2>6. L <= L
    BY <1>1
  <2>7. Spread(pts, labels, g[L]) = g[L] \/ Cardinality(g[L]) >= L + 1
    BY <1>1, <2>5, <2>6 DEF T
  <2>8. Cardinality(g[L]) \in Nat /\ Cardinality(g[L]) <= L
    BY <1>1, <2>1, <2>2, <2>6, FS_Subset
  <2>9. ~(Cardinality(g[L]) >= L + 1)
    BY <1>1, <2>8
  <2> QED
    BY <2>7, <2>9 DEF V
<1>13. \A q \in V : Spreads(pts, labels, q) => Near(pts, q) \subseteq V
  BY <1>12, Zenon DEF Spread
<1> QED
  BY <1>3, <1>8, <1>9, <1>10, <1>11, <1>13

\* Points that one expansion visits are joined to each other.
LEMMA VisitedLinked ==
    ASSUME NEW pts \in Points, NEW labels, NEW start \in DOMAIN pts,
           NEW i \in Expansion(pts, labels, start), NEW j \in Expansion(pts, labels, start)
    PROVE  j \in Linked(pts, DOMAIN pts, i)
<1> DEFINE V == Expansion(pts, labels, start)
<1>1. V \subseteq DOMAIN pts
  BY ExpansionIs
<1>2. \A T : start \in T /\ (\A q \in T : Near(pts, q) \subseteq T) => V \subseteq T
  BY ExpansionIs
<1>3. ASSUME NEW S \in SUBSET DOMAIN pts, i \in S,
             \A q \in S \cap DOMAIN pts : Near(pts, q) \subseteq S
      PROVE  j \in S
  <2>1. \A q \in S : Near(pts, q) \subseteq S
    BY <1>3
  <2>2. start \in S
    <3> SUFFICES ASSUME start \notin S PROVE FALSE
      OBVIOUS
    <3> DEFINE T == (DOMAIN pts) \ S
    <3>1. ASSUME NEW q \in T, NEW r \in Near(pts, q) PROVE r \in T
      <4>1. r \in DOMAIN pts /\ q \in Near(pts, r)
        BY NearMutual
      <4> QED
        BY <2>1, <4>1
    <3>2. start \in T
      OBVIOUS
    <3> HIDE DEF T
    <3>3. V \subseteq T
      BY <1>2, <3>1, <3>2
    <3> QED
      BY <1>3, <3>3 DEF T
  <2>3. V \subseteq S
    BY <1>2, <2>1, <2>2
  <2> QED
    BY <2>3
<1>4. j \in DOMAIN pts
  BY <1>1
<1> HIDE DEF V
<1> QED
  BY <1>3, <1>4, Zenon DEF Linked

\* What the loop over the points keeps.
Labelled(pts, s) ==
    /\ s.labels \in [DOMAIN pts -> Int] /\ s.clusters \in Nat
    /\ \A q \in DOMAIN pts : s.labels[q] < s.clusters
    /\ \A q \in DOMAIN pts : \/ s.labels[q] >= 0
                             \/ s.labels[q] = Unvisited
                             \/ s.labels[q] = Noise /\ q \notin Core(pts)

Separate(pts, s) ==
    \A i \in DOMAIN pts : s.labels[i] >= 0 =>
        {j \in DOMAIN pts : s.labels[j] = s.labels[i]} \subseteq Linked(pts, DOMAIN pts, i)

HasCore(pts, labels, i) ==
    \E k \in Core(pts) \cap ({i} \cup Near(pts, i)) : labels[k] = labels[i]

Dense(pts, s) ==
    \A i \in DOMAIN pts : s.labels[i] >= 0 => HasCore(pts, s.labels, i)

Complete(n, s) ==
    s.clusters < MaxObjects => \A i \in 1..n : s.labels[i] # Unvisited

Clustered(pts, n, s) ==
    Labelled(pts, s) /\ Separate(pts, s) /\ Dense(pts, s) /\ Complete(n, s)

\* A point that starts a cluster, or spreads one, is dense.
LEMMA SpreadsCore ==
    ASSUME NEW pts \in Points, ClusterLimits, NEW q \in DOMAIN pts
    PROVE  /\ q \in Core(pts) <=> ~(Cardinality(Near(pts, q)) + 1 < MinPts)
           /\ \A labels : Spreads(pts, labels, q) => q \in Core(pts)
<1>1. Cardinality(Near(pts, q)) \in Nat /\ MinPts \in Nat
  BY NearFinite DEF ClusterLimits
<1>2. q \in Core(pts) <=> Cardinality(Near(pts, q)) + 1 >= MinPts
  BY Zenon DEF Core
<1>3. \A labels : Spreads(pts, labels, q) => Cardinality(Near(pts, q)) >= MinPts
  BY Zenon DEF Spreads
<1> DEFINE c == Cardinality(Near(pts, q))
<1> HIDE DEF c
<1>4. \A x, y \in Nat : (x + 1 >= y <=> ~(x + 1 < y)) /\ (x >= y => x + 1 >= y)
  OBVIOUS
<1> QED
  BY <1>1, <1>2, <1>3, <1>4, Zenon

LEMMA NoiseKeeps ==
    ASSUME NEW pts \in Points, ClusterLimits, NEW n \in Nat, n + 1 \in DOMAIN pts, NEW s,
           Clustered(pts, n, s), s.labels[n + 1] = Unvisited, n + 1 \notin Core(pts),
           NEW t, t = [labels |-> [s.labels EXCEPT ![n + 1] = Noise], clusters |-> s.clusters]
    PROVE  Clustered(pts, n + 1, t)
<1> DEFINE i == n + 1
<1>1. /\ s.labels \in [DOMAIN pts -> Int] /\ s.clusters \in Nat
      /\ \A q \in DOMAIN pts : s.labels[q] < s.clusters
      /\ \A q \in DOMAIN pts : \/ s.labels[q] >= 0
                               \/ s.labels[q] = Unvisited
                               \/ s.labels[q] = Noise /\ q \notin Core(pts)
  BY DEF Clustered, Labelled
<1>2. t.labels = [s.labels EXCEPT ![i] = Noise] /\ t.clusters = s.clusters
  OBVIOUS
<1> HIDE DEF i
<1>3. i \in DOMAIN pts /\ s.labels[i] = Unvisited /\ i \notin Core(pts)
  BY DEF i
<1>4. Unvisited = -1 /\ Noise = -2
  BY DEF Unvisited, Noise
<1>5. /\ t.labels \in [DOMAIN pts -> Int]
      /\ t.labels[i] = Noise
      /\ \A q \in DOMAIN pts : q # i => t.labels[q] = s.labels[q]
  BY <1>1, <1>2, <1>3, <1>4
<1>6. \A q \in DOMAIN pts : t.labels[q] >= 0 => q # i /\ s.labels[q] = t.labels[q]
  BY <1>4, <1>5
<1>7. \A q \in DOMAIN pts : s.labels[q] >= 0 => q # i /\ t.labels[q] = s.labels[q]
  BY <1>3, <1>4, <1>5
<1>8. Labelled(pts, t)
  <2>1. \A q \in DOMAIN pts : t.labels[q] < t.clusters
    BY <1>1, <1>2, <1>4, <1>5
  <2>2. \A q \in DOMAIN pts : \/ t.labels[q] >= 0
                              \/ t.labels[q] = Unvisited
                              \/ t.labels[q] = Noise /\ q \notin Core(pts)
    BY <1>1, <1>3, <1>5, Zenon
  <2> QED
    BY <1>1, <1>2, <1>5, <2>1, <2>2 DEF Labelled
<1>9. Separate(pts, t)
  <2> SUFFICES ASSUME NEW a \in DOMAIN pts, t.labels[a] >= 0,
                      NEW b \in DOMAIN pts, t.labels[b] = t.labels[a]
               PROVE  b \in Linked(pts, DOMAIN pts, a)
    BY Zenon DEF Separate
  <2>1. s.labels[a] >= 0 /\ s.labels[b] = s.labels[a]
    BY <1>6
  <2> QED
    BY <2>1, Zenon DEF Clustered, Separate
<1>10. Dense(pts, t)
  <2> SUFFICES ASSUME NEW a \in DOMAIN pts, t.labels[a] >= 0
               PROVE  HasCore(pts, t.labels, a)
    BY Zenon DEF Dense
  <2>1. s.labels[a] >= 0 /\ s.labels[a] = t.labels[a]
    BY <1>6
  <2>2. HasCore(pts, s.labels, a)
    BY <2>1, Zenon DEF Clustered, Dense
  <2>3. PICK k \in Core(pts) \cap ({a} \cup Near(pts, a)) : s.labels[k] = s.labels[a]
    BY <2>2, Zenon DEF HasCore
  <2>4. k \in DOMAIN pts
    BY Zenon DEF Core
  <2>5. t.labels[k] = t.labels[a]
    BY <1>7, <2>1, <2>3, <2>4
  <2> QED
    BY <2>3, <2>5, Zenon DEF HasCore
<1>11. Complete(n + 1, t)
  <2> SUFFICES ASSUME t.clusters < MaxObjects, NEW a \in 1..(n + 1)
               PROVE  t.labels[a] # Unvisited
    BY Zenon DEF Complete
  <2>1. CASE a = i
    BY <1>4, <1>5, <2>1
  <2>2. CASE a # i
    <3>1. a \in 1..n
      BY <2>2 DEF i
    <3>2. a \in DOMAIN pts
      <4>1. DOMAIN pts = 1..Len(pts) /\ Len(pts) \in Nat
        BY DEF Points
      <4> QED
        BY <3>1, <4>1
    <3>3. s.labels[a] # Unvisited
      BY <1>2, <3>1, Zenon DEF Clustered, Complete
    <3> QED
      BY <1>5, <2>2, <3>2, <3>3
  <2> QED
    BY <2>1, <2>2
<1> QED
  BY <1>8, <1>9, <1>10, <1>11 DEF Clustered

LEMMA ClusterKeeps ==
    ASSUME NEW pts \in Points, ClusterLimits, NEW n \in Nat, n + 1 \in DOMAIN pts, NEW s,
           Clustered(pts, n, s), s.labels[n + 1] = Unvisited, n + 1 \in Core(pts),
           NEW V, V = Expansion(pts, s.labels, n + 1),
           NEW t, t = [labels |-> [q \in DOMAIN pts |->
                                     IF q \in V /\ s.labels[q] < 0
                                     THEN s.clusters ELSE s.labels[q]],
                       clusters |-> s.clusters + 1]
    PROVE  Clustered(pts, n + 1, t)
<1> DEFINE i == n + 1
           Taken(q) == q \in V /\ s.labels[q] < 0
<1>1. /\ s.labels \in [DOMAIN pts -> Int] /\ s.clusters \in Nat
      /\ \A q \in DOMAIN pts : s.labels[q] < s.clusters
      /\ \A q \in DOMAIN pts : \/ s.labels[q] >= 0
                               \/ s.labels[q] = Unvisited
                               \/ s.labels[q] = Noise /\ q \notin Core(pts)
  BY DEF Clustered, Labelled
<1>2. /\ t.labels = [q \in DOMAIN pts |-> IF Taken(q) THEN s.clusters ELSE s.labels[q]]
      /\ t.clusters = s.clusters + 1
  OBVIOUS
<1>3. i \in DOMAIN pts /\ s.labels[i] = Unvisited /\ i \in Core(pts)
  OBVIOUS
<1>4. Unvisited = -1 /\ Noise = -2
  BY DEF Unvisited, Noise
<1>5. /\ i \in V /\ V \subseteq DOMAIN pts
      /\ V \subseteq Reachable(pts, s.labels, i, V)
  BY <1>3, ExpansionIs
<1>6. Taken(i)
  BY <1>3, <1>4, <1>5
<1>7. \A q \in DOMAIN pts : Taken(q) => q \in V /\ s.labels[q] < 0
  OBVIOUS
<1>8. \A a, b \in V : b \in Linked(pts, DOMAIN pts, a)
  BY <1>3, VisitedLinked
<1>9. ASSUME NEW p \in V, Spreads(pts, s.labels, p) PROVE Taken(p)
  BY <1>9 DEF Spreads
<1>10. \A a \in 1..(n + 1) : a = i \/ a \in 1..n
  OBVIOUS
<1>11. \A a \in 1..n : a \in DOMAIN pts
  <2>1. DOMAIN pts = 1..Len(pts) /\ Len(pts) \in Nat
    BY DEF Points
  <2> QED
    BY <2>1
<1> HIDE DEF i, Taken
<1>12. \A q \in DOMAIN pts : /\ Taken(q) => t.labels[q] = s.clusters
                             /\ ~Taken(q) => t.labels[q] = s.labels[q]
  BY <1>2
<1>13. ASSUME NEW q \in DOMAIN pts
       PROVE  /\ t.labels[q] \in Int /\ t.labels[q] < t.clusters
              /\ s.labels[q] >= 0 => ~Taken(q)
              /\ ~Taken(q) => t.labels[q] # s.clusters
  <2>1. s.labels[q] \in Int /\ s.labels[q] < s.clusters
    BY <1>1
  <2>2. s.clusters \in Nat
    BY <1>1
  <2>3. t.labels[q] = s.clusters \/ t.labels[q] = s.labels[q]
    BY <1>12
  <2>4. ~Taken(q) => t.labels[q] # s.clusters
    BY <1>12, <2>1, <2>2
  <2>5. s.labels[q] >= 0 => ~Taken(q)
    BY <1>7, <2>1
  <2> QED
    BY <1>2, <2>1, <2>2, <2>3, <2>4, <2>5
<1>14. Labelled(pts, t)
  <2>1. ASSUME NEW q \in DOMAIN pts
        PROVE  t.labels[q] >= 0 \/ t.labels[q] = Unvisited
               \/ (t.labels[q] = Noise /\ q \notin Core(pts))
    <3>1. Taken(q) => t.labels[q] >= 0
      BY <1>1, <1>12
    <3> QED
      BY <1>1, <1>12, <3>1, Zenon
  <2>2. t.labels \in [DOMAIN pts -> Int]
    BY <1>2, <1>13
  <2>3. t.clusters \in Nat
    BY <1>1, <1>2
  <2> QED
    BY <1>13, <2>1, <2>2, <2>3 DEF Labelled
<1>15. Separate(pts, t)
  <2> SUFFICES ASSUME NEW a \in DOMAIN pts, t.labels[a] >= 0,
                      NEW b \in DOMAIN pts, t.labels[b] = t.labels[a]
               PROVE  b \in Linked(pts, DOMAIN pts, a)
    BY Zenon DEF Separate
  <2>1. CASE Taken(a)
    <3>1. Taken(b)
      BY <1>12, <1>13, <2>1, Zenon
    <3> QED
      BY <1>7, <1>8, <2>1, <3>1, Zenon
  <2>2. CASE ~Taken(a)
    <3>1. ~Taken(b)
      BY <1>12, <1>13, <2>2, Zenon
    <3>2. t.labels[a] = s.labels[a] /\ t.labels[b] = s.labels[b]
      BY <1>12, <2>2, <3>1, Zenon
    <3>3. s.labels[a] >= 0 /\ s.labels[b] = s.labels[a]
      BY <3>2, Zenon
    <3> QED
      BY <3>3, Zenon DEF Clustered, Separate
  <2> QED
    BY <2>1, <2>2
<1>16. Dense(pts, t)
  <2> SUFFICES ASSUME NEW a \in DOMAIN pts, t.labels[a] >= 0
               PROVE  HasCore(pts, t.labels, a)
    BY Zenon DEF Dense
  <2>1. ASSUME NEW k \in Core(pts), k = a \/ k \in Near(pts, a), Taken(k), Taken(a)
        PROVE  HasCore(pts, t.labels, a)
    <3>1. k \in DOMAIN pts
      BY Zenon DEF Core
    <3>2. t.labels[k] = t.labels[a]
      BY <1>12, <2>1, <3>1, Zenon
    <3>3. k \in Core(pts) \cap ({a} \cup Near(pts, a))
      BY <2>1, Zenon
    <3> QED
      BY <3>2, <3>3, Zenon DEF HasCore
  <2>2. CASE Taken(a)
    <3>1. a \in V
      BY <1>7, <2>2
    <3>2. \/ a = i \/ a \in Near(pts, i)
          \/ \E p \in V : Spreads(pts, s.labels, p) /\ a \in Near(pts, p)
      BY <1>5, <3>1, Zenon DEF Reachable
    <3>3. CASE a = i
      BY <1>3, <2>1, <2>2, <3>3, Zenon
    <3>4. CASE a \in Near(pts, i)
      <4>1. i \in Near(pts, a)
        BY <1>3, <3>4, NearMutual
      <4> QED
        BY <1>3, <1>6, <2>1, <2>2, <4>1, Zenon
    <3>5. ASSUME NEW p \in V, Spreads(pts, s.labels, p), a \in Near(pts, p)
          PROVE  HasCore(pts, t.labels, a)
      <4>1. p \in DOMAIN pts
        BY <1>5
      <4>2. p \in Core(pts)
        BY <3>5, <4>1, SpreadsCore
      <4>3. p \in Near(pts, a)
        BY <3>5, <4>1, NearMutual
      <4>4. Taken(p)
        BY <1>9, <3>5
      <4> QED
        BY <2>1, <2>2, <4>2, <4>3, <4>4, Zenon
    <3> QED
      BY <3>2, <3>3, <3>4, <3>5, Zenon
  <2>3. CASE ~Taken(a)
    <3>1. t.labels[a] = s.labels[a] /\ s.labels[a] >= 0
      BY <1>12, <2>3
    <3>2. HasCore(pts, s.labels, a)
      BY <3>1, Zenon DEF Clustered, Dense
    <3>3. PICK k \in Core(pts) \cap ({a} \cup Near(pts, a)) : s.labels[k] = s.labels[a]
      BY <3>2, Zenon DEF HasCore
    <3>4. k \in DOMAIN pts
      BY Zenon DEF Core
    <3>5. s.labels[k] >= 0
      BY <3>1, <3>3, Zenon
    <3>6. ~Taken(k)
      BY <1>13, <3>4, <3>5
    <3>7. t.labels[k] = t.labels[a]
      BY <1>12, <3>1, <3>3, <3>4, <3>6, Zenon
    <3> QED
      BY <3>3, <3>7, Zenon DEF HasCore
  <2> QED
    BY <2>2, <2>3
<1>17. Complete(n + 1, t)
  <2> SUFFICES ASSUME t.clusters < MaxObjects, NEW a \in 1..(n + 1)
               PROVE  t.labels[a] # Unvisited
    BY Zenon DEF Complete
  <2>1. s.clusters < MaxObjects
    <3>1. MaxObjects \in Nat /\ s.clusters \in Nat /\ s.clusters + 1 < MaxObjects
      BY <1>1, <1>2 DEF ClusterLimits
    <3> QED
      BY <3>1
  <2>2. a \in DOMAIN pts
    BY <1>3, <1>10, <1>11, Zenon
  <2>3. CASE Taken(a)
    <3>1. t.labels[a] = s.clusters
      BY <1>12, <2>2, <2>3
    <3> QED
      BY <1>1, <1>4, <3>1
  <2>4. CASE ~Taken(a)
    <3>1. a \in 1..n
      BY <1>6, <1>10, <2>4, Zenon
    <3>2. s.labels[a] # Unvisited
      BY <2>1, <3>1, Zenon DEF Clustered, Complete
    <3> QED
      BY <1>12, <2>2, <2>4, <3>2, Zenon
  <2> QED
    BY <2>3, <2>4
<1> QED
  BY <1>14, <1>15, <1>16, <1>17 DEF Clustered

LEMMA VisitKeeps ==
    ASSUME NEW pts \in Points, ClusterLimits, NEW n \in Nat, n + 1 \in DOMAIN pts, NEW s,
           Clustered(pts, n, s)
    PROVE  Clustered(pts, n + 1, Visit(pts, s, n + 1))
<1> DEFINE i == n + 1
           t == Visit(pts, s, i)
<1>1. CASE s.labels[i] # Unvisited \/ s.clusters >= MaxObjects
  <2>1. t = s
    BY <1>1 DEF Visit
  <2>2. Complete(n + 1, s)
    <3> SUFFICES ASSUME s.clusters < MaxObjects, NEW a \in 1..(n + 1)
                 PROVE  s.labels[a] # Unvisited
      BY Zenon DEF Complete
    <3>1. s.clusters \in Nat /\ MaxObjects \in Nat
      BY DEF Clustered, Labelled, ClusterLimits
    <3>2. s.labels[i] # Unvisited
      BY <1>1, <3>1
    <3>3. a = i \/ a \in 1..n
      OBVIOUS
    <3> HIDE DEF i
    <3>4. a \in 1..n => s.labels[a] # Unvisited
      BY Zenon DEF Clustered, Complete
    <3> QED
      BY <3>2, <3>3, <3>4, Zenon
  <2>3. Clustered(pts, n + 1, s)
    BY <2>2, Zenon DEF Clustered
  <2> QED
    BY <2>1, <2>3
<1>2. CASE ~(s.labels[i] # Unvisited \/ s.clusters >= MaxObjects)
           /\ Cardinality(Near(pts, i)) + 1 < MinPts
  <2>1. t = [labels |-> [s.labels EXCEPT ![i] = Noise], clusters |-> s.clusters]
    BY <1>2 DEF Visit
  <2>2. i \notin Core(pts)
    BY <1>2, SpreadsCore
  <2> QED
    BY <1>2, <2>1, <2>2, NoiseKeeps
<1>3. CASE ~(s.labels[i] # Unvisited \/ s.clusters >= MaxObjects)
           /\ ~(Cardinality(Near(pts, i)) + 1 < MinPts)
  <2>1. t = [labels |-> [q \in DOMAIN pts |->
                           IF q \in Expansion(pts, s.labels, i) /\ s.labels[q] < 0
                           THEN s.clusters ELSE s.labels[q]],
             clusters |-> s.clusters + 1]
    BY <1>3 DEF Visit
  <2>2. i \in Core(pts)
    BY <1>3, SpreadsCore
  <2> QED
    BY <1>3, <2>1, <2>2, ClusterKeeps
<1> QED
  BY <1>1, <1>2, <1>3

Visited(pts, k, after) ==
    after = [n \in 0..k |->
                IF n = 0 THEN [labels |-> [i \in DOMAIN pts |-> Unvisited], clusters |-> 0]
                ELSE Visit(pts, after[n - 1], n)]

LEMMA VisitsExist ==
    ASSUME NEW pts
    PROVE  \A k \in Nat : \E after : Visited(pts, k, after)
<1> DEFINE S == {k \in Nat : \E after : Visited(pts, k, after)}
           first == [labels |-> [i \in DOMAIN pts |-> Unvisited], clusters |-> 0]
           Nx(x, n) == Visit(pts, x, n)
<1>1. 0 \in S
  <2> DEFINE f == [n \in 0..0 |-> first]
  <2>1. Visited(pts, 0, f)
    BY DEF Visited
  <2> HIDE DEF f
  <2> QED
    BY <2>1
<1>2. ASSUME NEW k \in Nat, k \in S PROVE k + 1 \in S
  <2>1. PICK f : Visited(pts, k, f)
    BY <1>2
  <2> DEFINE more == [n \in 0..(k + 1) |-> IF n = k + 1 THEN Nx(f[k], k + 1) ELSE f[n]]
  <2>2. ASSUME NEW n \in 0..(k + 1)
        PROVE  more[n] = IF n = 0 THEN first ELSE Nx(more[n - 1], n)
    <3> HIDE DEF Nx, first
    <3>1. CASE n = k + 1
      <4>1. n # 0 /\ n - 1 = k /\ k \in 0..(k + 1) /\ k # k + 1
        BY <3>1
      <4>2. more[n] = Nx(f[k], k + 1) /\ more[n - 1] = f[k]
        BY <3>1, <4>1
      <4> QED
        BY <3>1, <4>1, <4>2
    <3>2. CASE n # k + 1
      <4>1. n \in 0..k
        BY <3>2
      <4>2. f[n] = IF n = 0 THEN first ELSE Nx(f[n - 1], n)
        BY <2>1, <4>1 DEF Visited, Nx, first
      <4>3. more[n] = f[n]
        BY <3>2
      <4>4. n # 0 => more[n - 1] = f[n - 1]
        BY <4>1
      <4> QED
        BY <4>2, <4>3, <4>4
    <3> QED
      BY <3>1, <3>2
  <2>3. Visited(pts, k + 1, more)
    BY <2>2 DEF Visited
  <2> HIDE DEF more
  <2> QED
    BY <2>3
<1> HIDE DEF S
<1>3. Nat \subseteq S
  BY <1>1, <1>2, Induct
<1> QED
  BY <1>3 DEF S

(***************************************************************************)
(* ClusterDetector::detect() never makes one cluster of objects that are   *)
(* apart, loses no dense point unless there are too many clusters, and     *)
(* takes in only points near a dense one, for every list of points, eps,   *)
(* min_pts and max_objects.                                                *)
(***************************************************************************)
THEOREM ClusteringSound ==
    ASSUME NEW pts \in Points, ClusterLimits
    PROVE  ClustersSound(pts)
<1> DEFINE L == Len(pts)
           f == CHOOSE after : Visited(pts, L, after)
           S == {n \in Nat : n <= L => Clustered(pts, n, f[n])}
<1>1. L \in Nat /\ DOMAIN pts = 1..L
  BY DEF Points
<1>2. Visited(pts, L, f)
  BY <1>1, VisitsExist
<1>3. Detect(pts) = f[L]
  BY DEF Detect, Visited
<1> HIDE DEF f
<1>4. \A n \in 0..L : f[n] = IF n = 0
                             THEN [labels |-> [i \in DOMAIN pts |-> Unvisited], clusters |-> 0]
                             ELSE Visit(pts, f[n - 1], n)
  BY <1>2 DEF Visited
<1>5. 0 \in S
  <2>1. f[0].labels = [i \in DOMAIN pts |-> Unvisited] /\ f[0].clusters = 0
    BY <1>1, <1>4
  <2>2. \A q \in DOMAIN pts : f[0].labels[q] = Unvisited
    BY <2>1
  <2>3. Unvisited \in Int /\ Unvisited < 0 /\ ~(Unvisited >= 0)
    BY DEF Unvisited
  <2>4. Labelled(pts, f[0])
    BY <2>1, <2>2, <2>3 DEF Labelled
  <2>5. Separate(pts, f[0]) /\ Dense(pts, f[0])
    BY <2>2, <2>3, Zenon DEF Separate, Dense
  <2>6. 1..0 = {}
    OBVIOUS
  <2>7. Complete(0, f[0])
    BY <2>6, Zenon DEF Complete
  <2> QED
    BY <2>4, <2>5, <2>7 DEF Clustered
<1>6. ASSUME NEW n \in Nat, n \in S PROVE n + 1 \in S
  <2> SUFFICES ASSUME n + 1 <= L PROVE Clustered(pts, n + 1, f[n + 1])
    OBVIOUS
  <2>1. n <= L /\ n + 1 \in 0..L /\ n + 1 # 0 /\ (n + 1) - 1 = n /\ n + 1 \in DOMAIN pts
    BY <1>1
  <2>2. Clustered(pts, n, f[n])
    BY <1>6, <2>1
  <2>3. f[n + 1] = Visit(pts, f[n], n + 1)
    BY <1>4, <2>1
  <2> QED
    BY <2>1, <2>2, <2>3, VisitKeeps
<1> HIDE DEF S
<1>7. Nat \subseteq S
  BY <1>5, <1>6, Induct
<1>8. Clustered(pts, L, f[L])
  <2>1. L <= L
    BY <1>1
  <2> QED
    BY <1>1, <1>7, <2>1 DEF S
<1>9. f[L].clusters < MaxObjects => \A i \in Core(pts) : f[L].labels[i] >= 0
  <2> SUFFICES ASSUME f[L].clusters < MaxObjects, NEW i \in Core(pts)
               PROVE  f[L].labels[i] >= 0
    BY Zenon
  <2>1. i \in DOMAIN pts
    BY Zenon DEF Core
  <2>2. f[L].labels[i] # Unvisited
    BY <1>1, <1>8, <2>1, Zenon DEF Clustered, Complete
  <2> QED
    BY <1>8, <2>1, <2>2, Zenon DEF Clustered, Labelled
<1>10. /\ Separate(pts, Detect(pts)) /\ Dense(pts, Detect(pts))
       /\ Detect(pts).clusters < MaxObjects =>
              \A i \in Core(pts) : Detect(pts).labels[i] >= 0
  BY <1>3, <1>8, <1>9 DEF Clustered
<1> QED
  BY <1>10, Zenon DEF ClustersSound, Separate, Dense, HasCore

(***************************************************************************)
(* Where every dense point spreads.                                        *)
(***************************************************************************)
Ample(pts) == \A i \in Core(pts) : Cardinality(Near(pts, i)) >= MinPts

\* Dense points that are near each other have one label, and those with one
\* label are joined by dense points.
OneLabel(pts, labels) ==
    \A i \in Core(pts) : labels[i] >= 0 =>
        \A j \in Core(pts) \cap Near(pts, i) : labels[j] = labels[i]

Chained(pts, labels) ==
    \A i \in Core(pts) : labels[i] >= 0 =>
        \A j \in Core(pts) : labels[j] = labels[i] => j \in Linked(pts, Core(pts), i)

Standard(pts, s) == OneLabel(pts, s.labels) /\ Chained(pts, s.labels)

LEMMA VisitedChained ==
    ASSUME NEW pts \in Points, ClusterLimits, NEW labels, NEW start \in Core(pts),
           NEW i \in Core(pts), NEW j \in Core(pts),
           i \in Expansion(pts, labels, start), j \in Expansion(pts, labels, start)
    PROVE  j \in Linked(pts, Core(pts), i)
<1> DEFINE V == Expansion(pts, labels, start)
<1>1. Core(pts) \subseteq DOMAIN pts
  BY DEF Core
<1>2. V \subseteq DOMAIN pts
  BY <1>1, ExpansionIs
<1>3. ASSUME NEW T, start \in T, \A q \in T \cap Core(pts) : Near(pts, q) \subseteq T,
             T \subseteq DOMAIN pts
      PROVE  V \subseteq T
  <2>1. ASSUME NEW q \in T, q = start \/ Spreads(pts, labels, q)
        PROVE  Near(pts, q) \subseteq T
    <3>1. q \in Core(pts)
      BY <1>3, <2>1, SpreadsCore
    <3> QED
      BY <1>3, <3>1
  <2> QED
    BY <1>1, <1>3, <2>1, ExpansionIs
<1>4. ASSUME NEW S \in SUBSET DOMAIN pts, i \in S,
             \A q \in S \cap Core(pts) : Near(pts, q) \subseteq S
      PROVE  j \in S
  <2>1. start \in S
    <3> SUFFICES ASSUME start \notin S PROVE FALSE
      OBVIOUS
    <3> DEFINE T == {q \in DOMAIN pts : q \notin S \/ q \notin Core(pts)}
    <3>1. ASSUME NEW q \in T \cap Core(pts), NEW r \in Near(pts, q) PROVE r \in T
      <4>1. q \in DOMAIN pts /\ q \notin S
        BY <3>1
      <4>2. r \in DOMAIN pts /\ q \in Near(pts, r)
        BY <3>1, <4>1, NearMutual
      <4>3. ~(r \in S /\ r \in Core(pts))
        BY <1>4, <4>1, <4>2
      <4> QED
        BY <4>2, <4>3
    <3>2. start \in T /\ T \subseteq DOMAIN pts
      BY <1>1
    <3>3. i \notin T
      BY <1>4
    <3> HIDE DEF T
    <3>4. V \subseteq T
      BY <1>3, <3>1, <3>2
    <3> QED
      BY <3>3, <3>4
  <2>2. V \subseteq S
    BY <1>3, <1>4, <2>1
  <2> QED
    BY <2>2
<1> HIDE DEF V
<1> QED
  BY <1>1, <1>4, Zenon DEF Linked

LEMMA StandardKeeps ==
    ASSUME NEW pts \in Points, ClusterLimits, Ample(pts), NEW i \in DOMAIN pts, NEW s,
           Labelled(pts, s), Standard(pts, s)
    PROVE  Standard(pts, Visit(pts, s, i))
<1> DEFINE t == Visit(pts, s, i)
<1>0. Core(pts) \subseteq DOMAIN pts
  BY DEF Core
<1>1. CASE s.labels[i] # Unvisited \/ s.clusters >= MaxObjects
  <2>1. t = s
    BY <1>1 DEF Visit
  <2> QED
    BY <2>1
<1>2. CASE ~(s.labels[i] # Unvisited \/ s.clusters >= MaxObjects)
           /\ Cardinality(Near(pts, i)) + 1 < MinPts
  <2>1. t = [labels |-> [s.labels EXCEPT ![i] = Noise], clusters |-> s.clusters]
    BY <1>2 DEF Visit
  <2>2. i \notin Core(pts)
    BY <1>2, SpreadsCore
  <2>3. s.labels \in [DOMAIN pts -> Int]
    BY DEF Labelled
  <2>4. \A q \in DOMAIN pts : q # i => t.labels[q] = s.labels[q]
    BY <2>1, <2>3
  <2> HIDE DEF t
  <2>5. \A q \in Core(pts) : t.labels[q] = s.labels[q]
    BY <1>0, <2>2, <2>4, Zenon
  <2>6. OneLabel(pts, t.labels)
    BY <2>5, Zenon DEF Standard, OneLabel
  <2>7. Chained(pts, t.labels)
    BY <2>5, Zenon DEF Standard, Chained
  <2> QED
    BY <2>6, <2>7 DEF Standard, t
<1>3. CASE ~(s.labels[i] # Unvisited \/ s.clusters >= MaxObjects)
           /\ ~(Cardinality(Near(pts, i)) + 1 < MinPts)
  <2> DEFINE V == Expansion(pts, s.labels, i)
             Taken(q) == q \in V /\ s.labels[q] < 0
  <2>1. t = [labels |-> [q \in DOMAIN pts |-> IF Taken(q) THEN s.clusters ELSE s.labels[q]],
             clusters |-> s.clusters + 1]
    BY <1>3 DEF Visit
  <2>2. i \in Core(pts)
    BY <1>3, SpreadsCore
  <2>3. s.labels \in [DOMAIN pts -> Int] /\ s.clusters \in Nat
        /\ \A q \in DOMAIN pts : s.labels[q] < s.clusters
    BY DEF Labelled
  <2>4. \A q \in DOMAIN pts : /\ Taken(q) => t.labels[q] = s.clusters
                              /\ ~Taken(q) => t.labels[q] = s.labels[q]
    BY <2>1
  <2>5. \A q \in V : Spreads(pts, s.labels, q) => Near(pts, q) \subseteq V
    BY ExpansionIs
  <2>6. \A q : Taken(q) => q \in V /\ s.labels[q] < 0
    OBVIOUS
  <2>7. \A q : q \in V /\ s.labels[q] < 0 => Taken(q)
    OBVIOUS
  <2>8. \A p, q \in Core(pts) : p \in V /\ q \in V => q \in Linked(pts, Core(pts), p)
    BY <2>2, VisitedChained
  <2> HIDE DEF Taken, V, t
  <2>9. ASSUME NEW q \in DOMAIN pts
        PROVE  /\ ~Taken(q) => t.labels[q] # s.clusters
               /\ s.labels[q] < 0 <=> ~(s.labels[q] >= 0)
    <3>1. s.labels[q] \in Int /\ s.labels[q] < s.clusters
      BY <2>3
    <3> QED
      BY <2>3, <2>4, <3>1
  <2>10. OneLabel(pts, t.labels)
    <3> SUFFICES ASSUME NEW p \in Core(pts), t.labels[p] >= 0,
                        NEW q \in Core(pts), q \in Near(pts, p)
                 PROVE  t.labels[q] = t.labels[p]
      BY Zenon DEF OneLabel
    <3>1. p \in DOMAIN pts /\ q \in DOMAIN pts /\ p \in Near(pts, q)
      BY <1>0, NearMutual
    \* Of two that are near each other neither was labelled without the other.
    <3>2. s.labels[p] >= 0 => s.labels[q] = s.labels[p]
      BY Zenon DEF Standard, OneLabel
    <3>3. s.labels[q] >= 0 => s.labels[p] = s.labels[q]
      BY <3>1, Zenon DEF Standard, OneLabel
    <3>4. CASE Taken(p)
      <4>1. p \in V /\ s.labels[p] < 0
        BY <2>6, <3>4, Zenon
      <4>2. Spreads(pts, s.labels, p)
        BY <4>1, Zenon DEF Spreads, Ample
      <4>3. q \in V
        BY <2>5, <4>1, <4>2, Zenon
      <4>4. ~(s.labels[p] >= 0)
        BY <2>9, <3>1, <4>1, Zenon
      <4>5. ~(s.labels[q] >= 0)
        BY <3>3, <4>4, Zenon
      <4>6. s.labels[q] < 0
        BY <2>9, <3>1, <4>5, Zenon
      <4>7. Taken(q)
        BY <2>7, <4>3, <4>6, Zenon
      <4> QED
        BY <2>4, <3>1, <3>4, <4>7, Zenon
    <3>5. CASE ~Taken(p)
      <4>1. t.labels[p] = s.labels[p] /\ s.labels[p] >= 0
        BY <2>4, <3>1, <3>5, Zenon
      <4>2. s.labels[q] = s.labels[p]
        BY <3>2, <4>1, Zenon
      <4>3. ~(s.labels[q] < 0)
        BY <2>9, <3>1, <4>1, <4>2, Zenon
      <4>4. ~Taken(q)
        BY <2>6, <4>3, Zenon
      <4> QED
        BY <2>4, <3>1, <4>1, <4>2, <4>4, Zenon
    <3> QED
      BY <3>4, <3>5
  <2>11. Chained(pts, t.labels)
    <3> SUFFICES ASSUME NEW p \in Core(pts), t.labels[p] >= 0,
                        NEW q \in Core(pts), t.labels[q] = t.labels[p]
                 PROVE  q \in Linked(pts, Core(pts), p)
      BY Zenon DEF Chained
    <3>1. p \in DOMAIN pts /\ q \in DOMAIN pts
      BY <1>0
    <3>2. Taken(p) <=> Taken(q)
      BY <2>4, <2>9, <3>1, Zenon
    <3>3. CASE Taken(p)
      BY <2>6, <2>8, <3>2, <3>3, Zenon
    <3>4. CASE ~Taken(p)
      <4>1. t.labels[p] = s.labels[p] /\ t.labels[q] = s.labels[q]
        BY <2>4, <3>1, <3>2, <3>4, Zenon
      <4>2. s.labels[p] >= 0 /\ s.labels[q] = s.labels[p]
        BY <4>1, Zenon
      <4> QED
        BY <4>2, Zenon DEF Standard, Chained
    <3> QED
      BY <3>3, <3>4
  <2> QED
    BY <2>10, <2>11 DEF Standard, t
<1> QED
  BY <1>1, <1>2, <1>3

(***************************************************************************)
(* Where every dense point has a neighbour more than it needs, and there   *)
(* are not too many clusters, detect() computes what DBSCAN defines: dense *)
(* points are in one cluster exactly if dense points join them.            *)
(***************************************************************************)
THEOREM ClusteringStandard ==
    ASSUME NEW pts \in Points, ClusterLimits
    PROVE  ClustersStandard(pts)
<1> DEFINE L == Len(pts)
           f == CHOOSE after : Visited(pts, L, after)
           S == {n \in Nat : n <= L => Clustered(pts, n, f[n]) /\ Standard(pts, f[n])}
           labels == Detect(pts).labels
<1> SUFFICES ASSUME Detect(pts).clusters < MaxObjects, Ample(pts), NEW i \in Core(pts)
             PROVE  {j \in Core(pts) : labels[j] = labels[i]}
                      = Core(pts) \cap Linked(pts, Core(pts), i)
  BY Zenon DEF ClustersStandard, Ample
<1>1. L \in Nat /\ DOMAIN pts = 1..L
  BY DEF Points
<1>2. Visited(pts, L, f)
  BY <1>1, VisitsExist
<1>3. Detect(pts) = f[L]
  BY DEF Detect, Visited
<1> HIDE DEF f, labels
<1>4. \A n \in 0..L : f[n] = IF n = 0
                             THEN [labels |-> [k \in DOMAIN pts |-> Unvisited], clusters |-> 0]
                             ELSE Visit(pts, f[n - 1], n)
  BY <1>2 DEF Visited
<1>5. 0 \in S
  <2>1. f[0].labels = [k \in DOMAIN pts |-> Unvisited] /\ f[0].clusters = 0
    BY <1>1, <1>4
  <2>2. \A q \in DOMAIN pts : f[0].labels[q] = Unvisited
    BY <2>1
  <2>3. Unvisited \in Int /\ Unvisited < 0 /\ ~(Unvisited >= 0)
    BY DEF Unvisited
  <2>4. Labelled(pts, f[0])
    BY <2>1, <2>2, <2>3 DEF Labelled
  <2>5. Separate(pts, f[0]) /\ Dense(pts, f[0])
    BY <2>2, <2>3, Zenon DEF Separate, Dense
  <2>6. 1..0 = {}
    OBVIOUS
  <2>7. Complete(0, f[0])
    BY <2>6, Zenon DEF Complete
  <2>8. \A q \in Core(pts) : ~(f[0].labels[q] >= 0)
    BY <2>2, <2>3, Zenon DEF Core
  <2>9. OneLabel(pts, f[0].labels) /\ Chained(pts, f[0].labels)
    BY <2>8, Zenon DEF OneLabel, Chained
  <2> QED
    BY <2>4, <2>5, <2>7, <2>9 DEF Clustered, Standard
<1>6. ASSUME NEW n \in Nat, n \in S PROVE n + 1 \in S
  <2> SUFFICES ASSUME n + 1 <= L
               PROVE  Clustered(pts, n + 1, f[n + 1]) /\ Standard(pts, f[n + 1])
    OBVIOUS
  <2>1. n <= L /\ n + 1 \in 0..L /\ n + 1 # 0 /\ (n + 1) - 1 = n /\ n + 1 \in DOMAIN pts
    BY <1>1
  <2>2. Clustered(pts, n, f[n]) /\ Standard(pts, f[n])
    BY <1>6, <2>1
  <2>3. f[n + 1] = Visit(pts, f[n], n + 1)
    BY <1>4, <2>1
  <2>4. Clustered(pts, n + 1, f[n + 1])
    BY <2>1, <2>2, <2>3, VisitKeeps
  <2>5. Labelled(pts, f[n])
    BY <2>2 DEF Clustered
  <2>6. Standard(pts, f[n + 1])
    BY <2>1, <2>2, <2>3, <2>5, StandardKeeps
  <2> QED
    BY <2>4, <2>6
<1> HIDE DEF S
<1>7. Nat \subseteq S
  BY <1>5, <1>6, Induct
<1>8. Clustered(pts, L, f[L]) /\ Standard(pts, f[L])
  <2>1. L <= L
    BY <1>1
  <2> QED
    BY <1>1, <1>7, <2>1 DEF S
<1>9. OneLabel(pts, labels) /\ Chained(pts, labels)
  BY <1>3, <1>8 DEF Standard, labels
<1>10. ClustersSound(pts)
  BY ClusteringSound
<1>11. \A q \in Core(pts) : labels[q] >= 0
  BY <1>10 DEF ClustersSound, labels
<1>12. Core(pts) \subseteq DOMAIN pts
  BY DEF Core
<1>13. ASSUME NEW j \in Core(pts), labels[j] = labels[i]
       PROVE  j \in Linked(pts, Core(pts), i)
  BY <1>9, <1>11, <1>13, Zenon DEF Chained
<1>14. ASSUME NEW j \in Core(pts), j \in Linked(pts, Core(pts), i)
       PROVE  labels[j] = labels[i]
  <2> DEFINE R == {q \in DOMAIN pts : q \in Core(pts) => labels[q] = labels[i]}
  <2>1. R \in SUBSET DOMAIN pts /\ i \in R
    BY <1>12
  <2>2. ASSUME NEW q \in R \cap Core(pts), NEW r \in Near(pts, q) PROVE r \in R
    <3>1. r \in DOMAIN pts
      BY NearFinite
    <3>2. labels[q] = labels[i] /\ labels[q] >= 0
      BY <1>11, <2>2
    <3>3. r \in Core(pts) => labels[r] = labels[q]
      BY <1>9, <2>2, <3>2, Zenon DEF OneLabel
    <3> QED
      BY <3>1, <3>2, <3>3
  <2> HIDE DEF R
  <2>3. j \in R
    BY <1>14, <2>1, <2>2, Zenon DEF Linked
  <2> QED
    BY <1>14, <2>3 DEF R
<1> QED
  BY <1>13, <1>14, Zenon
=============================================================================
