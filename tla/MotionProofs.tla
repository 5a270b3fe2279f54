------------------------------ MODULE MotionProofs ------------------------------
(***************************************************************************)
(* Theorems about the collision guard and what moves the base, for every   *)
(* set of scans, speeds, beams, distances, limits and timeouts; and, below *)
(* them, about the avoidance and the path tracker, for every input.        *)
(***************************************************************************)
EXTENDS Motion, VfhAvoidance, PurePursuit, FiniteSetTheorems,
        WellFoundedInduction, TLAPS

\* The smaller and the larger of two numbers.
LEMMA MinOfTwo ==
    ASSUME NEW a \in Int, NEW b \in Int
    PROVE  Min({a, b}) = IF a <= b THEN a ELSE b
<1> DEFINE m == IF a <= b THEN a ELSE b
<1>1. m \in {a, b} /\ \A y \in {a, b} : m <= y
  OBVIOUS
<1>2. \A x \in {a, b} : (\A y \in {a, b} : x <= y) => x = m
  OBVIOUS
<1> QED
  BY <1>1, <1>2 DEF Min

LEMMA MaxOfTwo ==
    ASSUME NEW a \in Int, NEW b \in Int
    PROVE  Max({a, b}) = IF a >= b THEN a ELSE b
<1> DEFINE m == IF a >= b THEN a ELSE b
<1>1. m \in {a, b} /\ \A y \in {a, b} : m >= y
  OBVIOUS
<1>2. \A x \in {a, b} : (\A y \in {a, b} : x >= y) => x = m
  OBVIOUS
<1> QED
  BY <1>1, <1>2 DEF Max

\* The smallest of a set of distances.
LEMMA MinOfDistances ==
    ASSUME NEW S \in SUBSET Nat, S # {}
    PROVE  Min(S) \in S /\ \A y \in S : Min(S) <= y
<1>1. \E x \in S : \A y \in S : ~(<<y, x>> \in OpToRel(<, Nat))
  BY NatLessThanWellFounded, WFMin, Zenon
<1>2. ASSUME NEW x \in Nat, NEW y \in Nat, y < x
      PROVE  <<y, x>> \in OpToRel(<, Nat)
  BY <1>2, Zenon DEF OpToRel
<1>3. PICK x \in S : \A y \in S : ~(<<y, x>> \in OpToRel(<, Nat))
  BY <1>1, Zenon
<1>4. ASSUME NEW y \in S
      PROVE  ~(y < x)
  BY <1>2, <1>3, Zenon
<1>5. \A y \in S : x <= y
  BY <1>4
<1> QED
  BY <1>3, <1>5 DEF Min

\* A part of a speed, as the guard computes it, is a speed and not above it.
LEMMA PartOf ==
    ASSUME NEW v \in Nat, NEW part \in Nat, NEW whole \in Nat \ {0}, part <= whole
    PROVE  (v * part) \div whole \in 0..v
<1>1. v * part \in Nat /\ v * part <= v * whole
  OBVIOUS
<1>2. ASSUME NEW p \in Nat, p <= v * whole
      PROVE  p \div whole \in 0..v
  <2> DEFINE q == p \div whole
  <2>1. q \in Int /\ whole * q <= p /\ p < whole * (q + 1)
    OBVIOUS
  <2> HIDE DEF q
  <2>2. ~(q > v)
    <3> SUFFICES ASSUME q >= v + 1 PROVE FALSE
      BY <2>1
    <3>1. whole * q >= whole * (v + 1)
      BY <2>1
    <3>2. whole * (v + 1) = v * whole + whole
      OBVIOUS
    <3> QED
      BY <1>2, <2>1, <3>1, <3>2
  <2>3. ~(q < 0)
    <3> SUFFICES ASSUME q + 1 <= 0 PROVE FALSE
      BY <2>1
    <3>1. whole * (q + 1) <= 0
      BY <2>1
    <3> QED
      BY <2>1, <3>1
  <2>4. q \in 0..v
    BY <2>1, <2>2, <2>3
  <2> QED
    BY <2>4 DEF q
<1> QED
  BY <1>1, <1>2

-----------------------------------------------------------------------------
\* A guard that is in type; one that has had no scan holds no ranges.
GuardTyped(g) ==
    /\ g \in [ranges : Seq(Nat), recv : Int, ok : Int, stop : BOOLEAN]
    /\ g.recv >= Never /\ g.ok >= Never
    /\ g.recv = Never => g.ranges = <<>>

\* Distances and limits as the guard's parameters give them.
LEMMA GuardConstants ==
    /\ StopDist \in Nat /\ SafeDist \in Nat /\ StopDist < SafeDist
    /\ SafeDist < OpenField /\ StaleTimeout \in Nat /\ HoldLimit \in Nat
    /\ MinValidEchoes \in Nat /\ CrawlSpeed \in Nat /\ OpenField \in Nat
  BY GuardAssumption DEF OpenField

\* The echoes within the field of view.
EchoesAhead(g) ==
    {g.ranges[i] : i \in {j \in DOMAIN g.ranges : j \in Ahead /\ g.ranges[j] # NoEcho}}

\* What is seen ahead is a distance, and no echo ahead is nearer.
LEMMA NearestFacts ==
    ASSUME NEW g, GuardTyped(g)
    PROVE  /\ NearestInFov(g) \in Nat
           /\ \A i \in Ahead \cap DOMAIN g.ranges :
                 g.ranges[i] # NoEcho => NearestInFov(g) <= g.ranges[i]
           /\ g.recv = Never => NearestInFov(g) = OpenField
<1> DEFINE E == EchoesAhead(g)
<1>1. NearestInFov(g) = IF E = {} THEN OpenField ELSE Min(E)
  BY DEF NearestInFov, EchoesAhead
<1>2. g.ranges \in Seq(Nat)
  BY DEF GuardTyped
<1>3. \A i \in DOMAIN g.ranges : g.ranges[i] \in Nat
  BY <1>2
<1>4. E \in SUBSET Nat
  BY <1>3 DEF EchoesAhead
<1>5. \A i \in Ahead \cap DOMAIN g.ranges : g.ranges[i] # NoEcho => g.ranges[i] \in E
  BY DEF EchoesAhead
<1>6. g.recv = Never => E = {}
  BY DEF GuardTyped, EchoesAhead
<1> HIDE DEF E
<1>7. E # {} => Min(E) \in Nat /\ \A y \in E : Min(E) <= y
  BY <1>4, MinOfDistances
<1> QED
  BY <1>1, <1>5, <1>6, <1>7, GuardConstants

\* The echoes of a scan can be counted.
LEMMA EchoCount ==
    ASSUME NEW ranges \in Seq(Nat)
    PROVE  Cardinality({i \in DOMAIN ranges : ranges[i] # NoEcho}) \in Nat
<1>1. DOMAIN ranges = 1..Len(ranges) /\ Len(ranges) \in Int
  OBVIOUS
<1>2. IsFiniteSet(DOMAIN ranges)
  BY <1>1, FS_Interval
<1>3. {i \in DOMAIN ranges : ranges[i] # NoEcho} \in SUBSET DOMAIN ranges
  OBVIOUS
<1>4. IsFiniteSet({i \in DOMAIN ranges : ranges[i] # NoEcho})
  BY <1>2, <1>3, FS_Subset
<1> QED
  BY <1>4, FS_CardinalityType

(***************************************************************************)
(* clamp() lets the robot move, once a scan has come, only on a scan that  *)
(* is fresh, is not blind and shows nothing within the stopping distance.  *)
(***************************************************************************)
LEMMA MovesBySight ==
    ASSUME NEW g, GuardTyped(g), g.recv # Never, ~MustStop(g)
    PROVE  g.recv <= StaleTimeout /\ Clear(g.ranges)
<1>1. g.ranges \in Seq(Nat) /\ g.recv \in Int
  BY DEF GuardTyped
<1>2. g.recv <= StaleTimeout /\ g.ranges # <<>>
  BY <1>1, GuardConstants DEF MustStop, Stale
<1>3. NearestInFov(g) > StopDist
  BY NearestFacts, GuardConstants DEF MustStop
<1>4. ASSUME NEW i \in Ahead \cap DOMAIN g.ranges, g.ranges[i] # NoEcho
      PROVE  g.ranges[i] > StopDist
  <2>1. g.ranges[i] \in Nat
    BY <1>1
  <2> QED
    BY <1>3, <1>4, <2>1, NearestFacts, GuardConstants
<1>5. Cardinality({i \in DOMAIN g.ranges : g.ranges[i] # NoEcho}) >= MinValidEchoes
  <2> DEFINE n == Cardinality({i \in DOMAIN g.ranges : g.ranges[i] # NoEcho})
  <2>1. n \in Nat
    BY <1>1, EchoCount
  <2>2. ~(MinValidEchoes > 0 /\ n < MinValidEchoes)
    BY DEF MustStop, CountValid, Quantify
  <2> HIDE DEF n
  <2>3. n >= MinValidEchoes
    BY <2>1, <2>2, GuardConstants
  <2> QED
    BY <2>3 DEF n
<1> QED
  BY <1>2, <1>4, <1>5 DEF Clear

\* clamp() returns a speed that is not above the one asked for.
LEMMA ClampedSpeed ==
    ASSUME NEW g, GuardTyped(g), NEW v \in Nat
    PROVE  Clamped(g, v) \in 0..v
<1>1. CASE MustStop(g)
  BY <1>1 DEF Clamped
<1>2. CASE ~MustStop(g) /\ NearestInFov(g) <= SafeDist
  <2> DEFINE n == NearestInFov(g)
  <2>1. n \in Nat /\ n <= SafeDist
    BY <1>2, NearestFacts
  <2>2. n > StopDist
    BY <1>2, NearestFacts, GuardConstants DEF MustStop
  <2>3. Clamped(g, v) = (v * (n - StopDist)) \div (SafeDist - StopDist)
    BY <1>2 DEF Clamped
  <2> HIDE DEF n
  <2>4. /\ n - StopDist \in Nat /\ SafeDist - StopDist \in Nat \ {0}
        /\ n - StopDist <= SafeDist - StopDist
    BY <2>1, <2>2, GuardConstants
  <2> QED
    BY <2>3, <2>4, PartOf
<1>3. CASE ~MustStop(g) /\ ~(NearestInFov(g) <= SafeDist)
  BY <1>3 DEF Clamped
<1> QED
  BY <1>1, <1>2, <1>3

\* A guard is put together from fields that are in type.
LEMMA GuardRecord ==
    ASSUME NEW r \in Seq(Nat), NEW recv \in Int, NEW ok \in Int,
           NEW stop \in BOOLEAN, recv >= Never, ok >= Never,
           recv = Never => r = <<>>
    PROVE  GuardTyped([ranges |-> r, recv |-> recv, ok |-> ok, stop |-> stop])
  BY DEF GuardTyped

\* A time point just set is not the one of no time.
LEMMA NowIsNotNever == 0 >= Never /\ 0 # Never /\ 0 \in Int
  BY DEF Never

\* A guard is put together from its fields.
LEMMA GuardFields ==
    ASSUME NEW g, GuardTyped(g)
    PROVE  /\ g = [ranges |-> g.ranges, recv |-> g.recv, ok |-> g.ok, stop |-> g.stop]
           /\ g.ranges \in Seq(Nat) /\ g.recv \in Int /\ g.ok \in Int
           /\ g.stop \in BOOLEAN /\ g.recv >= Never /\ g.ok >= Never
           /\ g.recv = Never => g.ranges = <<>>
  BY Zenon DEF GuardTyped

\* Two fields of a guard are replaced.
LEMMA GuardExcept ==
    ASSUME NEW g, GuardTyped(g), NEW a, NEW b
    PROVE  /\ [g EXCEPT !.ranges = a, !.recv = b] =
                 [ranges |-> a, recv |-> b, ok |-> g.ok, stop |-> g.stop]
           /\ [g EXCEPT !.ok = a, !.stop = b] =
                 [ranges |-> g.ranges, recv |-> g.recv, ok |-> a, stop |-> b]
<1> DEFINE r == g.ranges
           t == g.recv
           k == g.ok
           s == g.stop
<1>1. g = [ranges |-> r, recv |-> t, ok |-> k, stop |-> s]
  BY GuardFields
<1> HIDE DEF r, t, k, s
<1>2. [g EXCEPT !.ranges = a, !.recv = b] =
        [ranges |-> a, recv |-> b, ok |-> k, stop |-> s]
  <2> DEFINE h == [g EXCEPT !.ranges = a]
  <2>1. h = [ranges |-> a, recv |-> t, ok |-> k, stop |-> s]
    BY <1>1
  <2>2. [g EXCEPT !.ranges = a, !.recv = b] = [h EXCEPT !.recv = b]
    OBVIOUS
  <2> HIDE DEF h
  <2> QED
    BY <2>1, <2>2
<1>3. [g EXCEPT !.ok = a, !.stop = b] =
        [ranges |-> r, recv |-> t, ok |-> a, stop |-> b]
  <2> DEFINE h == [g EXCEPT !.ok = a]
  <2>1. h = [ranges |-> r, recv |-> t, ok |-> a, stop |-> s]
    BY <1>1
  <2>2. [g EXCEPT !.ok = a, !.stop = b] = [h EXCEPT !.stop = b]
    OBVIOUS
  <2> HIDE DEF h
  <2> QED
    BY <2>1, <2>2
<1> QED
  BY <1>2, <1>3 DEF r, t, k, s

\* What each operation on a guard leaves of it.
LEMMA InitialGuardFacts ==
    GuardTyped(InitialGuard) /\ InitialGuard.recv = Never
  BY DEF GuardTyped, InitialGuard, Never

LEMMA SetScanFacts ==
    ASSUME NEW g, GuardTyped(g), NEW r \in Seq(Nat)
    PROVE  /\ GuardTyped(SetScan(g, r)) /\ SetScan(g, r).recv = 0
           /\ SetScan(g, r).ranges = r /\ SetScan(g, r).ok = g.ok
<1>1. SetScan(g, r) = [ranges |-> r, recv |-> 0, ok |-> g.ok, stop |-> g.stop]
  BY GuardExcept DEF SetScan
<1> QED
  BY <1>1, GuardFields, GuardRecord, NowIsNotNever

LEMMA ClearHoldFacts ==
    ASSUME NEW g, GuardTyped(g)
    PROVE  /\ GuardTyped(ClearHold(g)) /\ ClearHold(g).ok = 0
           /\ ClearHold(g).recv = g.recv /\ ClearHold(g).ranges = g.ranges
<1>1. ClearHold(g) =
        [ranges |-> g.ranges, recv |-> g.recv, ok |-> 0, stop |-> FALSE]
  BY GuardExcept DEF ClearHold
<1>2. GuardTyped(ClearHold(g))
  <2> DEFINE no == FALSE
  <2>1. /\ g.ranges \in Seq(Nat) /\ g.recv \in Int /\ g.recv >= Never
        /\ g.recv = Never => g.ranges = <<>>
    BY GuardFields
  <2>2. ClearHold(g) =
          [ranges |-> g.ranges, recv |-> g.recv, ok |-> 0, stop |-> no]
        /\ no \in BOOLEAN
    BY <1>1
  <2> HIDE DEF no
  <2> QED
    BY <2>1, <2>2, GuardRecord, NowIsNotNever
<1> QED
  BY <1>1, <1>2

LEMMA AfterClampFacts ==
    ASSUME NEW g, GuardTyped(g), NEW v \in Nat
    PROVE  /\ GuardTyped(AfterClamp(g, v)) /\ AfterClamp(g, v).recv = g.recv
           /\ AfterClamp(g, v).ranges = g.ranges
           /\ \/ AfterClamp(g, v).ok = 0
              \/ /\ AfterClamp(g, v).ok = g.ok
                 /\ Pressed(g) /\ ~(Clamped(g, v) >= CrawlSpeed)
           /\ Pressed(g) /\ ~(Clamped(g, v) >= CrawlSpeed) =>
                 AfterClamp(g, v).ok = g.ok
<1>1. MustStop(g) \in BOOLEAN
  BY DEF MustStop
<1> DEFINE free == ~Pressed(g) \/ Clamped(g, v) >= CrawlSpeed
           s == MustStop(g)
<1>2. AfterClamp(g, v) = [g EXCEPT !.stop = s, !.ok = IF free THEN 0 ELSE @]
  BY DEF AfterClamp
<1>3. s \in BOOLEAN
  BY <1>1
<1> HIDE DEF s
<1>4. CASE free
  <2>1. AfterClamp(g, v) = [g EXCEPT !.stop = s, !.ok = 0]
    BY <1>2, <1>4
  <2>2. /\ GuardTyped(AfterClamp(g, v)) /\ AfterClamp(g, v).recv = g.recv
        /\ AfterClamp(g, v).ranges = g.ranges /\ AfterClamp(g, v).ok = 0
    <3> HIDE DEF free
    <3>1. AfterClamp(g, v) =
            [ranges |-> g.ranges, recv |-> g.recv, ok |-> 0, stop |-> s]
      BY <2>1 DEF GuardTyped
    <3> QED
      BY <1>3, <3>1, GuardFields, GuardRecord, NowIsNotNever
  <2> QED
    BY <1>4, <2>2
<1>5. CASE ~free
  <2>1. AfterClamp(g, v) = [g EXCEPT !.stop = s, !.ok = @]
    BY <1>2, <1>5
  <2>2. /\ GuardTyped(AfterClamp(g, v)) /\ AfterClamp(g, v).recv = g.recv
        /\ AfterClamp(g, v).ranges = g.ranges /\ AfterClamp(g, v).ok = g.ok
    <3> HIDE DEF free
    <3> QED
      BY <1>3, <2>1 DEF GuardTyped, Never
  <2> QED
    BY <1>5, <2>2
<1> QED
  BY <1>4, <1>5

LEMMA OlderFacts ==
    ASSUME NEW g, GuardTyped(g)
    PROVE  /\ GuardTyped(Older(g)) /\ Older(g).ranges = g.ranges
           /\ Older(g).recv = IF g.recv = Never THEN Never
                              ELSE IF g.recv < StaleTimeout THEN g.recv + 1
                              ELSE StaleTimeout + 1
           /\ Older(g).ok = IF g.ok = Never THEN Never
                            ELSE IF g.ok < HoldLimit THEN g.ok + 1
                            ELSE HoldLimit + 1
<1>1. /\ g \in [ranges : Seq(Nat), recv : Int, ok : Int, stop : BOOLEAN]
      /\ g.recv \in Int /\ g.ok \in Int /\ g.recv >= Never /\ g.ok >= Never
      /\ g.recv = Never => g.ranges = <<>>
  BY DEF GuardTyped
<1>2. /\ Min({g.recv + 1, StaleTimeout + 1}) =
            IF g.recv < StaleTimeout THEN g.recv + 1 ELSE StaleTimeout + 1
      /\ Min({g.ok + 1, HoldLimit + 1}) =
            IF g.ok < HoldLimit THEN g.ok + 1 ELSE HoldLimit + 1
  <2>1. ASSUME NEW a \in Int, NEW b \in Nat
        PROVE  Min({a + 1, b + 1}) = IF a < b THEN a + 1 ELSE b + 1
    BY MinOfTwo
  <2> QED
    BY <1>1, <2>1, GuardConstants
<1> DEFINE recv == IF g.recv = Never THEN Never
                   ELSE IF g.recv < StaleTimeout THEN g.recv + 1
                   ELSE StaleTimeout + 1
           ok == IF g.ok = Never THEN Never
                 ELSE IF g.ok < HoldLimit THEN g.ok + 1 ELSE HoldLimit + 1
<1>3. Older(g) = [g EXCEPT !.recv = recv, !.ok = ok]
  BY <1>1, <1>2 DEF Older
<1>4. /\ recv \in Int /\ ok \in Int /\ recv >= Never /\ ok >= Never
      /\ recv = Never => g.recv = Never
  BY <1>1, GuardConstants DEF Never
<1> HIDE DEF recv, ok
<1>5. /\ GuardTyped(Older(g)) /\ Older(g).ranges = g.ranges
      /\ Older(g).recv = recv /\ Older(g).ok = ok
  BY <1>1, <1>3, <1>4 DEF GuardTyped
<1> QED
  BY <1>5 DEF recv, ok

-----------------------------------------------------------------------------
Twist == [linear : Int, angular : BOOLEAN]

\* The constants of the base and of the smoother.
LEMMA MotionConstants ==
    /\ TopSpeed \in Nat /\ \A v \in Speed : v \in Nat /\ v <= TopSpeed
    /\ MaxAccel \in Nat \ {0} /\ MaxDecel \in Nat \ {0} /\ CmdTimeout \in Nat
    /\ Scan \subseteq Seq(Nat)
<1>1. /\ Speed \subseteq Nat \ {0}
      /\ \E top \in Speed : \A v \in Speed : v <= top
      /\ MaxAccel \in Nat \ {0} /\ MaxDecel \in Nat \ {0} /\ CmdTimeout \in Nat
      /\ Scan \subseteq Seq(Nat)
  BY MotionAssumption
<1>2. \E top \in Speed : \A v \in Speed : top >= v
  BY <1>1
<1>3. TopSpeed \in Speed /\ \A v \in Speed : TopSpeed >= v
  BY <1>2 DEF TopSpeed, Max
<1> QED
  BY <1>1, <1>3

\* The smoother stays between its arguments; braking, it goes down by MaxDecel.
LEMMA SmoothFacts ==
    ASSUME NEW desired \in 0..TopSpeed, NEW last \in 0..TopSpeed
    PROVE  /\ Smooth(desired, last) \in 0..TopSpeed
           /\ desired = 0 => Smooth(desired, last) =
                 IF last <= MaxDecel THEN 0 ELSE last - MaxDecel
<1>1. /\ desired \in Int /\ last \in Int /\ last + MaxAccel \in Int
      /\ last - MaxDecel \in Int /\ TopSpeed \in Nat
      /\ MaxAccel > 0 /\ MaxDecel > 0 /\ MaxAccel \in Int /\ MaxDecel \in Int
  BY MotionConstants
<1>2. Smooth(desired, last) =
        IF desired > last
        THEN IF desired <= last + MaxAccel THEN desired ELSE last + MaxAccel
        ELSE IF desired >= last - MaxDecel THEN desired ELSE last - MaxDecel
  BY <1>1, MinOfTwo, MaxOfTwo DEF Smooth
<1> QED
  BY <1>1, <1>2

(***************************************************************************)
(* publish_twist(): the base gets what motor_ctrl remembers, the speed     *)
(* stays within the top speed, and a request for no forward speed brakes   *)
(* by MaxDecel at least.                                                   *)
(***************************************************************************)
LEMMA PublishFacts ==
    ASSUME NEW linear \in 0..TopSpeed, NEW angular \in BOOLEAN,
           last_cmd \in Twist, last_cmd.linear \in 0..TopSpeed,
           PublishTwist(linear, angular)
    PROVE  /\ last_cmd' \in Twist /\ last_cmd'.linear \in 0..TopSpeed
           /\ base' = last_cmd' /\ cmd_age' = 0 /\ deserted' = 0
           /\ linear = 0 => \/ last_cmd'.linear = 0
                            \/ last_cmd'.linear = last_cmd.linear - MaxDecel
           /\ linear = 0 /\ ~angular => last_cmd' = Still
<1>1. base' = last_cmd' /\ cmd_age' = 0 /\ deserted' = 0
  BY DEF PublishTwist, Receive
<1>2. CASE linear = 0 /\ ~angular /\ last_cmd' = Still
  BY <1>1, <1>2, MotionConstants DEF Still, Twist
<1>3. CASE /\ linear # 0 \/ angular
           /\ \E spin \in {angular, angular \/ last_cmd.angular} :
                 last_cmd' = [linear |-> Smooth(linear, last_cmd.linear),
                              angular |-> spin]
  <2>1. PICK spin \in {angular, angular \/ last_cmd.angular} :
          last_cmd' = [linear |-> Smooth(linear, last_cmd.linear), angular |-> spin]
    BY <1>3
  <2>2. last_cmd.angular \in BOOLEAN
    BY DEF Twist
  <2>3. spin \in BOOLEAN
    BY <2>2
  <2> DEFINE s == Smooth(linear, last_cmd.linear)
  <2>4. /\ s \in 0..TopSpeed
        /\ linear = 0 => s = 0 \/ s = last_cmd.linear - MaxDecel
    BY SmoothFacts
  <2>5. last_cmd' = [linear |-> s, angular |-> spin] /\ last_cmd'.linear = s
    BY <2>1
  <2> HIDE DEF s
  <2>6. last_cmd' \in Twist
    BY <2>3, <2>4, <2>5, MotionConstants DEF Twist
  <2>7. ~(linear = 0 /\ ~angular)
    BY <1>3
  <2> QED
    BY <1>1, <2>4, <2>5, <2>6, <2>7
<1> QED
  BY <1>2, <1>3 DEF PublishTwist

\* A goal's requests, VFH's turns included, are within the top speed.
LEMMA AskedSpeed ==
    ASSUME NEW asked \in Asked
    PROVE  asked.linear \in 0..TopSpeed /\ asked.angular \in BOOLEAN
<1>1. CASE asked \in [linear : Speed, angular : BOOLEAN]
  BY <1>1, MotionConstants
<1>2. CASE asked \in [linear : {(v * 7) \div 10 : v \in Speed}, angular : {TRUE}]
  <2>1. PICK v \in Speed : asked.linear = (v * 7) \div 10
    BY <1>2
  <2>2. v \in Nat /\ v <= TopSpeed /\ TopSpeed \in Nat
    BY MotionConstants
  <2>3. (v * 7) \div 10 \in 0..TopSpeed
    BY <2>2
  <2>4. asked.angular = TRUE
    BY <1>2
  <2> QED
    BY <2>1, <2>3, <2>4
<1>3. CASE asked = [linear |-> 0, angular |-> TRUE]
  BY <1>3, MotionConstants
<1> QED
  BY <1>1, <1>2, <1>3 DEF Asked

\* The error monitor only ever reduces what the guard has let through.
LEMMA ScaledSpeed ==
    ASSUME NEW v \in 0..TopSpeed, NEW w \in BOOLEAN, NEW level \in TrackErrorLevel
    PROVE  /\ Scaled(v, w, level).linear \in 0..v
           /\ Scaled(v, w, level).angular \in BOOLEAN
<1>0. TopSpeed \in Nat /\ v \in Nat
  BY MotionConstants
<1>1. CASE level = "OK"
  BY <1>0, <1>1 DEF Scaled
<1>2. CASE level = "WARN"
  BY <1>0, <1>2 DEF Scaled
<1>3. CASE level = "ERROR"
  <2>1. Scaled(v, w, level) = Still
    BY <1>3 DEF Scaled
  <2>2. Still.linear = 0 /\ Still.angular = FALSE
    BY DEF Still
  <2> QED
    <3>1. 0 \in 0..v
      BY <1>0
    <3>2. FALSE \in BOOLEAN
      OBVIOUS
    <3> QED
      BY <2>1, <2>2, <3>1, <3>2, Zenon
<1> QED
  BY <1>1, <1>2, <1>3 DEF TrackErrorLevel

-----------------------------------------------------------------------------
(***************************************************************************)
(* The inductive invariant.                                                *)
(*                                                                         *)
(* Sight ties the history of what could be seen to the guard's own clock:  *)
(* a scan that shows the way is at least as old as `unseen` says.  Window  *)
(* ties the histories of a goal to the guard's hold timer, which every     *)
(* goal starts anew.  Braking bounds the speed of a base that sees nothing *)
(* by the number of turns the loop has had to brake, and NavBraking the    *)
(* age of the last command that still was one to move.  Deserting says     *)
(* that a command left by a process that is gone ages while it is gone.    *)
(***************************************************************************)
MotionTyped ==
    /\ stack \in {"own", "nav2"}
    /\ GuardTyped(guard)
    /\ phase \in {"idle", "executing", "gone"} /\ ran \in BOOLEAN
    /\ last_cmd \in Twist /\ base \in Twist
    /\ cmd_age \in Nat /\ goal_age \in Nat /\ held \in Nat /\ unseen \in Nat
    /\ deserted \in Nat

OwnStack ==
    /\ phase # "idle" => stack = "own"
    /\ stack = "own" =>
          /\ last_cmd.linear \in 0..TopSpeed
          /\ IF deserted = 0 THEN base = last_cmd ELSE last_cmd = Still

AtRest == stack = "own" /\ phase # "executing" => last_cmd = Still

Deserting == deserted # 0 => cmd_age > CmdTimeout \/ cmd_age + 1 >= deserted

Sight ==
    /\ guard.recv = Never => unseen = 0
    /\ guard.recv # Never /\ Clear(guard.ranges) =>
          guard.recv >= unseen \/ guard.recv > StaleTimeout

Window ==
    phase = "executing" =>
        /\ guard.ok >= 0 /\ guard.ok <= goal_age /\ held <= guard.ok
        /\ guard.ok <= HoldLimit + 1
        /\ ran => guard.ok <= HoldLimit

\* The turns the loop has had to brake in.
Turns ==
    IF phase = "executing" /\ ~ran THEN unseen - StaleTimeout - 1
                                   ELSE unseen - StaleTimeout

Braking ==
    stack = "own" /\ unseen > StaleTimeout =>
        last_cmd.linear = 0 \/ last_cmd.linear + MaxDecel * Turns <= TopSpeed

NavBraking ==
    stack = "nav2" /\ unseen > StaleTimeout /\ base.linear > 0 =>
        cmd_age > CmdTimeout \/ cmd_age >= unseen - StaleTimeout

MotionInv ==
    /\ MotionTyped
    /\ OwnStack
    /\ AtRest
    /\ Deserting
    /\ Sight
    /\ Window
    /\ Braking
    /\ NavBraking

\* A guard that has seen no way to move for too long stops the robot.
LEMMA BlindStops ==
    ASSUME MotionInv, unseen > StaleTimeout
    PROVE  MustStop(guard)
<1> SUFFICES ASSUME ~MustStop(guard) PROVE FALSE
  OBVIOUS
<1>1. GuardTyped(guard) /\ unseen \in Nat /\ guard.recv \in Int
  BY GuardFields DEF MotionInv, MotionTyped
<1>2. guard.recv # Never
  BY <1>1, GuardConstants DEF MotionInv, Sight
<1>3. guard.recv <= StaleTimeout /\ Clear(guard.ranges)
  BY <1>1, <1>2, MovesBySight
<1> QED
  BY <1>1, <1>2, <1>3, GuardConstants DEF MotionInv, Sight

\* Nothing moves at first.
LEMMA MotionInit == Init => MotionInv
<1> SUFFICES ASSUME Init PROVE MotionInv
  OBVIOUS
<1>1. Still \in Twist /\ Still.linear = 0
  BY DEF Still, Twist
<1>2. GuardTyped(guard) /\ guard.recv = Never
  BY InitialGuardFacts DEF Init
<1>3. MotionTyped
  <2>1. ran \in BOOLEAN /\ stack \in {"own", "nav2"} /\ last_cmd = Still
        /\ base = Still /\ phase = "idle"
    BY Zenon DEF Init
  <2>2. cmd_age \in Nat /\ goal_age \in Nat /\ held \in Nat /\ unseen \in Nat
        /\ deserted \in Nat
    BY MotionConstants DEF Init
  <2> QED
    BY <1>1, <1>2, <2>1, <2>2 DEF MotionTyped
<1>4. OwnStack /\ AtRest /\ Deserting
  BY <1>1, MotionConstants DEF Init, OwnStack, AtRest, Deserting
<1>5. Sight /\ Window
  BY <1>2 DEF Init, Sight, Window
<1>6. Braking /\ NavBraking
  BY <1>1, GuardConstants DEF Init, Braking, NavBraking
<1> QED
  BY <1>3, <1>4, <1>5, <1>6 DEF MotionInv

\* A scan comes: at any time, between any two steps of the loop.
LEMMA OnScanInv ==
    ASSUME MotionInv, NEW ranges \in Scan, OnScan(ranges)
    PROVE  MotionInv'
<1>1. /\ UNCHANGED <<stack, phase, ran, last_cmd, goal_age, held, base, cmd_age, deserted>>
      /\ unseen' = IF Clear(ranges) THEN 0 ELSE unseen
      /\ guard' = SetScan(guard, ranges)
  BY DEF OnScan, own, chassis
<1>2. ranges \in Seq(Nat) /\ GuardTyped(guard) /\ unseen \in Nat
  BY MotionConstants DEF MotionInv, MotionTyped
<1>3. /\ GuardTyped(guard') /\ guard'.recv = 0 /\ guard'.ranges = ranges
      /\ guard'.ok = guard.ok
  BY <1>1, <1>2, SetScanFacts
<1>4. unseen' \in Nat /\ (Clear(ranges) => unseen' = 0) /\ unseen' \in {0, unseen}
  BY <1>1, <1>2
<1>5. MotionTyped'
  BY <1>1, <1>3, <1>4 DEF MotionInv, MotionTyped
<1>6. OwnStack' /\ AtRest' /\ Deserting'
  BY <1>1 DEF MotionInv, OwnStack, AtRest, Deserting
<1>7. Sight'
  BY <1>3, <1>4, NowIsNotNever DEF Sight
<1>8. Window'
  BY <1>1, <1>3 DEF MotionInv, Window
<1>9. Braking' /\ NavBraking'
  <2>1. CASE unseen' = unseen
    BY <1>1, <2>1 DEF MotionInv, Braking, NavBraking, Turns
  <2>2. CASE unseen' = 0
    BY <2>2, GuardConstants DEF Braking, NavBraking
  <2> QED
    BY <1>4, <2>1, <2>2
<1> QED
  BY <1>5, <1>6, <1>7, <1>8, <1>9 DEF MotionInv

\* clamp() and clear_hold() leave the scan and its time alone.
LEMMA SightKept ==
    ASSUME MotionInv, guard'.recv = guard.recv, guard'.ranges = guard.ranges,
           unseen' = unseen
    PROVE  Sight'
  BY DEF MotionInv, Sight

\* A goal starts with a hold timer of its own.
LEMMA ExecuteInv ==
    ASSUME MotionInv, Execute
    PROVE  MotionInv'
<1>1. /\ stack = "own" /\ phase = "idle" /\ guard' = ClearHold(guard)
      /\ phase' = "executing" /\ ran' = FALSE /\ goal_age' = 0 /\ held' = 0
      /\ UNCHANGED <<stack, last_cmd, base, cmd_age, deserted, unseen>>
  BY DEF Execute, chassis
<1>2. /\ GuardTyped(guard') /\ guard'.ok = 0 /\ guard'.recv = guard.recv
      /\ guard'.ranges = guard.ranges
  BY <1>1, ClearHoldFacts DEF MotionInv, MotionTyped
<1>3. last_cmd = Still /\ Still.linear = 0
  BY <1>1 DEF MotionInv, AtRest, Deserting, Still
<1>4. ran' \in BOOLEAN
  BY <1>1, Zenon
<1>5. MotionTyped'
  BY <1>1, <1>2, <1>4 DEF MotionInv, MotionTyped
<1>6. OwnStack' /\ AtRest' /\ Deserting'
  BY <1>1 DEF MotionInv, OwnStack, AtRest, Deserting
<1>7. Sight'
  BY <1>1, <1>2, SightKept
<1>8. Window'
  BY <1>1, <1>2, GuardConstants DEF Window
<1>9. Braking' /\ NavBraking'
  BY <1>1, <1>3 DEF MotionInv, Braking, NavBraking
<1> QED
  BY <1>5, <1>6, <1>7, <1>8, <1>9 DEF MotionInv

\* The ways out of the loop that report a result stop the base.
LEMMA LeaveInv ==
    ASSUME MotionInv, phase = "executing", Leave, GuardTyped(guard'),
           guard'.recv = guard.recv, guard'.ranges = guard.ranges
    PROVE  MotionInv'
<1>1. /\ phase' = "idle" /\ held' = 0 /\ ran' = TRUE
      /\ UNCHANGED <<stack, goal_age, unseen>> /\ PublishTwist(0, FALSE)
  BY DEF Leave
<1>2. stack = "own"
  BY DEF MotionInv, OwnStack
<1>3. last_cmd' = Still /\ base' = Still /\ cmd_age' = 0 /\ deserted' = 0
  BY <1>1 DEF PublishTwist, Receive
<1>4. Still \in Twist /\ Still.linear = 0
  BY DEF Still, Twist
<1>5. ran' \in BOOLEAN
  BY <1>1, Zenon
<1>6. MotionTyped'
  BY <1>1, <1>3, <1>4, <1>5 DEF MotionInv, MotionTyped
<1>7. OwnStack' /\ AtRest' /\ Deserting'
  BY <1>1, <1>2, <1>3, <1>4, MotionConstants DEF OwnStack, AtRest, Deserting
<1>8. Sight' /\ Window'
  BY <1>1, SightKept DEF Window
<1>9. Braking' /\ NavBraking'
  BY <1>1, <1>2, <1>3, <1>4 DEF Braking, NavBraking
<1> QED
  BY <1>6, <1>7, <1>8, <1>9 DEF MotionInv

\* A request the guard is asked to clamp, as a goal or NAV2 makes it.
LEMMA ClampKeeps ==
    ASSUME MotionInv, NEW v \in Nat, guard' = AfterClamp(guard, v)
    PROVE  /\ GuardTyped(guard') /\ guard'.recv = guard.recv
           /\ guard'.ranges = guard.ranges
           /\ \/ guard'.ok = 0
              \/ /\ guard'.ok = guard.ok
                 /\ Pressed(guard) /\ ~(Clamped(guard, v) >= CrawlSpeed)
           /\ Pressed(guard) /\ ~(Clamped(guard, v) >= CrawlSpeed) =>
                 guard'.ok = guard.ok
  BY AfterClampFacts DEF MotionInv, MotionTyped

\* The goal is reached.
LEMMA ArriveInv ==
    ASSUME MotionInv, Arrive
    PROVE  MotionInv'
  BY LeaveInv DEF Arrive, MotionInv, MotionTyped

\* The goal is failed.
LEMMA AbortInv ==
    ASSUME MotionInv, Abort
    PROVE  MotionInv'
<1>1. PICK asked \in Asked : guard' = AfterClamp(guard, asked.linear)
  BY DEF Abort
<1>2. asked.linear \in Nat
  BY AskedSpeed, MotionConstants
<1> QED
  BY <1>1, <1>2, ClampKeeps, LeaveInv DEF Abort

\* The process ends and leaves the base alone with its last command.
LEMMA EndsInv ==
    ASSUME MotionInv, Ends
    PROVE  MotionInv'
<1>1. /\ stack = "own" /\ phase' = "gone" /\ ran' = FALSE
      /\ goal_age' = 0 /\ held' = 0 /\ guard' = InitialGuard /\ unseen' = 0
      /\ last_cmd' = Still /\ deserted' = Max({deserted, 1})
      /\ UNCHANGED <<stack, base, cmd_age>>
  BY DEF Ends
<1>2. GuardTyped(guard') /\ guard'.recv = Never
  BY <1>1, InitialGuardFacts
<1>3. Still \in Twist /\ Still.linear = 0
  BY DEF Still, Twist
<1>4. deserted \in Nat /\ cmd_age \in Nat
  BY DEF MotionInv, MotionTyped
<1>5. deserted' \in Nat /\ deserted' # 0 /\ (deserted' = deserted \/ deserted' = 1)
  <2>1. Max({deserted, 1}) = IF deserted >= 1 THEN deserted ELSE 1
    BY <1>4, MaxOfTwo
  <2> QED
    BY <1>1, <1>4, <2>1
<1>6. ran' \in BOOLEAN
  BY <1>1, Zenon
<1>7. MotionTyped'
  BY <1>1, <1>2, <1>3, <1>5, <1>6 DEF MotionInv, MotionTyped
<1>8. OwnStack' /\ AtRest'
  BY <1>1, <1>3, <1>5, MotionConstants DEF OwnStack, AtRest
<1>9. Deserting'
  BY <1>1, <1>4, <1>5 DEF MotionInv, Deserting
<1>10. Sight' /\ Window' /\ Braking' /\ NavBraking'
  BY <1>1, <1>2, <1>3, GuardConstants DEF Sight, Window, Braking, NavBraking
<1> QED
  BY <1>7, <1>8, <1>9, <1>10 DEF MotionInv

LEMMA RespawnsInv ==
    ASSUME MotionInv, Respawns
    PROVE  MotionInv'
<1>1. /\ phase = "gone" /\ phase' = "idle"
      /\ UNCHANGED <<stack, guard, ran, last_cmd, goal_age, held, base, cmd_age, deserted,
                     unseen>>
  BY DEF Respawns, chassis
<1> QED
  BY <1>1 DEF MotionInv, MotionTyped, OwnStack, AtRest, Deserting, Sight, Window,
              Braking, Turns, NavBraking

\* One more turn is one more MaxDecel.
LEMMA OneMoreTurn ==
    ASSUME NEW d \in Int, NEW k \in Int
    PROVE  d * k = d * (k - 1) + d
  OBVIOUS

\* One turn of the control loop.
LEMMA ControlStepInv ==
    ASSUME MotionInv, ControlStep
    PROVE  MotionInv'
<1>1. PICK asked \in Asked, level \in TrackErrorLevel :
        /\ guard' = AfterClamp(guard, asked.linear)
        /\ BlockedFor(guard') <= HoldLimit
        /\ PublishTwist(Scaled(Clamped(guard, asked.linear), asked.angular, level).linear,
                        Scaled(Clamped(guard, asked.linear), asked.angular, level).angular)
        /\ held' = IF Pressed(guard) /\ Clamped(guard, asked.linear) < CrawlSpeed
                   THEN held ELSE 0
  BY DEF ControlStep
<1>2. /\ phase = "executing" /\ ~ran /\ ran' = TRUE
      /\ UNCHANGED <<stack, phase, goal_age, unseen>>
  BY DEF ControlStep
<1> DEFINE v == Clamped(guard, asked.linear)
           linear == Scaled(v, asked.angular, level).linear
           angular == Scaled(v, asked.angular, level).angular
<1>3. /\ GuardTyped(guard) /\ last_cmd \in Twist /\ stack = "own"
      /\ last_cmd.linear \in 0..TopSpeed /\ TopSpeed \in Nat
  BY <1>2, MotionConstants DEF MotionInv, MotionTyped, OwnStack
<1>4. /\ asked.linear \in 0..TopSpeed /\ asked.linear \in Nat
      /\ asked.angular \in BOOLEAN
  BY <1>3, AskedSpeed
<1>5. v \in 0..asked.linear /\ v \in 0..TopSpeed
  BY <1>3, <1>4, ClampedSpeed
<1>6. linear \in 0..v /\ linear \in 0..TopSpeed /\ angular \in BOOLEAN
  <2>1. linear \in 0..v /\ angular \in BOOLEAN
    BY <1>4, <1>5, ScaledSpeed
  <2> HIDE DEF linear, v
  <2> QED
    BY <1>3, <1>5, <2>1
<1>7. /\ last_cmd' \in Twist /\ last_cmd'.linear \in 0..TopSpeed
      /\ base' = last_cmd' /\ cmd_age' = 0 /\ deserted' = 0
      /\ linear = 0 => \/ last_cmd'.linear = 0
                       \/ last_cmd'.linear = last_cmd.linear - MaxDecel
  BY <1>1, <1>3, <1>6, PublishFacts
<1>8. /\ GuardTyped(guard') /\ guard'.recv = guard.recv
      /\ guard'.ranges = guard.ranges
      /\ guard'.ok = 0 \/ guard'.ok = guard.ok
      /\ Pressed(guard) /\ ~(v >= CrawlSpeed) => guard'.ok = guard.ok
  BY <1>1, <1>4, ClampKeeps
<1>9. ran' \in BOOLEAN
  BY <1>2, Zenon
<1>10. held' \in {held, 0} /\ (held' # 0 => Pressed(guard) /\ v < CrawlSpeed)
  BY <1>1
<1>a. MotionTyped'
  BY <1>2, <1>7, <1>8, <1>9, <1>10 DEF MotionInv, MotionTyped
<1>b. OwnStack' /\ AtRest' /\ Deserting'
  BY <1>2, <1>3, <1>7 DEF OwnStack, AtRest, Deserting
<1>c. Sight'
  BY <1>2, <1>8, SightKept
<1>d. Window'
  <2>1. /\ guard.ok >= 0 /\ guard.ok <= goal_age /\ held <= guard.ok
        /\ guard.ok \in Int /\ goal_age \in Nat /\ held \in Nat
    BY <1>2, GuardFields DEF MotionInv, MotionTyped, Window
  <2>2. held' # 0 => guard'.ok = guard.ok
    <3>1. v \in Int /\ CrawlSpeed \in Int
      BY <1>5, GuardConstants
    <3> HIDE DEF v
    <3> QED
      BY <1>8, <1>10, <3>1
  <2>3. guard'.ok >= 0 /\ guard'.ok \in Int /\ guard'.ok <= goal_age
    BY <1>8, <2>1
  <2>4. guard'.ok <= HoldLimit
    <3>1. guard'.ok # Never
      BY <2>3 DEF Never
    <3> QED
      BY <1>1, <3>1 DEF BlockedFor
  <2>5. held' <= guard'.ok
    BY <1>10, <2>1, <2>2, <2>3
  <2> QED
    BY <1>2, <2>3, <2>4, <2>5, GuardConstants DEF Window
<1>e. Braking'
  <2> SUFFICES ASSUME unseen > StaleTimeout, last_cmd'.linear # 0
               PROVE  last_cmd'.linear + MaxDecel * (unseen - StaleTimeout) <= TopSpeed
    BY <1>2 DEF Braking, Turns
  <2>1. v = 0
    BY BlindStops DEF Clamped
  <2>2. linear = 0
    BY <1>6, <2>1
  <2>3. last_cmd'.linear = last_cmd.linear - MaxDecel
    BY <1>7, <2>2
  <2>4. /\ last_cmd.linear \in Nat /\ last_cmd'.linear \in Nat
        /\ MaxDecel \in Nat \ {0} /\ unseen \in Nat /\ StaleTimeout \in Nat
    BY <1>3, <1>7, MotionConstants, GuardConstants DEF MotionInv, MotionTyped
  <2>5. last_cmd.linear # 0
    BY <2>3, <2>4
  <2>6. last_cmd.linear + MaxDecel * (unseen - StaleTimeout - 1) <= TopSpeed
    BY <1>2, <1>3, <2>5 DEF MotionInv, Braking, Turns
  <2> DEFINE k == unseen - StaleTimeout
             a == MaxDecel * (k - 1)
             b == MaxDecel * k
  <2>7. k \in Int /\ a \in Int /\ b \in Int /\ b = a + MaxDecel
    BY <2>4, OneMoreTurn
  <2>8. last_cmd.linear + a <= TopSpeed
    BY <2>6
  <2> HIDE DEF k, a, b
  <2>9. last_cmd'.linear + b <= TopSpeed
    BY <1>3, <2>3, <2>4, <2>7, <2>8
  <2> QED
    BY <2>9 DEF k, b
<1>f. NavBraking'
  BY <1>2, <1>3 DEF NavBraking
<1> QED
  BY <1>a, <1>b, <1>c, <1>d, <1>e, <1>f DEF MotionInv

\* What NAV2 may command.
LEMMA Nav2Speed ==
    ASSUME NEW in \in Nav2Command
    PROVE  in \in Twist /\ (in.linear < 0 \/ in.linear \in Nat)
<1>1. PICK v \in Speed \cup {0, -100}, w \in BOOLEAN : in = [linear |-> v, angular |-> w]
  BY DEF Nav2Command
<1>2. v \in Int /\ (v < 0 \/ v \in Nat)
  BY MotionConstants
<1> QED
  BY <1>1, <1>2 DEF Twist

(***************************************************************************)
(* on_cmd(): whatever NAV2 commands, a guard that sees no way lets no      *)
(* forward speed through.                                                  *)
(***************************************************************************)
LEMMA OnCmdFacts ==
    ASSUME MotionInv, NEW in \in Nav2Command, OnCmd(in)
    PROVE  /\ stack = "nav2" /\ UNCHANGED <<stack, phase, ran, last_cmd, goal_age, held, unseen>>
           /\ base' \in Twist /\ cmd_age' = 0 /\ deserted' = 0
           /\ GuardTyped(guard') /\ guard'.recv = guard.recv
           /\ guard'.ranges = guard.ranges
           /\ MustStop(guard) => ~(base'.linear > 0)
<1>1. /\ stack = "nav2"
      /\ UNCHANGED <<stack, phase, ran, last_cmd, goal_age, held, unseen>>
  BY DEF OnCmd, own
<1>2. GuardTyped(guard)
  BY DEF MotionInv, MotionTyped
<1>3. CASE in.linear < 0
  <2>1. guard' = guard /\ base' = in /\ cmd_age' = 0 /\ deserted' = 0
    BY <1>3 DEF OnCmd, Receive
  <2>2. in.linear \in Int
    BY Nav2Speed DEF Twist
  <2> QED
    BY <1>1, <1>2, <1>3, <2>1, <2>2, Nav2Speed
<1>4. CASE ~(in.linear < 0)
  <2> DEFINE v == Clamped(guard, in.linear)
             w == in.angular /\ ~guard'.stop
  <2>1. /\ guard' = AfterClamp(guard, in.linear) /\ cmd_age' = 0 /\ deserted' = 0
        /\ base' = [linear |-> v, angular |-> w]
    BY <1>4 DEF OnCmd, Receive
  <2>2. in.linear \in Nat
    BY <1>4, Nav2Speed
  <2>3. v \in 0..in.linear /\ v \in Int
    BY <1>2, <2>2, ClampedSpeed
  <2>4. w \in BOOLEAN
    OBVIOUS
  <2>5. /\ GuardTyped(guard') /\ guard'.recv = guard.recv
        /\ guard'.ranges = guard.ranges
    BY <2>1, <2>2, ClampKeeps
  <2>6. MustStop(guard) => v = 0
    BY DEF Clamped
  <2> HIDE DEF v, w
  <2>7. base' \in Twist /\ base'.linear = v
    BY <2>1, <2>3, <2>4 DEF Twist
  <2> QED
    BY <1>1, <2>1, <2>3, <2>5, <2>6, <2>7
<1> QED
  BY <1>3, <1>4

LEMMA OnCmdInv ==
    ASSUME MotionInv, NEW in \in Nav2Command, OnCmd(in)
    PROVE  MotionInv'
<1>1. /\ stack = "nav2" /\ base' \in Twist /\ cmd_age' = 0 /\ deserted' = 0
      /\ UNCHANGED <<stack, phase, ran, last_cmd, goal_age, held, unseen>>
      /\ GuardTyped(guard') /\ guard'.recv = guard.recv
      /\ guard'.ranges = guard.ranges
      /\ MustStop(guard) => ~(base'.linear > 0)
  BY OnCmdFacts
<1>2. phase = "idle"
  BY <1>1 DEF MotionInv, OwnStack
<1>3. MotionTyped'
  BY <1>1 DEF MotionInv, MotionTyped
<1>4. OwnStack' /\ AtRest' /\ Deserting' /\ Window' /\ Braking'
  BY <1>1, <1>2 DEF OwnStack, AtRest, Deserting, Window, Braking
<1>5. Sight'
  BY <1>1, SightKept
<1>6. NavBraking'
  BY <1>1, BlindStops DEF NavBraking
<1> QED
  BY <1>3, <1>4, <1>5, <1>6 DEF MotionInv

\* The guard's process comes back and has seen nothing yet.
LEMMA GuardRespawnsInv ==
    ASSUME MotionInv, GuardRespawns
    PROVE  MotionInv'
<1>1. /\ stack = "nav2" /\ guard' = InitialGuard /\ unseen' = 0
      /\ UNCHANGED <<stack, phase, ran, last_cmd, goal_age, held, base, cmd_age, deserted>>
  BY DEF GuardRespawns, own, chassis
<1>2. GuardTyped(guard') /\ guard'.recv = Never
  BY <1>1, InitialGuardFacts
<1>3. phase = "idle"
  BY <1>1 DEF MotionInv, OwnStack
<1>4. MotionTyped'
  BY <1>1, <1>2 DEF MotionInv, MotionTyped
<1>5. OwnStack' /\ AtRest' /\ Deserting' /\ Window' /\ Sight'
  BY <1>1, <1>2, <1>3 DEF MotionInv, OwnStack, AtRest, Deserting, Window, Sight
<1>6. Braking' /\ NavBraking'
  BY <1>1, GuardConstants DEF Braking, NavBraking
<1> QED
  BY <1>4, <1>5, <1>6 DEF MotionInv

\* A history grows by one, up to its cap.
LEMMA LaterFacts ==
    ASSUME NEW t \in Nat
    PROVE  /\ Later(t) \in Nat /\ Later(t) <= t + 1
           /\ Later(t) = t + 1 \/ Later(t) >= HoldLimit + 1
<1>1. HistoryCap \in Nat /\ HistoryCap >= HoldLimit + 1
  BY GuardConstants, MotionConstants DEF HistoryCap
<1>2. Later(t) = IF t + 1 <= HistoryCap THEN t + 1 ELSE HistoryCap
  BY <1>1, MinOfTwo DEF Later
<1> QED
  BY <1>1, <1>2, GuardConstants

\* A control period passes.
LEMMA ElapseInv ==
    ASSUME MotionInv, Elapse
    PROVE  MotionInv'
<1>1. /\ phase = "executing" => ran
      /\ ran' = FALSE /\ guard' = Older(guard)
      /\ cmd_age' = Min({cmd_age + 1, CmdTimeout + 1})
      /\ deserted' = IF deserted = 0 THEN 0 ELSE Min({deserted + 1, CmdTimeout + 2})
      /\ goal_age' = IF phase = "executing" THEN Later(goal_age) ELSE 0
      /\ held' = IF phase = "executing" THEN Later(held) ELSE 0
      /\ unseen' = IF guard.recv = Never THEN 0 ELSE Later(unseen)
      /\ UNCHANGED <<stack, phase, last_cmd, base>>
  BY DEF Elapse
<1>2. /\ GuardTyped(guard) /\ cmd_age \in Nat /\ goal_age \in Nat
      /\ held \in Nat /\ unseen \in Nat
      /\ guard.recv \in Int /\ guard.ok \in Int
  BY GuardFields DEF MotionInv, MotionTyped
<1>3. /\ GuardTyped(guard') /\ guard'.ranges = guard.ranges
      /\ guard'.recv = IF guard.recv = Never THEN Never
                       ELSE IF guard.recv < StaleTimeout THEN guard.recv + 1
                       ELSE StaleTimeout + 1
      /\ guard'.ok = IF guard.ok = Never THEN Never
                     ELSE IF guard.ok < HoldLimit THEN guard.ok + 1
                     ELSE HoldLimit + 1
  BY <1>1, <1>2, OlderFacts
<1>4. /\ goal_age' \in Nat /\ held' \in Nat /\ unseen' \in Nat
      /\ unseen' <= unseen + 1
  BY <1>1, <1>2, LaterFacts
<1>5. /\ cmd_age' \in Nat
      /\ cmd_age' = cmd_age + 1 \/ cmd_age' = CmdTimeout + 1
  <2>1. cmd_age + 1 \in Int /\ CmdTimeout + 1 \in Int
    BY <1>2, MotionConstants
  <2> QED
    BY <1>1, <1>2, <2>1, MinOfTwo, MotionConstants
<1>6. ran' \in BOOLEAN
  BY <1>1, Zenon
<1>a. deserted' \in Nat /\ (deserted = 0 <=> deserted' = 0) /\ deserted' <= deserted + 1
  <2>0. deserted \in Nat
    BY DEF MotionInv, MotionTyped
  <2>1. deserted + 1 \in Int /\ CmdTimeout + 2 \in Int
    BY <2>0, MotionConstants
  <2> QED
    BY <1>1, <2>0, <2>1, MinOfTwo, MotionConstants
<1>7. MotionTyped'
  BY <1>1, <1>3, <1>4, <1>5, <1>6, <1>a DEF MotionInv, MotionTyped
<1>8. OwnStack' /\ AtRest' /\ Deserting'
  <2>1. OwnStack' /\ AtRest'
    BY <1>1, <1>a DEF MotionInv, OwnStack, AtRest
  <2>2. deserted \in Nat /\ CmdTimeout \in Nat
    BY MotionConstants DEF MotionInv, MotionTyped
  <2>3. deserted # 0 => cmd_age > CmdTimeout \/ cmd_age + 1 >= deserted
    BY DEF MotionInv, Deserting
  <2>4. ASSUME NEW c \in Nat, NEW d \in Nat, NEW e \in Nat, NEW f \in Nat, NEW t \in Nat,
               e = c + 1 \/ e = t + 1, f <= d + 1, c > t \/ c + 1 >= d
        PROVE  e > t \/ e + 1 >= f
    BY <2>4
  <2>5. deserted' # 0 => cmd_age' > CmdTimeout \/ cmd_age' + 1 >= deserted'
    BY <1>2, <1>5, <1>a, <2>2, <2>3, <2>4
  <2>6. Deserting'
    BY <2>5 DEF Deserting
  <2> QED
    BY <2>1, <2>6
<1>9. Sight'
  <2>1. guard'.recv = Never => guard.recv = Never
    BY <1>2, <1>3, GuardConstants, GuardFields DEF Never
  <2>2. guard.recv = Never => guard'.recv = Never /\ unseen' = 0
    BY <1>1, <1>3
  <2>3. ASSUME guard.recv # Never, Clear(guard.ranges)
        PROVE  guard'.recv >= unseen' \/ guard'.recv > StaleTimeout
    <3>1. guard.recv >= unseen \/ guard.recv > StaleTimeout
      BY <2>3 DEF MotionInv, Sight
    <3> QED
      BY <1>2, <1>3, <1>4, <2>3, <3>1, GuardConstants
  <2> QED
    BY <1>3, <2>1, <2>2, <2>3 DEF Sight
<1>10. Window'
  <2> SUFFICES ASSUME phase = "executing"
               PROVE  /\ guard'.ok >= 0 /\ guard'.ok <= goal_age'
                      /\ held' <= guard'.ok /\ guard'.ok <= HoldLimit + 1
    BY <1>1 DEF Window
  <2>1. /\ guard.ok >= 0 /\ guard.ok <= goal_age /\ held <= guard.ok
        /\ guard.ok <= HoldLimit
    BY <1>1 DEF MotionInv, Window
  <2>2. guard'.ok = guard.ok + 1
    <3>1. guard.ok # Never
      BY <2>1 DEF Never
    <3> QED
      BY <1>2, <1>3, <2>1, <3>1, GuardConstants
  <2>3. /\ goal_age' = goal_age + 1 \/ goal_age' >= HoldLimit + 1
        /\ held' <= held + 1
    BY <1>1, <1>2, LaterFacts
  <2> QED
    BY <1>2, <1>4, <2>1, <2>2, <2>3, GuardConstants
<1>11. Braking'
  <2> SUFFICES ASSUME stack = "own", unseen' > StaleTimeout, last_cmd.linear # 0
               PROVE  last_cmd.linear + MaxDecel * Turns' <= TopSpeed
    BY <1>1 DEF Braking
  <2>1. phase = "executing"
    BY DEF MotionInv, AtRest, Deserting, MotionTyped, Still
  <2> DEFINE k == unseen' - StaleTimeout - 1
  <2>2. Turns' = k
    BY <1>1, <2>1 DEF Turns
  <2>3. last_cmd.linear \in Nat /\ last_cmd.linear <= TopSpeed /\ TopSpeed \in Nat
    BY MotionConstants DEF MotionInv, OwnStack
  <2>4. CASE k = 0
    BY <2>2, <2>3, <2>4, MotionConstants
  <2>5. CASE k # 0
    <3>1. unseen > StaleTimeout /\ k <= unseen - StaleTimeout /\ k \in Int
      <4>1. /\ unseen \in Int /\ unseen' \in Int /\ StaleTimeout \in Int
            /\ unseen' <= unseen + 1
        BY <1>2, <1>4, GuardConstants
      <4>2. ASSUME NEW u \in Int, NEW n \in Int, NEW t \in Int,
                   n <= u + 1, n > t, n - t - 1 # 0
            PROVE  u > t /\ n - t - 1 <= u - t /\ n - t - 1 \in Int
        BY <4>2
      <4> QED
        BY <2>5, <4>1, <4>2
    <3>2. last_cmd.linear + MaxDecel * (unseen - StaleTimeout) <= TopSpeed
      BY <1>1, <2>1, <3>1 DEF MotionInv, Braking, Turns
    <3>3. ASSUME NEW d \in Nat, NEW a \in Int, NEW b \in Int, a <= b
          PROVE  d * a <= d * b /\ d * a \in Int /\ d * b \in Int
      BY <3>3
    <3> DEFINE n == unseen - StaleTimeout
               x == MaxDecel * k
               y == MaxDecel * n
    <3>4. n \in Int /\ k \in Int /\ k <= n /\ MaxDecel \in Nat
      BY <1>2, <3>1, GuardConstants, MotionConstants
    <3>5. x <= y /\ x \in Int /\ y \in Int
      <4> HIDE DEF n, k
      <4> QED
        BY <3>3, <3>4
    <3>6. last_cmd.linear + y <= TopSpeed
      BY <3>2
    <3> HIDE DEF n, k, x, y
    <3>7. last_cmd.linear + x <= TopSpeed
      BY <2>3, <3>5, <3>6
    <3> QED
      BY <2>2, <3>7 DEF x
  <2> QED
    BY <2>4, <2>5
<1>12. NavBraking'
  <2> SUFFICES ASSUME stack = "nav2", unseen' > StaleTimeout, base.linear > 0
               PROVE  cmd_age' > CmdTimeout \/ cmd_age' >= unseen' - StaleTimeout
    BY <1>1 DEF NavBraking
  <2>0. /\ unseen \in Int /\ unseen' \in Int /\ StaleTimeout \in Int
        /\ unseen' <= unseen + 1 /\ cmd_age \in Nat /\ CmdTimeout \in Nat
        /\ cmd_age' = cmd_age + 1 \/ cmd_age' = CmdTimeout + 1
    BY <1>2, <1>4, <1>5, GuardConstants, MotionConstants
  <2>1. CASE unseen > StaleTimeout
    <3>1. cmd_age > CmdTimeout \/ cmd_age >= unseen - StaleTimeout
      BY <2>1 DEF MotionInv, NavBraking
    <3> QED
      BY <2>0, <3>1
  <2>2. CASE ~(unseen > StaleTimeout)
    BY <2>0, <2>2
  <2> QED
    BY <2>1, <2>2
<1> QED
  BY <1>7, <1>8, <1>9, <1>10, <1>11, <1>12 DEF MotionInv

\* Every step keeps the invariant.
LEMMA MotionStep == MotionInv /\ [Next]_vars => MotionInv'
<1> SUFFICES ASSUME MotionInv, [Next]_vars PROVE MotionInv'
  OBVIOUS
<1>1. CASE Next
  BY <1>1, OnScanInv, ExecuteInv, ArriveInv, AbortInv, ControlStepInv, EndsInv,
     RespawnsInv, OnCmdInv, GuardRespawnsInv, ElapseInv DEF Next
<1>2. CASE UNCHANGED vars
  BY <1>2 DEF vars, own, chassis, MotionInv, MotionTyped, OwnStack, AtRest, Deserting, Sight,
              Window, Braking, Turns, NavBraking
<1> QED
  BY <1>1, <1>2

\* A command whose sender is gone for longer than the timeout has expired.
LEMMA DesertedFacts ==
    ASSUME MotionInv, deserted # 0, ~Deserted
    PROVE  cmd_age > CmdTimeout
<1>1. /\ deserted \in Nat /\ cmd_age \in Nat /\ CmdTimeout \in Nat
      /\ cmd_age > CmdTimeout \/ cmd_age + 1 >= deserted
  BY MotionConstants DEF MotionInv, MotionTyped, Deserting
<1>2. deserted > CmdTimeout + 1
  BY <1>1 DEF Deserted
<1> QED
  BY <1>1, <1>2

LEMMA MotionAlways == Spec => []MotionInv
  BY MotionInit, MotionStep, PTL DEF Spec

-----------------------------------------------------------------------------
(***************************************************************************)
(* The base is at rest, rotation included, whenever motor_ctrl has no goal *)
(* under way: publish_twist() does not smooth a stop, and the loop's own   *)
(* ways out go through it.  A process that ends in the middle of a goal    *)
(* publishes no stop; its last command is dropped after the base's         *)
(* timeout, whether or not motor_ctrl has come back by then.               *)
(***************************************************************************)
THEOREM MotionStill == Spec => []IdleMeansStill
<1>1. ASSUME MotionInv PROVE IdleMeansStill
  <2> SUFFICES ASSUME stack = "own", phase # "executing"
               PROVE  /\ last_cmd = Still
                      /\ base = Still \/ deserted # 0
                      /\ base = Still \/ Deserted \/ cmd_age > CmdTimeout
    BY DEF IdleMeansStill
  <2>1. last_cmd = Still
    BY <1>1 DEF MotionInv, AtRest
  <2>2. base = Still \/ deserted # 0
    BY <1>1, <2>1 DEF MotionInv, OwnStack
  <2>3. deserted # 0 => Deserted \/ cmd_age > CmdTimeout
    BY <1>1, DesertedFacts
  <2> QED
    BY <2>1, <2>2, <2>3
<1> QED
  BY <1>1, MotionAlways, PTL

(***************************************************************************)
(* No goal is held below crawl speed for longer than the limit, whatever   *)
(* the scans do: the guard's hold timer is at least as old as the hold,    *)
(* and the loop fails the goal on the turn in which it passes the limit.   *)
(***************************************************************************)
THEOREM MotionHoldBounded == Spec => []HoldBounded
<1>1. ASSUME MotionInv PROVE HoldBounded
  <2>1. held \in Nat /\ guard.ok \in Int /\ HoldLimit \in Nat
    BY <1>1, GuardFields, GuardConstants DEF MotionInv, MotionTyped
  <2> QED
    BY <1>1, <2>1 DEF MotionInv, Window, HoldBounded
<1> QED
  BY <1>1, MotionAlways, PTL

(***************************************************************************)
(* Once scans that show the way stop coming, the base loses MaxDecel per   *)
(* period behind motor_ctrl and, behind cmd_vel_guard_node, all forward    *)
(* speed within the base's command timeout, however commands, scans,       *)
(* respawns and periods interleave.                                        *)
(***************************************************************************)
THEOREM MotionStandsStill == Spec => []StandsStill
<1>1. ASSUME MotionInv PROVE StandsStill
  <2>1. /\ unseen \in Nat /\ cmd_age \in Nat /\ base.linear \in Int
        /\ StaleTimeout \in Nat /\ CmdTimeout \in Nat /\ TopSpeed \in Nat
        /\ MaxDecel \in Nat
    BY <1>1, GuardConstants, MotionConstants DEF MotionInv, MotionTyped, Twist
  <2>2. ASSUME stack = "own", unseen > StaleTimeout, phase = "executing" => ran,
               ~Deserted
        PROVE  Driven <= Max({0, TopSpeed - MaxDecel * (unseen - StaleTimeout)})
    <3> DEFINE lost == MaxDecel * (unseen - StaleTimeout)
    <3>1. deserted = 0 => base = last_cmd
      BY <1>1, <2>2 DEF MotionInv, OwnStack
    <3>2. deserted = 0 => base.linear = 0 \/ base.linear + lost <= TopSpeed
      BY <1>1, <2>2, <3>1 DEF MotionInv, Braking, Turns
    <3>3. lost \in Int
      BY <2>1
    <3> HIDE DEF lost
    <3>4. Max({0, TopSpeed - lost}) = IF 0 >= TopSpeed - lost THEN 0 ELSE TopSpeed - lost
      <4>1. 0 \in Int /\ TopSpeed - lost \in Int
        BY <2>1, <3>3
      <4> QED
        BY <4>1, MaxOfTwo
    <3>5. Driven = 0 \/ (Driven = base.linear /\ deserted = 0)
      BY <1>1, <2>2, DesertedFacts DEF Driven
    <3>6. Driven <= Max({0, TopSpeed - lost})
      BY <2>1, <3>2, <3>3, <3>4, <3>5
    <3> QED
      BY <3>6 DEF lost
  <2>3. ASSUME stack = "nav2", unseen > StaleTimeout + CmdTimeout
        PROVE  Driven <= 0
    <3>1. unseen > StaleTimeout
      BY <2>1, <2>3
    <3>2. base.linear > 0 => cmd_age > CmdTimeout
      <4>1. base.linear > 0 => cmd_age > CmdTimeout \/ cmd_age >= unseen - StaleTimeout
        BY <1>1, <2>3, <3>1 DEF MotionInv, NavBraking
      <4> QED
        BY <2>1, <2>3, <4>1
    <3> QED
      BY <2>1, <3>2 DEF Driven
  <2> QED
    BY <2>2, <2>3 DEF StandsStill
<1> QED
  BY <1>1, MotionAlways, PTL

\* A turn of the loop in which the guard stops the robot brakes it.
LEMMA ControlStepStops ==
    ASSUME MotionInv, ControlStep, MustStop(guard)
    PROVE  base'.linear = 0 \/ base'.linear < base.linear
<1>1. PICK asked \in Asked, level \in TrackErrorLevel :
        PublishTwist(Scaled(Clamped(guard, asked.linear), asked.angular, level).linear,
                     Scaled(Clamped(guard, asked.linear), asked.angular, level).angular)
  BY DEF ControlStep
<1>2. Clamped(guard, asked.linear) = 0
  BY DEF Clamped
<1> DEFINE linear == Scaled(0, asked.angular, level).linear
           angular == Scaled(0, asked.angular, level).angular
<1>3. asked.angular \in BOOLEAN /\ 0 \in 0..TopSpeed
  BY AskedSpeed, MotionConstants
<1>4. linear \in 0..0 /\ angular \in BOOLEAN
  BY <1>3, ScaledSpeed
<1>5. PublishTwist(linear, angular)
  BY <1>1, <1>2
<1> HIDE DEF linear, angular
<1>6. /\ last_cmd \in Twist /\ last_cmd.linear \in 0..TopSpeed
      /\ base = last_cmd \/ last_cmd.linear = 0
  BY DEF ControlStep, MotionInv, MotionTyped, OwnStack, Still
<1>7. linear = 0 /\ linear \in 0..TopSpeed
  BY <1>3, <1>4
<1>8. /\ base' = last_cmd' /\ last_cmd'.linear \in 0..TopSpeed
      /\ last_cmd'.linear = 0 \/ last_cmd'.linear = last_cmd.linear - MaxDecel
  BY <1>4, <1>5, <1>6, <1>7, PublishFacts
<1>9. last_cmd.linear \in Int /\ MaxDecel \in Nat \ {0}
  BY <1>6, MotionConstants
<1> QED
  BY <1>6, <1>8, <1>9

(***************************************************************************)
(* A command that lets the base gain or keep forward speed was let through *)
(* by a guard whose scan was fresh, had enough echoes and showed nothing   *)
(* within the stopping distance, in both stacks.                           *)
(***************************************************************************)
THEOREM MotionNoAdvanceBlind == Spec => NoAdvanceBlind
<1> DEFINE Advance == /\ ControlStep \/ \E in \in Nav2Command : OnCmd(in)
                      /\ base'.linear > 0 /\ base'.linear >= base.linear
                      /\ guard.recv # Never
           BySight == guard.recv <= StaleTimeout /\ Clear(guard.ranges)
<1>1. ASSUME MotionInv, Advance PROVE BySight
  <2>1. GuardTyped(guard) /\ base.linear \in Int
    BY <1>1 DEF MotionInv, MotionTyped, Twist
  <2>2. ~MustStop(guard)
    <3> SUFFICES ASSUME MustStop(guard) PROVE FALSE
      OBVIOUS
    <3>1. CASE ControlStep
      <4>1. base'.linear = 0 \/ base'.linear < base.linear
        BY <1>1, <3>1, ControlStepStops
      <4>2. base'.linear \in Int
        <5>1. MotionInv'
          BY <1>1, <3>1, ControlStepInv
        <5> QED
          BY <5>1 DEF MotionInv, MotionTyped, Twist
      <4> QED
        BY <1>1, <2>1, <4>1, <4>2
    <3>2. CASE \E in \in Nav2Command : OnCmd(in)
      BY <1>1, <3>2, OnCmdFacts
    <3> QED
      BY <1>1, <3>1, <3>2
  <2> QED
    BY <1>1, <2>1, <2>2, MovesBySight
<1>2. MotionInv => (Advance => BySight)
  BY <1>1
<1>3. MotionInv /\ [Next]_vars => [Advance => BySight]_vars
  BY <1>2
<1>4. NoAdvanceBlind <=> [][Advance => BySight]_vars
  BY DEF NoAdvanceBlind
<1> HIDE DEF Advance, BySight
<1> QED
  BY <1>3, <1>4, MotionAlways, PTL DEF Spec

(***************************************************************************)
(* Every goal has its own window: execute() clears the hold timer before   *)
(* its loop, so that a goal is failed only when it has itself been under   *)
(* way for longer than the limit.                                          *)
(***************************************************************************)
THEOREM MotionOwnWindow == Spec => OwnWindow
<1>1. ASSUME MotionInv, Abort PROVE goal_age > HoldLimit
  <2>1. PICK asked \in Asked : guard' = AfterClamp(guard, asked.linear)
    BY <1>1 DEF Abort
  <2>2. asked.linear \in Nat
    BY AskedSpeed, MotionConstants
  <2>3. guard'.ok = 0 \/ guard'.ok = guard.ok
    BY <1>1, <2>1, <2>2, ClampKeeps
  <2>4. /\ guard.ok \in Int /\ guard.ok >= 0 /\ guard.ok <= goal_age
        /\ goal_age \in Nat /\ HoldLimit \in Nat
    BY <1>1, GuardFields, GuardConstants DEF Abort, MotionInv, MotionTyped, Window
  <2>5. guard'.ok # Never
    BY <2>3, <2>4 DEF Never
  <2>6. guard'.ok > HoldLimit
    BY <1>1, <2>5 DEF Abort, BlockedFor
  <2> QED
    BY <2>3, <2>4, <2>6
<1>2. MotionInv => (Abort => goal_age > HoldLimit)
  BY <1>1
<1>3. MotionInv /\ [Next]_vars => [Abort => goal_age > HoldLimit]_vars
  BY <1>2
<1>4. OwnWindow <=> [][Abort => goal_age > HoldLimit]_vars
  BY DEF OwnWindow
<1> QED
  BY <1>3, <1>4, MotionAlways, PTL DEF Spec
-----------------------------------------------------------------------------
(***************************************************************************)
(* The avoidance, for every number of sectors.                             *)
(***************************************************************************)
\* A non-empty set of naturals has a least member.
LEMMA LeastNat ==
    ASSUME NEW T, T \subseteq Nat, T # {}
    PROVE  \E m \in T : \A k \in T : m <= k
<1> DEFINE R == OpToRel(<, Nat)
<1>1. IsWellFoundedOn(R, Nat)
  BY NatLessThanWellFounded
<1>2. \A x, y \in Nat : x < y => <<x, y>> \in R
  BY DEF OpToRel
<1> HIDE DEF R
<1>3. \E x \in T : \A y \in T : ~(<<y, x>> \in R)
  BY <1>1, WFMin
<1>4. PICK x \in T : \A y \in T : ~(<<y, x>> \in R)
  BY <1>3
<1>5. \A y \in T : ~(y < x)
  BY <1>2, <1>4
<1>6. \A y \in T : x <= y
  BY <1>5
<1> QED
  BY <1>6

\* The parameters: sectors, and no gap narrower than two or three of them.
Sectors(width) ==
    BinCount \in Nat \ {0} /\ MinGapBins \in Nat /\ MinGapBins >= width

LEMMA ApartNat ==
    ASSUME BinCount \in Nat \ {0}, NEW a \in Int, NEW b \in Int
    PROVE  Apart(a, b) \in Nat
<1> DEFINE d == (a - b) % (2 * BinCount)
           e == 2 * BinCount - d
<1>1. a - b \in Int /\ 2 * BinCount \in Nat \ {0}
  OBVIOUS
<1>2. ASSUME NEW m \in Int, NEW n \in Nat \ {0} PROVE m % n \in 0..(n - 1)
  BY <1>2
<1>3. d \in 0..(2 * BinCount - 1)
  BY <1>1, <1>2
<1>4. Apart(a, b) = Min({d, e})
  BY DEF Apart
<1> HIDE DEF d
<1>5. d \in Nat /\ e \in Nat
  BY <1>3
<1> HIDE DEF e
<1>6. \E m \in {d, e} : \A k \in {d, e} : m <= k
  BY <1>5
<1>7. Min({d, e}) \in {d, e}
  BY <1>6 DEF Min
<1> QED
  BY <1>4, <1>5, <1>7

\* A gap lies on the dial, and its centre on a sector of it or between two.
LEMMA CenterInside ==
    ASSUME Sectors(2), NEW start \in Bin, NEW len \in MinGapBins..BinCount,
           start + len <= BinCount
    PROVE  /\ Center(<<start, len>>) = 2 * start + len + 1
           /\ Center(<<start, len>>) \in 3..(2 * BinCount - 1)
           /\ \A b \in BinsAt(Center(<<start, len>>)) :
                 /\ b \in (start + 1)..(start + len - 1) /\ b \in Bin
                 /\ len >= 4 => b < start + len - 1
<1>1. /\ start \in Nat /\ len \in Nat /\ BinCount \in Nat /\ len >= 2
      /\ start + len <= BinCount
  BY DEF Sectors, Bin
<1> DEFINE c == 2 * start + len + 1
<1>2. c \in 3..(2 * BinCount - 1)
  BY <1>1
<1>3. Center(<<start, len>>) = c
  <2>1. ASSUME NEW m \in Nat, NEW n \in Nat, m < n PROVE m % n = m
    BY <2>1
  <2>2. c \in Nat /\ 2 * BinCount \in Nat /\ c < 2 * BinCount
    BY <1>1, <1>2
  <2> QED
    BY <2>1, <2>2 DEF Center
<1>4. ASSUME NEW b \in BinsAt(c)
      PROVE  /\ b \in (start + 1)..(start + len - 1) /\ b \in Bin
             /\ len >= 4 => b < start + len - 1
  <2>1. CASE c % 2 = 1
    <3>1. b = c \div 2
      BY <1>4, <2>1 DEF BinsAt
    <3>2. c = 2 * b + 1 /\ b \in Int
      BY <1>1, <2>1, <3>1
    <3> QED
      BY <1>1, <3>2 DEF Bin
  <2>2. CASE c % 2 # 1
    <3> DEFINE h == c \div 2
    <3>1. c = 2 * h /\ h \in Int
      BY <1>1, <2>2
    <3>2. h - 1 \in 1..(BinCount - 1) /\ h \in 1..(BinCount - 1)
      BY <1>1, <3>1
    <3>3. (h - 1) % BinCount = h - 1
      <4>1. ASSUME NEW m \in Nat, NEW n \in Nat, m < n PROVE m % n = m
        BY <4>1
      <4> QED
        BY <1>1, <3>2, <4>1
    <3>4. b = h \/ b = h - 1
      BY <1>4, <2>2, <3>3 DEF BinsAt
    <3> HIDE DEF h
    <3> QED
      BY <1>1, <3>1, <3>2, <3>4 DEF Bin
  <2> QED
    BY <2>1, <2>2
<1> QED
  BY <1>2, <1>3, <1>4

\* A gap of the scan and what is free around its centre.
LEMMA GapCenter ==
    ASSUME Sectors(2), NEW bins, NEW g \in Gaps(bins)
    PROVE  /\ Center(g) \in 3..(2 * BinCount - 1)
           /\ \A b \in BinsAt(Center(g)) : b \in Bin /\ Free(bins, b)
           /\ g[2] >= 4 => \A b \in BinsAt(Center(g)) : GapPassableAt(bins, b)
<1> DEFINE end == g[1] + g[2]
<1>1. /\ g \in Bin \X (1..BinCount) /\ end <= BinCount /\ g[2] >= MinGapBins
      /\ \A b \in g[1]..(end - 1) : Free(bins, b)
  BY SMT DEF Gaps
<1>2. PICK start \in Bin, len \in 1..BinCount : g = <<start, len>>
  BY <1>1
<1>3. /\ start \in Nat /\ len \in MinGapBins..BinCount /\ len \in Nat
      /\ start + len <= BinCount
      /\ \A b \in start..(start + len - 1) : Free(bins, b)
  <2>1. g[1] = start /\ g[2] = len /\ end = start + len
    BY <1>2
  <2> HIDE DEF end
  <2> QED
    BY <1>1, <2>1 DEF Sectors, Bin
<1>4. /\ Center(<<start, len>>) \in 3..(2 * BinCount - 1)
      /\ \A b \in BinsAt(Center(<<start, len>>)) :
            /\ b \in (start + 1)..(start + len - 1) /\ b \in Bin
            /\ len >= 4 => b < start + len - 1
  BY <1>3, CenterInside
<1>5. \A b \in (start + 1)..(start + len - 1) : b \in start..(start + len - 1)
  BY <1>3
<1>6. ASSUME len >= 4, NEW b \in BinsAt(Center(<<start, len>>)), NEW off \in -1..1
      PROVE  Free(bins, Max({0, Min({b + off, BinCount - 1})}))
  <2>1. b \in (start + 1)..(start + len - 2)
    BY <1>3, <1>4, <1>6
  <2>2. b + off \in start..(start + len - 1) /\ BinCount \in Nat
    BY <1>3, <2>1 DEF Sectors
  <2>3. Min({b + off, BinCount - 1}) = b + off
    <3>1. ASSUME NEW m \in Int, NEW n \in Int, m <= n PROVE Min({m, n}) = m
      BY <3>1 DEF Min
    <3> QED
      BY <1>3, <2>2, <3>1
  <2>4. Max({0, b + off}) = b + off
    <3>1. ASSUME NEW m \in Int, NEW n \in Int, m <= n PROVE Max({m, n}) = n
      BY <3>1 DEF Max
    <3>2. b + off \in Int /\ 0 <= b + off /\ 0 \in Int
      BY <1>3, <2>2
    <3> QED
      BY <3>1, <3>2
  <2>5. Free(bins, b + off)
    BY <1>3, <2>2
  <2> QED
    BY <2>3, <2>4, <2>5
<1>7. \A b \in BinsAt(Center(g)) : b \in Bin /\ Free(bins, b)
  BY <1>2, <1>3, <1>4, <1>5
<1>8. ASSUME g[2] >= 4, NEW b \in BinsAt(Center(g)) PROVE GapPassableAt(bins, b)
  <2>1. len >= 4
    BY <1>2, <1>8
  <2> QED
    BY <1>2, <1>6, <1>8, <2>1 DEF GapPassableAt
<1> QED
  BY <1>2, <1>4, <1>7, <1>8

\* Free sectors side by side are part of a gap: it is extended both ways.
LEMMA GapAround ==
    ASSUME Sectors(1), NEW bins, NEW s \in 0..(BinCount - MinGapBins),
           \A b \in s..(s + MinGapBins - 1) : Free(bins, b)
    PROVE  Gaps(bins) # {}
<1> DEFINE T == {k \in 0..s : \A b \in k..(s + MinGapBins - 1) : Free(bins, b)}
           U == {k \in 0..(BinCount - s - MinGapBins) :
                    \A b \in s..(BinCount - k - 1) : Free(bins, b)}
<1>1. /\ BinCount \in Nat /\ MinGapBins \in Nat /\ MinGapBins >= 1
      /\ s \in Nat /\ s + MinGapBins <= BinCount
  BY DEF Sectors
<1>2. s \in T /\ T \subseteq Nat
  BY <1>1
<1>3. BinCount - s - MinGapBins \in U /\ U \subseteq Nat
  <2>1. BinCount - (BinCount - s - MinGapBins) - 1 = s + MinGapBins - 1
    BY <1>1
  <2> QED
    BY <1>1, <2>1
<1>4. PICK from \in T : \A k \in T : from <= k
  <2> HIDE DEF T
  <2> QED
    BY <1>2, LeastNat
<1>5. PICK rest \in U : \A k \in U : rest <= k
  <2> HIDE DEF U
  <2> QED
    BY <1>3, LeastNat
<1> DEFINE end == BinCount - rest
<1>6. /\ from \in Nat /\ from <= s /\ \A b \in from..(s + MinGapBins - 1) : Free(bins, b)
      /\ rest \in Nat /\ rest <= BinCount - s - MinGapBins
      /\ \A b \in s..(end - 1) : Free(bins, b)
  BY <1>1
<1>7. \A b \in from..(end - 1) : Free(bins, b)
  <2> SUFFICES ASSUME NEW b \in from..(end - 1) PROVE Free(bins, b)
    OBVIOUS
  <2>1. b \in from..(s + MinGapBins - 1) \/ b \in s..(end - 1)
    BY <1>1, <1>6
  <2> QED
    BY <1>6, <2>1
<1>8. ASSUME from > 0, Free(bins, from - 1) PROVE FALSE
  <2>1. from - 1 \in 0..s
    BY <1>1, <1>6, <1>8
  <2>2. \A b \in (from - 1)..(s + MinGapBins - 1) :
            b = from - 1 \/ b \in from..(s + MinGapBins - 1)
    BY <1>1, <1>6, <1>8
  <2>3. from - 1 \in T
    BY <1>6, <1>8, <2>1, <2>2
  <2> QED
    BY <1>4, <1>6, <2>3
<1>9. ASSUME end < BinCount, Free(bins, end) PROVE FALSE
  <2>1. rest - 1 \in 0..(BinCount - s - MinGapBins) /\ BinCount - (rest - 1) - 1 = end
    BY <1>1, <1>6, <1>9
  <2>2. \A b \in s..end : b = end \/ b \in s..(end - 1)
    BY <1>1, <1>6
  <2>3. \A b \in s..(BinCount - (rest - 1) - 1) : Free(bins, b)
    BY <1>6, <1>9, <2>1, <2>2
  <2>4. rest - 1 \in U
    BY <2>1, <2>3
  <2> QED
    BY <1>5, <1>6, <2>4
<1> DEFINE g == <<from, end - from>>
<1>10. /\ g \in Bin \X (1..BinCount) /\ g[1] = from /\ g[2] = end - from
       /\ g[1] + g[2] = end /\ end <= BinCount /\ g[2] >= MinGapBins
  BY <1>1, <1>6 DEF Bin
<1> HIDE DEF g, end
<1>11. g \in Gaps(bins)
  BY <1>7, <1>8, <1>9, <1>10 DEF Gaps
<1> QED
  BY <1>11

\* Where there is a gap, one is closest to the goal.
LEMMA SomeBest ==
    ASSUME Sectors(2), NEW bins, NEW goal \in Angle, Gaps(bins) # {}
    PROVE  BestCenters(bins, goal) # {}
<1> DEFINE centers == {Center(g) : g \in Gaps(bins)}
           T == {Apart(c, goal) : c \in centers}
<1>1. \A c \in centers : c \in 3..(2 * BinCount - 1)
  BY GapCenter
<1>2. centers # {}
  OBVIOUS
<1>3. BestCenters(bins, goal) =
         {c \in centers : \A d \in centers : Apart(c, goal) <= Apart(d, goal)}
  BY DEF BestCenters
<1> HIDE DEF centers
<1>4. T \subseteq Nat
  <2>1. BinCount \in Nat \ {0} /\ goal \in Int
    BY DEF Sectors, Angle
  <2>2. ASSUME NEW c \in centers PROVE Apart(c, goal) \in Nat
    <3>1. c \in Int
      BY <1>1, <2>1
    <3> QED
      BY <2>1, <3>1, ApartNat
  <2> QED
    BY <2>2
<1>5. T # {}
  BY <1>2
<1>6. \E m \in T : \A k \in T : m <= k
  <2> HIDE DEF T
  <2> QED
    BY <1>4, <1>5, LeastNat
<1>7. PICK c \in centers : \A k \in T : Apart(c, goal) <= k
  BY <1>6
<1>8. \A d \in centers : Apart(c, goal) <= Apart(d, goal)
  BY <1>7
<1> QED
  BY <1>3, <1>8

\* A remembered direction one of whose sectors passes: all of them are free.
LEMMA KeptFree ==
    ASSUME Sectors(2), NEW bins, NEW last \in Remembered \ {NoGap},
           NEW b \in BinsAt(last), GapPassableAt(bins, b), NEW d \in BinsAt(last)
    PROVE  Free(bins, d)
<1>1. PICK h \in Bin \X (MinGapBins..BinCount) : h[1] + h[2] <= BinCount /\ last = Center(h)
  BY DEF Remembered
<1>2. PICK start \in Bin, len \in MinGapBins..BinCount : h = <<start, len>>
  OBVIOUS
<1>3. /\ last \in 3..(2 * BinCount - 1)
      /\ \A e \in BinsAt(last) : e \in Bin
  BY <1>1, <1>2, CenterInside
<1>4. BinCount \in Nat /\ b \in Bin /\ d \in Bin /\ last \in Nat
  BY <1>3 DEF Sectors
<1>5. d - b \in -1..1
  <2>1. CASE last % 2 = 1
    <3>1. b = d
      BY <2>1 DEF BinsAt
    <3> QED
      BY <1>4, <3>1 DEF Bin
  <2>2. CASE last % 2 # 1
    <3> DEFINE half == last \div 2
    <3>1. half \in 2..(BinCount - 1)
      BY <1>3, <1>4, <2>2
    <3>2. (half - 1) % BinCount = half - 1
      <4>1. ASSUME NEW m \in Nat, NEW n \in Nat, m < n PROVE m % n = m
        BY <4>1
      <4> HIDE DEF half
      <4> QED
        BY <1>4, <3>1, <4>1
    <3>3. BinsAt(last) = {half, half - 1}
      BY <2>2, <3>2 DEF BinsAt
    <3> HIDE DEF half
    <3> QED
      BY <1>4, <3>1, <3>3
  <2> QED
    BY <2>1, <2>2
<1> DEFINE off == d - b
<1>6. Free(bins, Max({0, Min({b + off, BinCount - 1})}))
  BY <1>5 DEF GapPassableAt
<1>7. b + off = d /\ d \in Int /\ 0 <= d /\ d <= BinCount - 1
  BY <1>4 DEF Bin
<1>8. Min({d, BinCount - 1}) = d
  <2>1. ASSUME NEW m \in Int, NEW n \in Int, m <= n PROVE Min({m, n}) = m
    BY <2>1 DEF Min
  <2> QED
    BY <1>4, <1>7, <2>1
<1>9. Max({0, d}) = d
  <2>1. ASSUME NEW m \in Int, NEW n \in Int, m <= n PROVE Max({m, n}) = n
    BY <2>1 DEF Max
  <2>2. 0 \in Int
    OBVIOUS
  <2> QED
    BY <1>7, <2>1, <2>2
<1> QED
  BY <1>6, <1>7, <1>8, <1>9

(***************************************************************************)
(* steer() sends the robot only into free sectors, calls it surrounded     *)
(* only if no min_gap_bins sectors side by side are free, and leaves it    *)
(* alone only if nothing is near in the goal's direction: for every scan,  *)
(* goal and remembered direction, any number of sectors, and gaps of at    *)
(* least two.                                                              *)
(***************************************************************************)
THEOREM AvoidanceSteersFree ==
    ASSUME Sectors(2), NEW bins, NEW goal \in Angle, NEW last \in Remembered
    PROVE  SteersFree(bins, goal, last)
<1> DEFINE best == BestCenters(bins, goal)
           kept == {b \in BinsAt(last) : GapPassableAt(bins, b)}
           lost == {b \in BinsAt(last) : ~GapPassableAt(bins, b)}
           towards(c) == [toward |-> c, blocked |-> FALSE, last |-> c]
<1> SUFFICES ASSUME NEW r \in Steer(bins, goal, TRUE, last)
             PROVE  /\ r.toward # NoGap => \A b \in BinsAt(r.toward) : Free(bins, b)
                    /\ r.blocked =>
                          ~\E s \in 0..(BinCount - MinGapBins) :
                              \A b \in s..(s + MinGapBins - 1) : Free(bins, b)
                    /\ r.toward = NoGap /\ ~r.blocked => GoalClear(bins, goal)
  BY DEF SteersFree
<1>1. CASE GoalClear(bins, goal)
  <2>1. r = [toward |-> NoGap, blocked |-> FALSE, last |-> last]
    BY <1>1 DEF Steer
  <2> QED
    BY <1>1, <2>1
<1>2. CASE ~GoalClear(bins, goal) /\ best = {}
  <2>1. r = [toward |-> NoGap, blocked |-> TRUE, last |-> NoGap]
    BY <1>2 DEF Steer
  <2>2. Gaps(bins) = {}
    BY <1>2, SomeBest
  <2>3. Sectors(1)
    BY DEF Sectors
  <2>4. ~\E s \in 0..(BinCount - MinGapBins) :
            \A b \in s..(s + MinGapBins - 1) : Free(bins, b)
    BY <2>2, <2>3, GapAround
  <2> QED
    BY <2>1, <2>4
<1>3. CASE ~GoalClear(bins, goal) /\ best # {}
  <2>1. \/ last # NoGap /\ kept # {} /\ r = towards(last)
        \/ \E c \in best : r = towards(c)
    BY <1>3 DEF Steer
  <2>2. CASE last # NoGap /\ kept # {} /\ r = towards(last)
    <3>1. PICK b \in BinsAt(last) : GapPassableAt(bins, b)
      BY <2>2
    <3>2. \A d \in BinsAt(last) : Free(bins, d)
      BY <2>2, <3>1, KeptFree
    <3> QED
      BY <2>2, <3>2
  <2>3. ASSUME NEW c \in best, r = towards(c)
        PROVE  /\ r.toward = c /\ ~r.blocked /\ c # NoGap
               /\ \A b \in BinsAt(c) : Free(bins, b)
    <3>1. PICK g \in Gaps(bins) : c = Center(g)
      BY DEF BestCenters
    <3>2. /\ c \in 3..(2 * BinCount - 1)
          /\ \A b \in BinsAt(c) : Free(bins, b)
      BY <3>1, GapCenter
    <3>3. c # NoGap
      BY <3>2 DEF NoGap, Sectors
    <3> QED
      BY <2>3, <3>2, <3>3
  <2> QED
    BY <2>1, <2>2, <2>3
<1> QED
  BY <1>1, <1>2, <1>3

(***************************************************************************)
(* The memory of steer() works: a gap wider than min_gap_bins, once        *)
(* chosen, is kept while the scan stays the same, wherever the goal moves, *)
(* with any number of sectors and gaps of at least three.                  *)
(***************************************************************************)
THEOREM AvoidanceKeepsItsGap ==
    ASSUME Sectors(3), NEW bins, NEW goal \in Angle, NEW next \in Angle
    PROVE  KeepsItsGap(bins, goal, next)
<1> SUFFICES ASSUME NEW r \in Steer(bins, goal, TRUE, NoGap),
                    NEW g \in Gaps(bins), g[2] > MinGapBins, Center(g) = r.toward,
                    NEW s \in Steer(bins, next, TRUE, r.last)
             PROVE  s.toward \in {r.toward, NoGap} /\ s.last = r.last
  BY DEF KeepsItsGap
<1>1. Sectors(2)
  BY DEF Sectors
<1>2. Center(g) \in 3..(2 * BinCount - 1) /\ Center(g) # NoGap
  <2>1. Center(g) \in 3..(2 * BinCount - 1)
    BY <1>1, GapCenter
  <2> QED
    BY <2>1 DEF NoGap, Sectors
<1>3. \A b \in BinsAt(Center(g)) : GapPassableAt(bins, b)
  <2>1. g[2] >= 4
    <3>1. g[2] \in Int
      <4>1. g \in Bin \X (1..BinCount)
        BY Zenon DEF Gaps
      <4> QED
        BY <4>1 DEF Sectors
    <3> QED
      BY <3>1 DEF Sectors
  <2> QED
    BY <1>1, <2>1, GapCenter
<1> DEFINE c == r.toward
<1>4. r.last = c
  <2>1. \/ r = [toward |-> NoGap, blocked |-> FALSE, last |-> NoGap]
        \/ r = [toward |-> NoGap, blocked |-> TRUE, last |-> NoGap]
        \/ \E d \in BestCenters(bins, goal) : r = [toward |-> d, blocked |-> FALSE, last |-> d]
    BY DEF Steer
  <2> QED
    BY <2>1
<1>5. c # NoGap /\ \A b \in BinsAt(c) : GapPassableAt(bins, b)
  BY <1>2, <1>3
<1>6. BestCenters(bins, next) # {}
  BY <1>1, SomeBest
<1> HIDE DEF c
<1>7. \/ s = [toward |-> NoGap, blocked |-> FALSE, last |-> c]
      \/ s = [toward |-> c, blocked |-> FALSE, last |-> c]
  <2>1. s \in Steer(bins, next, TRUE, c)
    BY <1>4
  <2> QED
    BY <1>5, <1>6, <2>1 DEF Steer
<1> QED
  BY <1>4, <1>7 DEF c

-----------------------------------------------------------------------------
(***************************************************************************)
(* The tracker, for every path, lookahead and measure of distance.         *)
(***************************************************************************)
LEMMA Induct ==
    ASSUME NEW S, 0 \in S, \A n \in Nat : n \in S => n + 1 \in S
    PROVE  Nat \subseteq S
<1> SUFFICES ASSUME Nat \ S # {} PROVE FALSE
  OBVIOUS
<1>1. PICK m \in Nat \ S : \A k \in Nat \ S : m <= k
  BY LeastNat
<1>2. m \in Nat /\ m # 0 /\ m - 1 \in Nat /\ m = (m - 1) + 1
  BY <1>1
<1>3. m - 1 \in S
  BY <1>1, <1>2
<1> QED
  BY <1>1, <1>2, <1>3

WalkTo(path, pose, nearest, i, walked) ==
    walked = [j \in nearest..i |->
                 IF j = nearest THEN Distance(path[nearest], pose)
                 ELSE walked[j - 1] + Distance(path[j - 1], path[j])]

LEMMA WalkExists ==
    ASSUME NEW path, NEW pose, NEW nearest \in Nat
    PROVE  \A n \in Nat : \E w : WalkTo(path, pose, nearest, nearest + n, w)
<1> DEFINE S == {n \in Nat : \E w : WalkTo(path, pose, nearest, nearest + n, w)}
<1>1. 0 \in S
  <2> DEFINE w == [j \in nearest..nearest |-> Distance(path[nearest], pose)]
  <2>1. nearest + 0 = nearest
    OBVIOUS
  <2>2. WalkTo(path, pose, nearest, nearest, w)
    BY DEF WalkTo
  <2> HIDE DEF w
  <2> QED
    BY <2>1, <2>2
<1>2. ASSUME NEW n \in Nat, n \in S PROVE n + 1 \in S
  <2> DEFINE m == nearest + n
             step == Distance(path[m], path[m + 1])
  <2>1. m \in Nat /\ m + 1 = nearest + (n + 1) /\ nearest <= m
    OBVIOUS
  <2>2. PICK w : WalkTo(path, pose, nearest, m, w)
    BY <1>2
  <2> DEFINE more == [j \in nearest..(m + 1) |-> IF j = m + 1 THEN w[m] + step ELSE w[j]]
  <2>3. ASSUME NEW j \in nearest..(m + 1)
        PROVE  more[j] = IF j = nearest THEN Distance(path[nearest], pose)
                         ELSE more[j - 1] + Distance(path[j - 1], path[j])
    <3>1. CASE j = m + 1
      <4>1. j # nearest /\ j - 1 = m /\ m \in nearest..(m + 1) /\ m # m + 1
        BY <2>1, <3>1
      <4>2. more[j] = w[m] + step /\ more[j - 1] = w[m]
        BY <3>1, <4>1
      <4> QED
        BY <3>1, <4>1, <4>2
    <3>2. CASE j # m + 1
      <4>1. j \in nearest..m
        BY <2>1, <3>2
      <4>2. w[j] = IF j = nearest THEN Distance(path[nearest], pose)
                   ELSE w[j - 1] + Distance(path[j - 1], path[j])
        BY <2>2, <4>1 DEF WalkTo
      <4>3. more[j] = w[j]
        BY <3>2
      <4>4. j # nearest => more[j - 1] = w[j - 1]
        BY <2>1, <4>1
      <4> QED
        BY <4>2, <4>3, <4>4
    <3> QED
      BY <3>1, <3>2
  <2>4. WalkTo(path, pose, nearest, m + 1, more)
    BY <2>3 DEF WalkTo
  <2> HIDE DEF more
  <2> QED
    BY <2>1, <2>4
<1> HIDE DEF S
<1>3. Nat \subseteq S
  BY <1>1, <1>2, Induct
<1> QED
  BY <1>3 DEF S

\* The way to a point ahead is a length.
LEMMA WalkedNat ==
    ASSUME NEW P, \A a, b \in P : Distance(a, b) \in Nat,
           NEW path \in Seq(P), NEW pose \in P,
           NEW nearest \in 1..Len(path), NEW i \in nearest..Len(path)
    PROVE  Walked(path, pose, nearest, i) \in Nat
<1> DEFINE w == CHOOSE walked : WalkTo(path, pose, nearest, i, walked)
           S == {n \in Nat : nearest + n <= i => w[nearest + n] \in Nat}
<1>1. /\ Len(path) \in Nat /\ nearest \in Nat /\ i \in Nat /\ nearest <= i
      /\ i <= Len(path) /\ 1 <= nearest
      /\ \A j \in 1..Len(path) : path[j] \in P
  OBVIOUS
<1>2. i - nearest \in Nat /\ nearest + (i - nearest) = i
  BY <1>1
<1>3. \E walked : WalkTo(path, pose, nearest, nearest + (i - nearest), walked)
  BY <1>1, <1>2, WalkExists
<1>4. WalkTo(path, pose, nearest, i, w)
  BY <1>2, <1>3
<1>5. Walked(path, pose, nearest, i) = w[i]
  BY DEF Walked, WalkTo
<1> HIDE DEF w
<1>6. \A j \in nearest..i : w[j] = IF j = nearest THEN Distance(path[nearest], pose)
                                  ELSE w[j - 1] + Distance(path[j - 1], path[j])
  BY <1>4 DEF WalkTo
<1>7. 0 \in S
  <2>1. w[nearest] \in Nat
    <3>1. nearest \in nearest..i /\ nearest \in 1..Len(path)
      BY <1>1
    <3>2. w[nearest] = Distance(path[nearest], pose)
      BY <1>6, <3>1
    <3>3. path[nearest] \in P
      BY <1>1, <3>1
    <3>4. Distance(path[nearest], pose) \in Nat
      BY <3>3
    <3> QED
      BY <3>2, <3>4
  <2>2. nearest + 0 = nearest
    BY <1>1
  <2> QED
    BY <2>1, <2>2
<1>8. ASSUME NEW n \in Nat, n \in S PROVE n + 1 \in S
  <2> SUFFICES ASSUME nearest + (n + 1) <= i PROVE w[nearest + (n + 1)] \in Nat
    OBVIOUS
  <2> DEFINE j == nearest + (n + 1)
  <2>1. /\ j \in nearest..i /\ j # nearest /\ j - 1 = nearest + n
        /\ j - 1 \in 1..Len(path) /\ j \in 1..Len(path) /\ nearest + n <= i
    BY <1>1
  <2>2. w[j - 1] \in Nat
    BY <1>8, <2>1
  <2> HIDE DEF j
  <2>3. Distance(path[j - 1], path[j]) \in Nat
    <3>1. path[j - 1] \in P /\ path[j] \in P
      BY <1>1, <2>1
    <3> QED
      BY <3>1
  <2>4. w[j] = w[j - 1] + Distance(path[j - 1], path[j])
    BY <1>6, <2>1
  <2>5. \A x, y \in Nat : x + y \in Nat
    OBVIOUS
  <2>6. w[j - 1] + Distance(path[j - 1], path[j]) \in Nat
    BY <2>2, <2>3, <2>5, Zenon
  <2>7. w[j] \in Nat
    BY <2>4, <2>6, Zenon
  <2> QED
    BY <2>7 DEF j
<1> HIDE DEF S
<1>9. Nat \subseteq S
  BY <1>7, <1>8, Induct
<1>10. i - nearest \in S
  BY <1>2, <1>9
<1>11. w[nearest + (i - nearest)] \in Nat
  BY <1>1, <1>2, <1>10 DEF S
<1> QED
  BY <1>2, <1>5, <1>11

LEMMA Before ==
    ASSUME NEW x \in Nat, NEW y \in Nat, NEW from \in Nat, NEW to \in Nat,
           x <= to, from <= y, y <= x - 1
    PROVE  y \in from..to /\ ~(x <= y)
OBVIOUS

\* There is a nearest point from the progress on, and it is ahead of it.
LEMMA NearestAhead ==
    ASSUME NEW P, \A a, b \in P : Distance(a, b) \in Nat,
           NEW path \in Seq(P), NEW pose \in P, NEW progress \in 1..Len(path)
    PROVE  Nearest(path, progress, pose) \in progress..Len(path)
<1> DEFINE D(j) == Distance(path[j], pose)
           T == {D(j) : j \in progress..Len(path)}
           U(m) == {j \in progress..Len(path) : D(j) = m}
<1>1. Len(path) \in Nat /\ progress \in Nat /\ 1 <= progress /\ progress <= Len(path)
  OBVIOUS
<1>2. ASSUME NEW j \in progress..Len(path) PROVE D(j) \in Nat
  <2>1. j \in 1..Len(path)
    BY <1>1
  <2>2. path[j] \in P
    BY <2>1
  <2> QED
    BY <2>2
<1>3. progress \in progress..Len(path)
  BY <1>1
<1>4. Nearest(path, progress, pose) = CHOOSE i \in progress..Len(path) :
         /\ \A j \in progress..Len(path) : D(i) <= D(j)
         /\ \A j \in progress..(i - 1) : D(j) > D(i)
  BY DEF Nearest
<1> HIDE DEF D
<1>5. PICK m \in T : \A k \in T : m <= k
  <2>1. T \subseteq Nat /\ T # {}
    BY <1>2, <1>3
  <2> HIDE DEF T
  <2> QED
    BY <2>1, LeastNat
<1>6. m \in Nat /\ \A j \in progress..Len(path) : m <= D(j)
  BY <1>2, <1>5
<1>7. PICK i \in U(m) : \A k \in U(m) : i <= k
  <2>1. \A j \in progress..Len(path) : j \in Nat
    BY <1>1
  <2>2. PICK j \in progress..Len(path) : D(j) = m
    BY <1>5
  <2>3. U(m) \subseteq Nat
    BY <2>1
  <2>4. U(m) # {}
    BY <2>2
  <2> HIDE DEF U
  <2> QED
    BY <2>3, <2>4, LeastNat
<1>8. i \in progress..Len(path) /\ D(i) = m
  OBVIOUS
<1>9. ASSUME NEW j \in progress..(i - 1) PROVE D(j) > D(i)
  <2>1. i \in Nat /\ i <= Len(path)
    BY <1>1, <1>8
  <2>2. j \in Nat /\ progress <= j /\ j <= i - 1
    BY <1>1, <2>1
  <2>3. j \in progress..Len(path) /\ ~(i <= j)
    BY <1>1, <2>1, <2>2, Before, Zenon
  <2>4. D(j) # m
    BY <1>7, <2>3
  <2> QED
    BY <1>2, <1>6, <1>8, <2>3, <2>4
<1>10. \A j \in progress..Len(path) : D(i) <= D(j)
  BY <1>6, <1>8
<1> QED
  BY <1>4, <1>8, <1>9, <1>10

(***************************************************************************)
(* track() never loses progress, chases a point ahead of it, and skips     *)
(* none that is as far as the lookahead, so that no bend is cut short: for *)
(* every path, pose and progress on the path, any lookahead and tolerance. *)
(***************************************************************************)
THEOREM PursuitChasesAhead ==
    ASSUME NEW P, \A a, b \in P : Distance(a, b) \in Nat, Lookahead \in Nat,
           NEW path \in Seq(P), NEW pose \in P, NEW progress \in 1..Len(path)
    PROVE  ChasesAhead(path, progress, pose)
<1> DEFINE nearest == Nearest(path, progress, pose)
           far == {i \in (nearest + 1)..Len(path) :
                      Walked(path, pose, nearest, i) >= Lookahead}
           chased == IF far = {} THEN Len(path) ELSE Min(far)
<1>1. CASE Reached(path, pose)
  BY <1>1 DEF ChasesAhead, Track
<1>2. CASE ~Reached(path, pose)
  <2>1. nearest \in progress..Len(path)
    BY NearestAhead
  <2>2. Track(path, progress, pose) = [chased |-> chased, progress |-> nearest]
    BY <1>2 DEF Track, FindLookahead
  <2> HIDE DEF nearest
  <2>3. /\ Len(path) \in Nat /\ progress \in Nat /\ nearest \in Nat
        /\ nearest >= progress /\ nearest \in 1..Len(path)
    BY <2>1
  <2>4. chased \in Nat /\ (chased > nearest \/ nearest = Len(path))
        /\ \A i \in (nearest + 1)..(chased - 1) : i \in (nearest + 1)..Len(path) /\ i \notin far
    <3>1. CASE far = {}
      <4>1. chased = Len(path)
        BY <3>1
      <4> HIDE DEF chased
      <4>2. chased \in Nat /\ (chased > nearest \/ nearest = Len(path))
        BY <2>3, <4>1
      <4>3. \A i \in (nearest + 1)..(chased - 1) : i \in (nearest + 1)..Len(path)
        BY <2>3, <4>1
      <4> HIDE DEF far
      <4>4. \A i : i \notin far
        BY <3>1
      <4> QED
        BY <4>2, <4>3, <4>4
    <3>2. CASE far # {}
      <4>1. far \subseteq Nat
        BY <2>3
      <4>2. \A i \in far : i > nearest /\ i <= Len(path)
        BY <2>3
      <4> HIDE DEF far
      <4>3. \E m \in far : \A k \in far : m <= k
        BY <3>2, <4>1, LeastNat
      <4>4. Min(far) \in far /\ \A k \in far : Min(far) <= k
        BY <4>3 DEF Min
      <4>5. chased \in far /\ \A k \in far : chased <= k
        BY <3>2, <4>4
      <4> HIDE DEF chased
      <4>6. chased \in Nat /\ chased > nearest /\ chased <= Len(path)
        BY <4>1, <4>2, <4>5
      <4>7. ASSUME NEW i \in (nearest + 1)..(chased - 1)
            PROVE  i \in (nearest + 1)..Len(path) /\ i \notin far
        <5>1. i \in Nat /\ nearest + 1 <= i /\ i <= chased - 1
          BY <2>3, <4>6
        <5>2. i \in (nearest + 1)..Len(path) /\ ~(chased <= i)
          BY <2>3, <4>6, <5>1
        <5> QED
          BY <4>5, <5>2
      <4> QED
        BY <4>6, <4>7
    <3> QED
      BY <3>1, <3>2
  <2>5. ASSUME NEW i \in (nearest + 1)..(chased - 1)
        PROVE  Walked(path, pose, nearest, i) < Lookahead
    <3>1. i \in (nearest + 1)..Len(path) /\ ~(Walked(path, pose, nearest, i) >= Lookahead)
      BY <2>4
    <3>2. i \in nearest..Len(path)
      BY <2>3, <3>1
    <3>3. Walked(path, pose, nearest, i) \in Nat
      BY <2>3, <3>2, WalkedNat
    <3> QED
      BY <3>1, <3>3
  <2> HIDE DEF chased
  <2> QED
    BY <2>2, <2>3, <2>4, <2>5 DEF ChasesAhead
<1> QED
  BY <1>1, <1>2
=============================================================================
