------------------------------ MODULE Perception ------------------------------
(***************************************************************************)
(* The fusion node (infrastructure/fusion_node.cpp) with the perception    *)
(* service, degradation policy, stamp gate and tracker below it, the       *)
(* adapter of the external lidar beside it, and the heartbeat that tells   *)
(* the decision node whether to dispatch.                                  *)
(*                                                                         *)
(* Time is counted in fusion periods (200 ms).  Instead of time stamps the *)
(* state holds ages: of the adapter's last scan (arrival and event time),  *)
(* of the snapshot taken from it, of the last tick and heartbeat.          *)
(***************************************************************************)
EXTENDS Tracker, TLC

CONSTANTS
    Timeout,        \* DegradationPolicy::Config, per sensor
    NeverAge,       \* the initial age of a sensor is -NeverAge
    StaleWindow,    \* the adapter's kStaleWindow
    Tolerance,      \* stale.lidar_ms
    MaxLag,         \* how old a scan may be when it arrives
    TickLimit,      \* timer_callback(): a longer dt skips the tick (1 s)
    Jitter,         \* the timer may be this late
    HeartbeatEvery, \* period of the heartbeat
    Crowded,        \* objects may be too near to one another to be told apart
    MaxId           \* bound on the identities handed out

Sensor == {"lidar", "imu", "camera"}

ASSUME PerceptionAssumption ==
    /\ Timeout \in [Sensor -> Nat] /\ NeverAge \in Nat \ {0}
    /\ StaleWindow \in Nat /\ Tolerance \in Nat /\ MaxLag \in Nat
    /\ Jitter \in Nat \ {0} /\ TickLimit \in Nat /\ TickLimit > Jitter
    /\ HeartbeatEvery \in Nat \ {0} /\ Crowded \in BOOLEAN

VARIABLES
    lc,        \* lifecycle state of the fusion node
    scan_sub,  \* the subscription to /scan exists
    adapter,   \* the adapter's last scan: ages of arrival and event
    works,     \* the internal sensors that answer
    service,   \* perception_: ages per sensor, snapshot, depth, tracker
    since,     \* age of last_tick_
    timer,     \* time since timer_ was created or fired, 0 without a timer
    level,     \* current_level_
    hb_age,    \* the same of heartbeat_timer_
    ready,     \* decision: fusion_ready_
    crashed,   \* the process is gone
    watched,   \* history: any one sensor, and for how long since activation
    silence,   \* it has delivered nothing
    unseen,    \* history: published frames since an object was detected
    given      \* history: the identities given since on_configure(), and to whom

fusion == <<lc, scan_sub, service, since, timer, level, hb_age, crashed>>
vars == <<fusion, adapter, works, ready, watched, silence, unseen, given>>

Never == -1         \* no scan, no tick, no snapshot yet
None == [age |-> <<>>]
NoScan == [arrival |-> Never, event |-> Never]

\* perception_.emplace()
NewService ==
    [age |-> [s \in Sensor |-> -NeverAge], snapshot |-> Never, depth |-> FALSE,
     tracker |-> InitialTracker]

Init ==
    /\ lc = "unconfigured" /\ scan_sub = FALSE
    /\ adapter = NoScan
    /\ works \in SUBSET {"imu", "camera"}
    /\ service = None
    /\ since = Never /\ timer = 0
    /\ level = "FULL"
    /\ hb_age = 0
    /\ ready = FALSE
    /\ crashed = FALSE
    /\ watched \in Sensor /\ silence = 0
    /\ unseen = [o \in Obj |-> MaxMissedFrames + 1] /\ given = {}
-----------------------------------------------------------------------------
\* on_configure(), with sensors of known types.
OnConfigure ==
    /\ lc = "unconfigured" /\ ~crashed
    /\ lc' = "inactive"
    /\ scan_sub' = TRUE /\ adapter' = NoScan
    /\ service' = NewService
    /\ UNCHANGED <<works, since, timer, level, hb_age, ready, crashed, silence, unseen, given>>

\* on_configure() with an unknown sensor type: nothing but FAILURE.
ConfigureFails ==
    /\ lc = "unconfigured" /\ ~crashed
    /\ UNCHANGED <<fusion, adapter, works, ready, silence, unseen, given>>

OnActivate ==
    /\ lc = "inactive" /\ ~crashed
    /\ lc' = "active"
    /\ UNCHANGED <<scan_sub, adapter, works, service, since, timer, level, hb_age, ready,
                   crashed, silence, unseen, given>>

OnDeactivate ==
    /\ lc = "active" /\ ~crashed
    /\ lc' = "inactive"
    /\ timer' = 0 /\ hb_age' = 0 /\ silence' = 0
    /\ UNCHANGED <<scan_sub, adapter, works, service, since, level, ready, crashed, unseen, given>>

\* on_cleanup(): the adapter goes, the subscription that feeds it stays.
OnCleanup ==
    /\ lc = "inactive" /\ ~crashed
    /\ lc' = "unconfigured"
    /\ service' = None /\ adapter' = NoScan
    /\ unseen' = [o \in Obj |-> MaxMissedFrames + 1] /\ given' = {}
    /\ UNCHANGED <<scan_sub, works, since, timer, level, hb_age, ready, crashed, silence>>

(***************************************************************************)
(* feed_scan(): a scan arrives, `lag` after it was measured.  Without the  *)
(* adapter this is a call on a destroyed object, which may pass unnoticed  *)
(* or end the process.                                                     *)
(***************************************************************************)
FeedScan(lag) ==
    /\ scan_sub /\ ~crashed
    /\ \/ /\ service # None
          /\ adapter' = [arrival |-> 0, event |-> lag]
          /\ silence' = (IF watched = "lidar" THEN 0 ELSE silence)
          /\ UNCHANGED crashed
       \/ /\ service = None
          /\ crashed' \in BOOLEAN
          /\ UNCHANGED <<adapter, silence>>
    /\ UNCHANGED <<lc, scan_sub, service, since, timer, level, hb_age, works, ready, unseen, given>>
-----------------------------------------------------------------------------
\* The adapter's read_impl().
LidarReads == adapter.arrival # Never /\ adapter.arrival <= StaleWindow

Reads(s) == IF s = "lidar" THEN LidarReads ELSE s \in works

AgeCap(s) == Timeout[s] + 1
Capped(n, cap) == IF n < cap THEN n ELSE cap

\* PerceptionService::tick()
Ticked(sv, dt) ==
    [sv EXCEPT
        !.age = [s \in Sensor |->
                    IF Reads(s) THEN 0 ELSE Capped(sv.age[s] + dt, AgeCap(s))],
        !.snapshot = IF LidarReads THEN adapter.event ELSE @,
        !.depth = "camera" \in works]

\* DegradationPolicy::is_stale()
IsStale(s, age) == age < 0 \/ age > Timeout[s]

\* DegradationPolicy::evaluate()
Evaluate(age) ==
    LET missing == {s \in Sensor : IsStale(s, age[s])}
    IN  CASE Cardinality(missing) >= 2 -> "CRITICAL"
          [] missing = {} -> "FULL"
          [] missing = {"lidar"} -> "NO_LIDAR"
          [] missing = {"imu"} -> "NO_IMU"
          [] missing = {"camera"} -> "NO_CAMERA"

(***************************************************************************)
(* StampGate::check() of the snapshot, which is stamped with the current   *)
(* time when there is none.                                                *)
(***************************************************************************)
GateOk(sv) == sv.snapshot = Never \/ sv.snapshot <= Tolerance

\* fuse(): what the detectors may deliver at a level.
Detections(sv, lv) ==
    IF \/ lv \in {"FULL", "NO_IMU", "NO_CAMERA"} /\ sv.snapshot # Never
       \/ lv \in {"FULL", "NO_IMU"} /\ sv.depth
    THEN UNION {SetToSeqs(seen) : seen \in SUBSET Obj}
    ELSE {<<>>}

\* timer_callback() ticks unless this is the first call or one after a stall.
TickedIfDue == IF since \in 1..(TickLimit - 1) THEN Ticked(service, since) ELSE service

\* One published frame.
Publish(sv, detections) ==
    \E distance \in Distances(sv.tracker, detections) :
        /\ OnItsObject(detections, distance)
        /\ Crowded \/ ToldApart(detections, distance)
        /\ \E m \in Associations(sv.tracker, detections, distance) :
              service' = [sv EXCEPT !.tracker = Update(sv.tracker, detections, m)]
        /\ service'.tracker.next_id <= MaxId
        /\ unseen' = [o \in Obj |->
                        IF o \in ToSet(detections) THEN 0
                        ELSE Capped(unseen[o] + 1, MaxMissedFrames + 1)]
        /\ given' = given \cup {[id |-> t.id, obj |-> t.obj] : t \in service'.tracker.tracks}

TimerDue == lc = "active" /\ ~crashed /\ timer >= 1

\* Mutant: the level is evaluated behind the gate.
TimerCallbackGateFirst ==
    /\ TimerDue
    /\ \E sv \in {TickedIfDue} :
          IF GateOk(sv)
          THEN /\ level' = Evaluate(sv.age)
               /\ \E det \in Detections(sv, Evaluate(sv.age)) : Publish(sv, det)
          ELSE service' = sv /\ UNCHANGED <<level, unseen, given>>
    /\ since' = 0 /\ timer' = 0
    /\ UNCHANGED <<lc, scan_sub, hb_age, crashed, adapter, works, ready, silence>>

(***************************************************************************)
(* timer_callback(): tick, evaluate the level, and unless the gate rejects *)
(* the snapshot, track and publish.                                        *)
(***************************************************************************)
TimerCallback ==
    /\ TimerDue
    /\ \E sv \in {TickedIfDue} :
          /\ level' = Evaluate(sv.age)
          /\ IF GateOk(sv)
             THEN \E det \in Detections(sv, level') : Publish(sv, det)
             ELSE service' = sv /\ UNCHANGED <<unseen, given>>
    /\ since' = 0 /\ timer' = 0
    /\ UNCHANGED <<lc, scan_sub, hb_age, crashed, adapter, works, ready, silence>>

(***************************************************************************)
(* update_heartbeat_status(), and on_fusion_heartbeat() of the decision    *)
(* node that receives it: only "alive", which is FULL, is nominal.         *)
(***************************************************************************)
Heartbeat ==
    /\ lc = "active" /\ ~crashed /\ hb_age >= HeartbeatEvery
    /\ hb_age' = 0
    /\ ready' = (level = "FULL")
    /\ UNCHANGED <<lc, scan_sub, service, since, timer, level, crashed, adapter, works,
                   silence, unseen, given>>
-----------------------------------------------------------------------------
\* An internal sensor stops answering, or answers again.
Toggle(s) ==
    /\ works' = IF s \in works THEN works \ {s} ELSE works \cup {s}
    /\ silence' = (IF watched = s THEN 0 ELSE silence)
    /\ UNCHANGED <<fusion, adapter, ready, unseen, given>>

\* How long data may be missing before the decision node knows.
Notice(s) ==
    NeverAge + Timeout[s] + (IF s = "lidar" THEN StaleWindow ELSE 0)
        + 2 * Jitter + HeartbeatEvery

Older(age, cap) == IF age = Never THEN Never ELSE Capped(age + 1, cap)

TimePasses ==
    /\ ~crashed
    /\ lc = "active" => timer < Jitter /\ hb_age < HeartbeatEvery
    /\ since' = Older(since, TickLimit)
    /\ IF lc = "active" THEN timer' = timer + 1 /\ hb_age' = hb_age + 1
                        ELSE UNCHANGED <<timer, hb_age>>
    /\ adapter' = [arrival |-> Older(adapter.arrival, StaleWindow + 1),
                   event |-> Older(adapter.event, Tolerance + 1)]
    /\ service' = IF service = None THEN None
                  ELSE [service EXCEPT !.snapshot = Older(@, Tolerance + 1)]
    /\ silence' = IF lc # "active" \/ watched \in works THEN silence
                  ELSE Capped(silence + 1, Notice(watched) + 1)
    /\ UNCHANGED <<lc, scan_sub, level, crashed, works, ready, unseen, given>>

Step ==
    \/ OnConfigure
    \/ ConfigureFails
    \/ OnActivate
    \/ OnDeactivate
    \/ OnCleanup
    \/ \E lag \in 0..MaxLag : FeedScan(lag)
    \/ TimerCallback
    \/ Heartbeat
    \/ \E s \in {"imu", "camera"} : Toggle(s)
    \/ TimePasses

Next == Step /\ UNCHANGED watched

Spec == Init /\ [][Next]_vars
-----------------------------------------------------------------------------
(***************************************************************************)
(* Losing a sensor is told: while fusion stays active, the decision node   *)
(* does not believe it nominal once a sensor has been without data for the *)
(* time adapter, degradation policy, timer and heartbeat together take,    *)
(* also when the stamp gate suppresses every frame in that time.  (A       *)
(* sensor that was never heard is told of later than one that was lost, by *)
(* NeverAge.)                                                              *)
(***************************************************************************)
LossIsTold ==
    lc = "active" /\ ready => silence <= Notice(watched)

(***************************************************************************)
(* The objects published are those detected in the last MaxMissedFrames    *)
(* published frames, and no more than one track stands for an object.      *)
(***************************************************************************)
TracksFollowDetections ==
    service # None =>
        /\ \A s, t \in service.tracker.tracks : s.obj = t.obj => s = t
        /\ \A o \in Obj :
              /\ o \in Tracked(service.tracker) => unseen[o] <= MaxMissedFrames
              /\ unseen[o] <= MaxMissedFrames /\ Cardinality(Obj) <= MaxTracks =>
                    o \in Tracked(service.tracker)

(***************************************************************************)
(* Identities are persistent: while an object is tracked its identity does *)
(* not change, and no identity is given to a second object, however long   *)
(* ago the track of the first was pruned.  They begin anew only with       *)
(* on_configure().                                                         *)
(***************************************************************************)
IdsPersist ==
    [][service # None /\ service' # None =>
          \A new \in service'.tracker.tracks :
              /\ \A old \in service.tracker.tracks : old.obj = new.obj => old.id = new.id
              /\ \A g \in given : g.id = new.id => g.obj = new.obj
      ]_vars
=============================================================================
