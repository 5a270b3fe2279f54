---------------------------- MODULE CollisionGuard ----------------------------
(***************************************************************************)
(* domain/execution/collision_guard.hpp as operators on the guard's state. *)
(* A guard is a record: the ranges of the last scan, the age of that scan, *)
(* the age of the last frame in which the robot was free to move, and      *)
(* whether the last clamp() forced a stop.  Ages stand for the differences *)
(* to "now" that the code computes; Never is time_point::min().            *)
(***************************************************************************)
EXTENDS Integers, FiniteSetsExt

CONSTANTS
    StopDist,        \* Params::stop_dist
    SafeDist,        \* Params::safe_dist
    Ahead,           \* the beams within fov_half
    StaleTimeout,    \* Params::stale_timeout
    MinValidEchoes,  \* Params::min_valid_echoes
    CrawlSpeed,      \* Params::crawl_speed
    HoldLimit        \* execute(): blocked longer than this fails the goal

Never == -1
NoEcho == 0          \* inf, NaN, zero or beyond range_max
OpenField == 1000000 \* nearest_in_fov_locked() when nothing is seen: infinity

ASSUME GuardAssumption ==
    /\ StopDist \in Nat /\ SafeDist \in Nat
    /\ StopDist < SafeDist /\ SafeDist < OpenField
    /\ StaleTimeout \in Nat /\ HoldLimit \in Nat
    /\ MinValidEchoes \in Nat /\ CrawlSpeed \in Nat

\* A new CollisionGuard.
InitialGuard == [ranges |-> <<>>, recv |-> Never, ok |-> Never, stop |-> FALSE]

\* set_scan()
SetScan(g, ranges) == [g EXCEPT !.ranges = ranges, !.recv = 0]

\* clear_hold()
ClearHold(g) == [g EXCEPT !.ok = 0, !.stop = FALSE]

\* nearest_in_fov_locked()
NearestInFov(g) ==
    LET echoes == {g.ranges[i] : i \in {j \in DOMAIN g.ranges :
                                          j \in Ahead /\ g.ranges[j] # NoEcho}}
    IN  IF echoes = {} THEN OpenField ELSE Min(echoes)

\* count_valid_locked(): all around, not only ahead.
CountValid(g) == Quantify(DOMAIN g.ranges, LAMBDA i : g.ranges[i] # NoEcho)

\* stale_locked()
Stale(g) == g.recv > StaleTimeout

\* Mutant: a scan without any echo counts as an open field.
MustStopUnlessBlind(g) ==
    /\ g.recv # Never
    /\ \/ Stale(g)
       \/ g.ranges = <<>>
       \/ NearestInFov(g) <= StopDist

\* last_stop_ as clamp() computes it.
MustStop(g) ==
    /\ g.recv # Never
    /\ \/ Stale(g)
       \/ g.ranges = <<>>
       \/ NearestInFov(g) <= StopDist
       \/ MinValidEchoes > 0 /\ CountValid(g) < MinValidEchoes

\* The velocity clamp() returns; speeds are whole millimetres per second.
Clamped(g, cmd_v) ==
    IF MustStop(g) THEN 0
    ELSE IF NearestInFov(g) <= SafeDist
         THEN (cmd_v * (NearestInFov(g) - StopDist)) \div (SafeDist - StopDist)
         ELSE cmd_v

\* An obstacle, or the lack of a scan, is what slows the robot down.
Pressed(g) == MustStop(g) \/ NearestInFov(g) <= SafeDist

\* Mutant: every frame that is not a full stop refreshes the hold timer.
AfterClampDithering(g, cmd_v) ==
    [g EXCEPT !.stop = MustStop(g), !.ok = IF ~MustStop(g) THEN 0 ELSE @]

\* The guard's state after clamp().
AfterClamp(g, cmd_v) ==
    [g EXCEPT !.stop = MustStop(g),
              !.ok = IF ~Pressed(g) \/ Clamped(g, cmd_v) >= CrawlSpeed
                     THEN 0 ELSE @]

\* blocked_for(): since the last free frame or, before any, since the scan.
BlockedFor(g) ==
    IF g.ok # Never THEN g.ok ELSE IF g.recv # Never THEN g.recv ELSE 0

\* Both time points fall back by one period; no comparison looks further.
Older(g) ==
    [g EXCEPT !.recv = IF @ = Never THEN @ ELSE Min({@ + 1, StaleTimeout + 1}),
              !.ok = IF @ = Never THEN @ ELSE Min({@ + 1, HoldLimit + 1})]
=============================================================================
