--------------------------- MODULE SupervisorPolicy ---------------------------
(***************************************************************************)
(* The pure decision kernel of the process supervisor                      *)
(* (domain/monitoring/supervisor_policy.hpp): how one supervised child     *)
(* moves between phases, and which action it asks the node to execute.     *)
(*                                                                         *)
(* Absolute times are replaced by the only two things the code compares:   *)
(* `age` is now - phase_since_ns and `wait` is resume_at_ns - now, never   *)
(* below 0.                                                                *)
(***************************************************************************)
EXTENDS Naturals

CONSTANTS
    Child,           \* names of the supervised children
    Oneshot,         \* children for which exit 0 means the job is done
    MaxRestarts,     \* per child: restarts allowed before FATAL
    BackoffBase,     \* per child: first backoff
    BackoffMax       \* per child: cap of the exponential backoff

ASSUME PolicyAssumption ==
    /\ Oneshot \subseteq Child
    /\ MaxRestarts \in [Child -> Nat]
    /\ BackoffBase \in [Child -> Nat]
    /\ BackoffMax \in [Child -> Nat]

Phase == {"STOPPED", "STARTING", "RUNNING", "BACKOFF", "FATAL"}

Event == {"SPAWNED", "RUNNING", "EXITED_OK", "EXITED_CRASH", "START_TIMEOUT",
          "DEP_RESTARTING", "RUNNING_STABLE", "TICK", "HEALTH_OK",
          "HEALTH_LOST"}

ActionKind == {"NONE", "SPAWN", "KILL", "MARK_FATAL"}

ChildState ==
    [phase : Phase, restarts : Nat, step : Nat, age : Nat, wait : Nat]

InitialChild ==
    [phase |-> "STOPPED", restarts |-> 0, step |-> 0, age |-> 0, wait |-> 0]

(***************************************************************************)
(* base * 2^step while that is below the cap.  Step 0 returns the base     *)
(* before it looks at the cap.                                             *)
(***************************************************************************)
BackoffNs(c, step) ==
    LET v == BackoffBase[c] * 2^step
    IN  CASE step = 0                                   -> BackoffBase[c]
          [] step # 0 /\ v \in BackoffBase[c]..BackoffMax[c] -> v
          [] OTHER                                      -> BackoffMax[c]

-----------------------------------------------------------------------------
(***************************************************************************)
(* A result of the policy: the child's next state, the action the node is  *)
(* to execute, and how far in the future a SPAWN is due.                   *)
(***************************************************************************)
Result(st, kind, at) == [st |-> st, kind |-> kind, at |-> at]

Enter(s, phase) == [s EXCEPT !.phase = phase, !.age = 0]

\* Mutant: a child that runs out of budget is marked, but not killed.
EnterBackoffKeepsFatal(c, s, kind) ==
    LET delay == BackoffNs(c, s.step)
    IN  IF s.restarts + 1 > MaxRestarts[c]
        THEN Result(Enter([s EXCEPT !.restarts = @ + 1], "FATAL"), "NONE", 0)
        ELSE Result([Enter(s, "BACKOFF") EXCEPT !.restarts = @ + 1,
                                                !.wait = delay,
                                                !.step = @ + 1],
                    kind, delay)

EnterBackoff(c, s, kind) ==
    LET counted == [s EXCEPT !.restarts = @ + 1]
        delay   == BackoffNs(c, s.step)
    IN  IF counted.restarts > MaxRestarts[c]
        THEN Result(Enter(counted, "FATAL"), "MARK_FATAL", 0)
        ELSE Result([Enter(counted, "BACKOFF") EXCEPT !.wait = delay,
                                                      !.step = @ + 1],
                    kind, delay)

\* Mutant: the stable window clears the budget but not the backoff step.
ForgiveBudgetOnly(s) == [s EXCEPT !.restarts = 0]

\* Mutant: a stable window gives one restart back, whether or not one was
\* used.
ForgiveOne(s) == [s EXCEPT !.restarts = @ - 1, !.step = @ - 1]

\* The budget and the backoff curve start afresh.
Forgive(s) == [s EXCEPT !.restarts = 0, !.step = 0]

OnStopped(s, ev) ==
    Result(IF ev = "SPAWNED" THEN Enter(s, "STARTING") ELSE s, "NONE", 0)

OnExitOk(c, s) ==
    IF c \in Oneshot
    THEN Result(Forgive(Enter(s, "STOPPED")), "NONE", 0)
    ELSE EnterBackoff(c, s, "SPAWN")

OnStarting(c, s, ev) ==
    CASE ev \in {"RUNNING", "HEALTH_OK"} ->
            Result(Enter(s, "RUNNING"), "NONE", 0)
      [] ev = "EXITED_OK" -> OnExitOk(c, s)
      [] ev \in {"EXITED_CRASH", "START_TIMEOUT"} ->
            EnterBackoff(c, s, "SPAWN")
      [] ev = "DEP_RESTARTING" -> Result(Enter(s, "STOPPED"), "KILL", 0)
      [] OTHER -> Result(s, "NONE", 0)

\* Mutant: a hung child is scheduled for a restart without being killed.
OnRunningNoKill(c, s, ev) ==
    CASE ev = "EXITED_OK" -> OnExitOk(c, s)
      [] ev \in {"EXITED_CRASH", "HEALTH_LOST"} -> EnterBackoff(c, s, "SPAWN")
      [] ev = "DEP_RESTARTING" -> Result(Enter(s, "STOPPED"), "KILL", 0)
      [] ev = "RUNNING_STABLE" -> Result(Forgive(s), "NONE", 0)
      [] OTHER -> Result(s, "NONE", 0)

OnRunning(c, s, ev) ==
    CASE ev = "EXITED_OK" -> OnExitOk(c, s)
      [] ev = "EXITED_CRASH" -> EnterBackoff(c, s, "SPAWN")
      [] ev = "HEALTH_LOST" -> EnterBackoff(c, s, "KILL")
      [] ev = "DEP_RESTARTING" -> Result(Enter(s, "STOPPED"), "KILL", 0)
      [] ev = "RUNNING_STABLE" -> Result(Forgive(s), "NONE", 0)
      [] OTHER -> Result(s, "NONE", 0)

\* Mutant: the comparison with the resume time is the wrong way round.
OnBackoffReversed(s, ev) ==
    CASE ev = "TICK" /\ s.wait > 0 -> Result(Enter(s, "STARTING"), "SPAWN", 0)
      [] ev = "DEP_RESTARTING" -> Result(Enter(s, "STOPPED"), "NONE", 0)
      [] OTHER -> Result(s, "NONE", 0)

OnBackoff(s, ev) ==
    CASE ev = "TICK" /\ s.wait = 0 -> Result(Enter(s, "STARTING"), "SPAWN", 0)
      [] ev = "DEP_RESTARTING" -> Result(Enter(s, "STOPPED"), "NONE", 0)
      [] OTHER -> Result(s, "NONE", 0)

(***************************************************************************)
(* transition(): one event applied to one child.  FATAL absorbs all.       *)
(***************************************************************************)
Transition(c, s, ev) ==
    CASE s.phase = "STOPPED"  -> OnStopped(s, ev)
      [] s.phase = "STARTING" -> OnStarting(c, s, ev)
      [] s.phase = "RUNNING"  -> OnRunning(c, s, ev)
      [] s.phase = "BACKOFF"  -> OnBackoff(s, ev)
      [] s.phase = "FATAL"    -> Result(s, "NONE", 0)
=============================================================================
