-------------------------- MODULE SupervisorProofs --------------------------
(***************************************************************************)
(* Theorems about Supervisor, for every set of children, every acyclic     *)
(* dependency graph, every policy and every health mapping; and about the  *)
(* order TopoOrder computes, for every list of children.                   *)
(***************************************************************************)
EXTENDS Supervisor, TopoOrder, FiniteSetTheorems, WellFoundedInduction, TLAPS

\* The values the bundle <<st, proc, done, leaked>> may take.
World == [st : [Child -> ChildState], proc : [Child -> Proc],
          done : [Child -> BOOLEAN], leaked : SUBSET Child]

ResultType == [st : ChildState, kind : ActionKind, at : Nat]

-----------------------------------------------------------------------------
(* The policy kernel *)

\* The backoff is a natural number, whatever the step (backoff_ns()).
LEMMA BackoffNsType ==
    ASSUME NEW c \in Child, NEW step \in Nat
    PROVE  BackoffNs(c, step) \in Nat
<1> DEFINE v == BackoffBase[c] * 2^step
<1>1. BackoffBase[c] \in Nat /\ BackoffMax[c] \in Nat
  BY PolicyAssumption
<1>2. CASE step = 0
  BY <1>1, <1>2 DEF BackoffNs
<1>3. CASE step # 0 /\ v \in BackoffBase[c]..BackoffMax[c]
  <2>1. BackoffNs(c, step) = v
    BY <1>3 DEF BackoffNs
  <2> HIDE DEF v
  <2>2. QED
    BY <1>1, <1>3, <2>1
<1>4. CASE step # 0 /\ v \notin BackoffBase[c]..BackoffMax[c]
  <2>1. BackoffNs(c, step) = BackoffMax[c]
    BY <1>4 DEF BackoffNs
  <2>2. QED
    BY <1>1, <2>1
<1>5. QED
  BY <1>2, <1>3, <1>4

\* With a positive base and cap the backoff is never zero.
LEMMA BackoffNsPositive ==
    ASSUME NEW c \in Child, NEW step \in Nat,
           BackoffBase[c] > 0, BackoffMax[c] > 0
    PROVE  BackoffNs(c, step) > 0
<1> DEFINE v == BackoffBase[c] * 2^step
<1>1. BackoffBase[c] \in Nat /\ BackoffMax[c] \in Nat
  BY PolicyAssumption
<1>2. CASE step = 0
  BY <1>1, <1>2 DEF BackoffNs
<1>3. CASE step # 0 /\ v \in BackoffBase[c]..BackoffMax[c]
  <2>1. BackoffNs(c, step) = v
    BY <1>3 DEF BackoffNs
  <2> HIDE DEF v
  <2>2. QED
    BY <1>1, <1>3, <2>1
<1>4. CASE step # 0 /\ v \notin BackoffBase[c]..BackoffMax[c]
  <2>1. BackoffNs(c, step) = BackoffMax[c]
    BY <1>4 DEF BackoffNs
  <2>2. QED
    BY <1>1, <2>1
<1>5. QED
  BY <1>2, <1>3, <1>4

\* enter_backoff(): what it returns, field by field.
LEMMA EnterBackoffFacts ==
    ASSUME NEW c \in Child, NEW s \in ChildState, NEW k \in ActionKind
    PROVE  LET r == EnterBackoff(c, s, k) IN
           /\ r \in ResultType
           /\ r.st.restarts = s.restarts + 1
           /\ \/ /\ r.st.restarts > MaxRestarts[c]
                 /\ r.st.phase = "FATAL" /\ r.st.step = s.step
                 /\ r.kind = "MARK_FATAL"
              \/ /\ r.st.restarts <= MaxRestarts[c]
                 /\ r.st.phase = "BACKOFF" /\ r.st.step = s.step + 1
                 /\ r.kind = k /\ r.at = BackoffNs(c, s.step)
<1> DEFINE d == BackoffNs(c, s.step)
           n == s.restarts + 1
           F == [phase |-> "FATAL", restarts |-> n, step |-> s.step,
                 age |-> 0, wait |-> s.wait]
           B == [phase |-> "BACKOFF", restarts |-> n, step |-> s.step + 1,
                 age |-> 0, wait |-> d]
<1>1. d \in Nat /\ n \in Nat /\ MaxRestarts[c] \in Nat
  BY BackoffNsType, PolicyAssumption DEF ChildState
<1>2. F \in ChildState /\ B \in ChildState
  BY <1>1 DEF ChildState, Phase
<1>3. CASE n > MaxRestarts[c]
  <2>1. EnterBackoff(c, s, k) = [st |-> F, kind |-> "MARK_FATAL", at |-> 0]
    BY <1>3 DEF EnterBackoff, Enter, Result, ChildState
  <2>2. QED
    BY <1>1, <1>2, <1>3, <2>1 DEF ResultType, ActionKind
<1>4. CASE ~(n > MaxRestarts[c])
  <2>1. EnterBackoff(c, s, k) = [st |-> B, kind |-> k, at |-> d]
    BY <1>4 DEF EnterBackoff, Enter, Result, ChildState
  <2>2. QED
    BY <1>1, <1>2, <1>4, <2>1 DEF ResultType, ActionKind
<1>5. QED
  BY <1>3, <1>4

\* Forgetting the restarts, or entering a phase, keeps a child well typed.
LEMMA EnterForgiveType ==
    ASSUME NEW s \in ChildState, NEW ph \in Phase
    PROVE  /\ Enter(s, ph) \in ChildState
           /\ Enter(s, ph).phase = ph
           /\ Enter(s, ph).restarts = s.restarts
           /\ Enter(s, ph).step = s.step
           /\ Forgive(s) \in ChildState
           /\ Forgive(s).phase = s.phase
           /\ Forgive(s).restarts = 0 /\ Forgive(s).step = 0
BY DEF Enter, Forgive, ChildState

(***************************************************************************)
(* transition(): the moves of the policy kernel.  Nothing else than these  *)
(* moves happens, whatever event meets whatever phase.                     *)
(***************************************************************************)
Moves(c, s, ev, t) ==
    /\ s.phase = "FATAL" => t.st.phase = "FATAL" /\ t.kind = "NONE"
    /\ s.phase = "STOPPED" =>
         /\ t.kind = "NONE"
         /\ t.st.phase = IF ev = "SPAWNED" THEN "STARTING" ELSE "STOPPED"
    /\ s.phase = "BACKOFF" =>
         \/ /\ ev # "DEP_RESTARTING"
            /\ t.st.phase = "BACKOFF" /\ t.kind = "NONE"
         \/ ev = "TICK" /\ t.st.phase = "STARTING" /\ t.kind = "SPAWN"
         \/ ev = "DEP_RESTARTING" /\ t.st.phase = "STOPPED" /\ t.kind = "NONE"
    /\ s.phase \in Up =>
         \/ /\ t.st.phase \in Up /\ t.kind = "NONE"
            /\ s.phase = "RUNNING" => t.st.phase = "RUNNING"
            /\ ev \notin {"EXITED_OK", "EXITED_CRASH", "DEP_RESTARTING"}
            /\ ~(ev = "START_TIMEOUT" /\ s.phase = "STARTING")
         \/ /\ ev = "EXITED_OK" /\ c \in Oneshot
            /\ t.st.phase = "STOPPED" /\ t.kind = "NONE"
         \/ ev = "DEP_RESTARTING" /\ t.st.phase = "STOPPED" /\ t.kind = "KILL"
         \/ /\ ev # "DEP_RESTARTING"
            /\ t.st.phase = "FATAL" /\ t.kind = "MARK_FATAL"
         \/ /\ ev \in {"EXITED_OK", "EXITED_CRASH", "START_TIMEOUT"}
            /\ t.st.phase = "BACKOFF" /\ t.kind = "SPAWN"
            /\ t.at = BackoffNs(c, s.step)
         \/ /\ ev = "HEALTH_LOST"
            /\ t.st.phase = "BACKOFF" /\ t.kind = "KILL"

\* transition() moves a child only along the edges that Moves lists.
LEMMA TransitionFacts ==
    ASSUME NEW c \in Child, NEW s \in ChildState, NEW ev \in Event
    PROVE  LET t == Transition(c, s, ev) IN
           /\ t \in ResultType
           /\ Moves(c, s, ev, t)
           /\ WithinBudget(c, s) => WithinBudget(c, t.st)
<1> DEFINE t == Transition(c, s, ev)
           Good(r) == /\ r \in ResultType
                      /\ Moves(c, s, ev, r)
                      /\ WithinBudget(c, s) => WithinBudget(c, r.st)
<1>1. /\ \A ph \in Phase : /\ Enter(s, ph) \in ChildState
                           /\ Enter(s, ph).phase = ph
                           /\ Enter(s, ph).restarts = s.restarts
                           /\ Enter(s, ph).step = s.step
                           /\ Forgive(Enter(s, ph)) \in ChildState
                           /\ Forgive(Enter(s, ph)).phase = ph
                           /\ Forgive(Enter(s, ph)).restarts = 0
                           /\ Forgive(Enter(s, ph)).step = 0
      /\ Forgive(s) \in ChildState /\ Forgive(s).phase = s.phase
      /\ Forgive(s).restarts = 0 /\ Forgive(s).step = 0
  BY EnterForgiveType DEF Phase
<1>2. s.phase \in Phase /\ s.restarts \in Nat /\ s.step \in Nat
  BY DEF ChildState
<1>3. MaxRestarts[c] \in Nat
  BY PolicyAssumption
<1>4. ASSUME NEW r \in ChildState, NEW k \in ActionKind
      PROVE  /\ Result(r, k, 0) \in ResultType
             /\ Result(r, k, 0).st = r /\ Result(r, k, 0).kind = k
  BY DEF Result, ResultType
<1>5. CASE s.phase = "FATAL"
  <2>1. t = Result(s, "NONE", 0)
    BY <1>5 DEF Transition
  <2>2. Good(Result(s, "NONE", 0))
    BY <1>4, <1>5 DEF Moves, Up, ActionKind
  <2>3. QED
    BY <2>1, <2>2
<1>6. CASE s.phase = "STOPPED"
  <2>1. t = OnStopped(s, ev)
    BY <1>6 DEF Transition
  <2>2. CASE ev = "SPAWNED"
    <3>1. t = Result(Enter(s, "STARTING"), "NONE", 0)
      BY <2>1, <2>2 DEF OnStopped
    <3>2. Good(Result(Enter(s, "STARTING"), "NONE", 0))
      BY <1>1, <1>4, <1>6, <2>2
      DEF Moves, Up, ActionKind, WithinBudget, Phase
    <3>3. QED
      BY <3>1, <3>2
  <2>3. CASE ev # "SPAWNED"
    <3>1. t = Result(s, "NONE", 0)
      BY <2>1, <2>3 DEF OnStopped
    <3>2. Good(Result(s, "NONE", 0))
      BY <1>4, <1>6, <2>3 DEF Moves, Up, ActionKind
    <3>3. QED
      BY <3>1, <3>2
  <2>4. QED
    BY <2>2, <2>3
<1>7. CASE s.phase = "BACKOFF"
  <2>1. t = OnBackoff(s, ev)
    BY <1>7 DEF Transition
  <2>2. CASE ev = "TICK" /\ s.wait = 0
    <3>1. t = Result(Enter(s, "STARTING"), "SPAWN", 0)
      BY <2>1, <2>2 DEF OnBackoff
    <3>2. Good(Result(Enter(s, "STARTING"), "SPAWN", 0))
      BY <1>1, <1>4, <1>7, <2>2
      DEF Moves, Up, ActionKind, WithinBudget, Phase
    <3>3. QED
      BY <3>1, <3>2
  <2>3. CASE ev = "DEP_RESTARTING"
    <3>1. t = Result(Enter(s, "STOPPED"), "NONE", 0)
      BY <2>1, <2>3 DEF OnBackoff
    <3>2. Good(Result(Enter(s, "STOPPED"), "NONE", 0))
      BY <1>1, <1>4, <1>7, <2>3
      DEF Moves, Up, ActionKind, WithinBudget, Phase
    <3>3. QED
      BY <3>1, <3>2
  <2>4. CASE ~(ev = "TICK" /\ s.wait = 0) /\ ev # "DEP_RESTARTING"
    <3>1. t = Result(s, "NONE", 0)
      BY <2>1, <2>4 DEF OnBackoff
    <3>2. Good(Result(s, "NONE", 0))
      BY <1>4, <1>7, <2>4 DEF Moves, Up, ActionKind
    <3>3. QED
      BY <3>1, <3>2
  <2>5. QED
    BY <2>2, <2>3, <2>4
<1>8. CASE s.phase \in Up
  <2>1. ASSUME NEW k \in {"SPAWN", "KILL"},
               k = "SPAWN" => ev \in {"EXITED_OK", "EXITED_CRASH", "START_TIMEOUT"},
               k = "KILL" => ev = "HEALTH_LOST"
        PROVE  Good(EnterBackoff(c, s, k))
    <3> DEFINE r == EnterBackoff(c, s, k)
    <3>0. k \in ActionKind /\ ev # "DEP_RESTARTING"
      BY <2>1 DEF ActionKind
    <3>1. /\ r \in ResultType
          /\ r.st.restarts = s.restarts + 1
          /\ \/ /\ r.st.restarts > MaxRestarts[c]
                /\ r.st.phase = "FATAL" /\ r.st.step = s.step
                /\ r.kind = "MARK_FATAL"
             \/ /\ r.st.restarts <= MaxRestarts[c]
                /\ r.st.phase = "BACKOFF" /\ r.st.step = s.step + 1
                /\ r.kind = k /\ r.at = BackoffNs(c, s.step)
      BY <3>0, EnterBackoffFacts
    <3> HIDE DEF r
    <3>2. Moves(c, s, ev, r)
      BY <1>8, <2>1, <3>0, <3>1 DEF Moves, Up
    <3>3. WithinBudget(c, s) => WithinBudget(c, r.st)
      BY <1>2, <1>3, <1>8, <3>1 DEF WithinBudget, Up
    <3>4. QED
      BY <3>1, <3>2, <3>3 DEF r
  <2>2. ASSUME ev = "EXITED_OK"
        PROVE  Good(OnExitOk(c, s))
    <3>1. CASE c \in Oneshot
      <4>1. OnExitOk(c, s) = Result(Forgive(Enter(s, "STOPPED")), "NONE", 0)
        BY <3>1 DEF OnExitOk
      <4>2. Good(Result(Forgive(Enter(s, "STOPPED")), "NONE", 0))
        BY <1>1, <1>3, <1>4, <1>8, <2>2, <3>1
        DEF Moves, Up, ActionKind, WithinBudget, Phase
      <4>3. QED
        BY <4>1, <4>2
    <3>2. CASE c \notin Oneshot
      <4>1. OnExitOk(c, s) = EnterBackoff(c, s, "SPAWN")
        BY <3>2 DEF OnExitOk
      <4>2. QED
        BY <2>1, <2>2, <4>1
    <3>3. QED
      BY <3>1, <3>2
  <2>3. ASSUME ev = "DEP_RESTARTING"
        PROVE  Good(Result(Enter(s, "STOPPED"), "KILL", 0))
    BY <1>1, <1>4, <1>8, <2>3
    DEF Moves, Up, ActionKind, WithinBudget, Phase
  <2>4. CASE s.phase = "STARTING"
    <3>1. t = OnStarting(c, s, ev)
      BY <2>4 DEF Transition
    <3>2. CASE ev \in {"RUNNING", "HEALTH_OK"}
      <4>1. t = Result(Enter(s, "RUNNING"), "NONE", 0)
        BY <3>1, <3>2 DEF OnStarting
      <4>2. Good(Result(Enter(s, "RUNNING"), "NONE", 0))
        BY <1>1, <1>4, <1>8, <3>2
        DEF Moves, Up, ActionKind, WithinBudget, Phase
      <4>3. QED
        BY <4>1, <4>2
    <3>3. CASE ev = "EXITED_OK"
      <4>1. t = OnExitOk(c, s)
        BY <3>1, <3>3 DEF OnStarting
      <4>2. QED
        BY <2>2, <3>3, <4>1
    <3>4. CASE ev \in {"EXITED_CRASH", "START_TIMEOUT"}
      <4>1. t = EnterBackoff(c, s, "SPAWN")
        BY <3>1, <3>4 DEF OnStarting
      <4>2. QED
        BY <2>1, <3>4, <4>1
    <3>5. CASE ev = "DEP_RESTARTING"
      <4>1. t = Result(Enter(s, "STOPPED"), "KILL", 0)
        BY <3>1, <3>5 DEF OnStarting
      <4>2. QED
        BY <2>3, <3>5, <4>1
    <3>6. CASE ev \notin {"RUNNING", "HEALTH_OK", "EXITED_OK", "EXITED_CRASH",
                        "START_TIMEOUT", "DEP_RESTARTING"}
      <4>1. t = Result(s, "NONE", 0)
        BY <3>1, <3>6 DEF OnStarting
      <4>2. Good(Result(s, "NONE", 0))
        BY <1>4, <1>8, <3>6 DEF Moves, Up, ActionKind
      <4>3. QED
        BY <4>1, <4>2
    <3>7. QED
      BY <3>2, <3>3, <3>4, <3>5, <3>6
  <2>5. CASE s.phase = "RUNNING"
    <3>1. t = OnRunning(c, s, ev)
      BY <2>5 DEF Transition
    <3>2. CASE ev = "RUNNING_STABLE"
      <4>1. t = Result(Forgive(s), "NONE", 0)
        BY <3>1, <3>2 DEF OnRunning
      <4>2. Good(Result(Forgive(s), "NONE", 0))
        BY <1>1, <1>3, <1>4, <2>5, <3>2
        DEF Moves, Up, ActionKind, WithinBudget
      <4>3. QED
        BY <4>1, <4>2
    <3>3. CASE ev = "EXITED_OK"
      <4>1. t = OnExitOk(c, s)
        BY <3>1, <3>3 DEF OnRunning
      <4>2. QED
        BY <2>2, <3>3, <4>1
    <3>4. CASE ev = "EXITED_CRASH"
      <4>1. t = EnterBackoff(c, s, "SPAWN")
        BY <3>1, <3>4 DEF OnRunning
      <4>2. QED
        BY <2>1, <3>4, <4>1
    <3>5. CASE ev = "HEALTH_LOST"
      <4>1. t = EnterBackoff(c, s, "KILL")
        BY <3>1, <3>5 DEF OnRunning
      <4>2. QED
        BY <2>1, <3>5, <4>1
    <3>6. CASE ev = "DEP_RESTARTING"
      <4>1. t = Result(Enter(s, "STOPPED"), "KILL", 0)
        BY <3>1, <3>6 DEF OnRunning
      <4>2. QED
        BY <2>3, <3>6, <4>1
    <3>7. CASE ev \notin {"RUNNING_STABLE", "EXITED_OK", "EXITED_CRASH",
                        "HEALTH_LOST", "DEP_RESTARTING"}
      <4>1. t = Result(s, "NONE", 0)
        BY <3>1, <3>7 DEF OnRunning
      <4>2. Good(Result(s, "NONE", 0))
        BY <1>4, <2>5, <3>7 DEF Moves, Up, ActionKind
      <4>3. QED
        BY <4>1, <4>2
    <3>8. QED
      BY <3>2, <3>3, <3>4, <3>5, <3>6, <3>7
  <2>6. QED
    BY <1>8, <2>4, <2>5 DEF Up
<1>9. QED
  BY <1>2, <1>5, <1>6, <1>7, <1>8 DEF Phase, Up

-----------------------------------------------------------------------------
(* The dependency graph *)

\* Dependents are closed under dependents.
LEMMA DependentsClosed ==
    ASSUME NEW c \in Child, NEW y \in Child
    PROVE  /\ c \in Deps[y] => y \in TransitiveDependents(c)
           /\ \A x \in TransitiveDependents(c) :
                 x \in Deps[y] => y \in TransitiveDependents(c)
<1>1. c \in Deps[y] => y \in TransitiveDependents(c)
  BY DEF TransitiveDependents
<1>2. ASSUME NEW x \in TransitiveDependents(c), x \in Deps[y]
      PROVE  y \in TransitiveDependents(c)
  <2>1. ASSUME NEW S \in SUBSET Child, Downward(S),
               \A z \in Child : c \in Deps[z] => z \in S
        PROVE  y \in S
    <3>1. x \in S
      BY <2>1 DEF TransitiveDependents
    <3>2. QED
      BY <1>2, <2>1, <3>1 DEF Downward
  <2>2. QED
    BY <2>1 DEF TransitiveDependents
<1>3. QED
  BY <1>1, <1>2

\* No child depends on itself: topo_order() accepted the graph.
LEMMA NotOwnDependent ==
    ASSUME NEW c \in Child
    PROVE  c \notin TransitiveDependents(c)
<1> DEFINE I == 1..Len(Topo)
           S == {x \in Child : \E i \in I, j \in I :
                                  Topo[i] = c /\ Topo[j] = x /\ i < j}
<1>1. I \subseteq Nat
  BY DepsAssumption
<1>2. \A i \in I, j \in I : Topo[i] = Topo[j] => i = j
  BY DepsAssumption
<1>3. \A i \in I : \A d \in Deps[Topo[i]] : \E j \in I : j < i /\ Topo[j] = d
  BY DepsAssumption
<1>4. \A x \in Child : \E i \in I : Topo[i] = x
  BY DepsAssumption
<1> HIDE DEF I
<1>5. Downward(S)
  <2>1. ASSUME NEW x \in Child, NEW d \in Deps[x], d \in S
        PROVE  x \in S
    <3>1. PICK i \in I, j \in I : Topo[i] = c /\ Topo[j] = d /\ i < j
      BY <2>1
    <3>2. PICK k \in I : Topo[k] = x
      BY <1>4
    <3>3. PICK m \in I : m < k /\ Topo[m] = d
      BY <1>3, <3>2
    <3>4. m = j
      BY <1>2, <3>1, <3>3
    <3>5. i < k
      BY <1>1, <3>1, <3>3, <3>4
    <3>6. QED
      BY <3>1, <3>2, <3>5
  <2>2. QED
    BY <2>1 DEF Downward
<1>6. ASSUME NEW y \in Child, c \in Deps[y]
      PROVE  y \in S
  <2>1. PICK k \in I : Topo[k] = y
    BY <1>4
  <2>2. PICK m \in I : m < k /\ Topo[m] = c
    BY <1>3, <1>6, <2>1
  <2>3. QED
    BY <2>1, <2>2
<1>7. c \notin S
  BY <1>1, <1>2
<1>8. QED
  BY <1>5, <1>6, <1>7 DEF TransitiveDependents

-----------------------------------------------------------------------------
(* feed() and what it calls *)

\* cascade_yield(): what it leaves of every child.
LEMMA CascadeFacts ==
    ASSUME NEW w \in World, NEW c \in Child
    PROVE  LET v == CascadeYield(w, c)
               T == TransitiveDependents(c)
           IN  /\ v \in World
               /\ v.leaked = w.leaked
               /\ \A x \in Child \ T : /\ v.st[x] = w.st[x]
                                      /\ v.proc[x] = w.proc[x]
                                      /\ v.done[x] = w.done[x]
               /\ \A x \in T :
                    /\ ~v.done[x]
                    /\ v.st[x].phase \in {"STOPPED", "FATAL"}
                    /\ v.proc[x] = IF w.st[x].phase \in Up THEN "none"
                                                         ELSE w.proc[x]
               /\ \A x \in Child : WithinBudget(x, w.st[x]) =>
                                     WithinBudget(x, v.st[x])
<1> DEFINE T == TransitiveDependents(c)
           yields(x) == x \in T /\ w.st[x].phase \notin {"STOPPED", "FATAL"}
           D == [x \in Child |-> w.done[x] /\ x \notin T]
           S == [x \in Child |->
                   IF yields(x) THEN Yield(x, w.st[x]).st ELSE w.st[x]]
           P == [x \in Child |->
                   IF yields(x) /\ Yield(x, w.st[x]).kind = "KILL"
                   THEN "none" ELSE w.proc[x]]
           v == CascadeYield(w, c)
<1>1. /\ w.st \in [Child -> ChildState] /\ w.proc \in [Child -> Proc]
      /\ w.done \in [Child -> BOOLEAN] /\ w.leaked \in SUBSET Child
  BY DEF World
<1>2. v = [w EXCEPT !.done = D, !.st = S, !.proc = P]
  BY DEF CascadeYield
<1> HIDE DEF v
<1>3. /\ v.done = D /\ v.st = S /\ v.proc = P /\ v.leaked = w.leaked
      /\ v = [st |-> S, proc |-> P, done |-> D, leaked |-> w.leaked]
  BY <1>2 DEF World
<1>4. ASSUME NEW x \in Child
      PROVE  /\ Yield(x, w.st[x]).st \in ChildState
             /\ WithinBudget(x, w.st[x]) =>
                  WithinBudget(x, Yield(x, w.st[x]).st)
             /\ w.st[x].phase \in Up =>
                  /\ Yield(x, w.st[x]).st.phase = "STOPPED"
                  /\ Yield(x, w.st[x]).kind = "KILL"
             /\ w.st[x].phase = "BACKOFF" =>
                  /\ Yield(x, w.st[x]).kind # "KILL"
                  /\ Yield(x, w.st[x]).st.phase = "STOPPED"
  <2>1. w.st[x] \in ChildState /\ "DEP_RESTARTING" \in Event
    BY <1>1 DEF Event
  <2>2. /\ Yield(x, w.st[x]) \in ResultType
        /\ Moves(x, w.st[x], "DEP_RESTARTING", Yield(x, w.st[x]))
        /\ WithinBudget(x, w.st[x]) => WithinBudget(x, Yield(x, w.st[x]).st)
    BY <2>1, TransitionFacts DEF Yield
  <2>3. QED
    BY <2>2 DEF Moves, ResultType, Up
<1>5. \A x \in Child : w.st[x].phase \in Phase
  BY <1>1 DEF ChildState
<1>6. S \in [Child -> ChildState] /\ P \in [Child -> Proc]
      /\ D \in [Child -> BOOLEAN]
  BY <1>1, <1>4 DEF Proc
<1>7. v \in World
  BY <1>1, <1>3, <1>6 DEF World
<1>8. \A x \in Child \ T : /\ v.st[x] = w.st[x]
                          /\ v.proc[x] = w.proc[x]
                          /\ v.done[x] = w.done[x]
  <2>1. \A x \in Child \ T : D[x] = w.done[x]
    BY <1>1
  <2>2. QED
    BY <1>3, <2>1
<1>9. ASSUME NEW x \in T
      PROVE  /\ ~v.done[x]
             /\ v.st[x].phase \in {"STOPPED", "FATAL"}
             /\ v.proc[x] = IF w.st[x].phase \in Up THEN "none"
                                                  ELSE w.proc[x]
  <2>1. x \in Child
    BY DEF TransitiveDependents
  <2>2. ~v.done[x]
    BY <1>3, <2>1
  <2>3. v.st[x].phase \in {"STOPPED", "FATAL"}
    BY <1>3, <1>4, <1>5, <2>1 DEF Phase, Up
  <2>4. v.proc[x] = IF w.st[x].phase \in Up THEN "none" ELSE w.proc[x]
    BY <1>3, <1>4, <1>5, <2>1 DEF Phase, Up
  <2>5. QED
    BY <2>2, <2>3, <2>4
<1>10. \A x \in Child : WithinBudget(x, w.st[x]) => WithinBudget(x, v.st[x])
  BY <1>3, <1>4
<1>11. QED
  BY <1>3, <1>7, <1>8, <1>9, <1>10 DEF v

\* feed(): the death of c, as its caller sees it.
Dies(w, c, ev) ==
    w.st[c].phase \in Up /\ Transition(c, w.st[c], ev).st.phase \in Dead

Finishes(w, c, ev) ==
    /\ c \in Oneshot /\ ev = "EXITED_OK"
    /\ Transition(c, w.st[c], ev).st.phase = "STOPPED"

\* feed(): what it leaves of the child it is called for and of the others.
FeedResult(w, c, ev, f) ==
    LET t == Transition(c, w.st[c], ev)
        T == IF Dies(w, c, ev) THEN TransitiveDependents(c) ELSE {}
    IN  /\ f \in World
        /\ f.leaked = w.leaked
        /\ f.st[c] = t.st
        /\ f.done[c] = (w.done[c] \/ Finishes(w, c, ev))
        /\ f.proc[c] = IF t.kind \in {"KILL", "MARK_FATAL"} THEN "none"
                                                          ELSE w.proc[c]
        /\ \A x \in Child \ T : x # c => /\ f.st[x] = w.st[x]
                                       /\ f.proc[x] = w.proc[x]
                                       /\ f.done[x] = w.done[x]
        /\ \A x \in T : /\ ~f.done[x]
                        /\ f.st[x].phase \in {"STOPPED", "FATAL"}
                        /\ f.proc[x] = IF w.st[x].phase \in Up THEN "none"
                                                             ELSE w.proc[x]
        /\ \A x \in Child : WithinBudget(x, w.st[x]) =>
                              WithinBudget(x, f.st[x])

\* feed() without its spawn: FeedResult describes what it leaves of the world.
LEMMA FeedFacts ==
    ASSUME NEW w \in World, NEW c \in Child, NEW ev \in Event
    PROVE  FeedResult(w, c, ev, Feed(w, c, ev))
<1> DEFINE t == Transition(c, w.st[c], ev)
           T == TransitiveDependents(c)
           fin == Finishes(w, c, ev)
           marked == [st |-> [w.st EXCEPT ![c] = t.st], proc |-> w.proc,
                      done |-> IF fin THEN [w.done EXCEPT ![c] = TRUE]
                                      ELSE w.done,
                      leaked |-> w.leaked]
           yielded == IF Dies(w, c, ev) THEN CascadeYield(marked, c)
                                        ELSE marked
           kills == t.kind \in {"KILL", "MARK_FATAL"}
           f == IF kills THEN KillChild(yielded, c) ELSE yielded
<1>1. /\ w.st \in [Child -> ChildState] /\ w.proc \in [Child -> Proc]
      /\ w.done \in [Child -> BOOLEAN] /\ w.leaked \in SUBSET Child
      /\ w = [st |-> w.st, proc |-> w.proc, done |-> w.done,
              leaked |-> w.leaked]
  BY DEF World
<1>2. /\ t \in ResultType
      /\ WithinBudget(c, w.st[c]) => WithinBudget(c, t.st)
  BY <1>1, TransitionFacts
<1> HIDE DEF t
<1>3. Feed(w, c, ev) = f
  <2>1. [w EXCEPT !.st[c] = t.st] =
          [st |-> [w.st EXCEPT ![c] = t.st], proc |-> w.proc,
           done |-> w.done, leaked |-> w.leaked]
    BY <1>1
  <2>2. (IF fin THEN [[w EXCEPT !.st[c] = t.st] EXCEPT !.done[c] = TRUE]
                ELSE [w EXCEPT !.st[c] = t.st]) = marked
    BY <2>1
  <2>3. QED
    BY <2>2 DEF Feed, Finishes, Dies, t
<1>4. marked \in World
  BY <1>1, <1>2 DEF World, ResultType
<1>5. /\ marked.st[c] = t.st
      /\ \A x \in Child : x # c => marked.st[x] = w.st[x]
      /\ marked.proc = w.proc /\ marked.leaked = w.leaked
  BY <1>1
<1>6. /\ marked.done[c] = (w.done[c] \/ fin)
      /\ \A x \in Child : x # c => marked.done[x] = w.done[x]
  BY <1>1
<1>7. \A x \in Child : WithinBudget(x, w.st[x]) => WithinBudget(x, marked.st[x])
  BY <1>2, <1>5
<1> HIDE DEF marked, fin
<1>8. c \notin T /\ T \subseteq Child
  BY NotOwnDependent DEF TransitiveDependents
<1>9. ASSUME NEW y \in World, NEW z, z = IF kills THEN KillChild(y, c) ELSE y
      PROVE  /\ z \in World
             /\ z.st = y.st /\ z.done = y.done /\ z.leaked = y.leaked
             /\ z.proc[c] = IF kills THEN "none" ELSE y.proc[c]
             /\ \A x \in Child : x # c => z.proc[x] = y.proc[x]
  <2>1. KillChild(y, c) = [st |-> y.st, proc |-> [y.proc EXCEPT ![c] = "none"],
                           done |-> y.done, leaked |-> y.leaked]
    BY DEF KillChild, World
  <2>2. KillChild(y, c) \in World
    BY <2>1 DEF World, Proc
  <2>3. /\ KillChild(y, c).proc[c] = "none"
        /\ \A x \in Child : x # c => KillChild(y, c).proc[x] = y.proc[x]
    BY <2>1 DEF World
  <2>4. QED
    BY <1>9, <2>1, <2>2, <2>3
<1>10. CASE Dies(w, c, ev)
  <2>1. yielded = CascadeYield(marked, c)
    BY <1>10
  <2> HIDE DEF T
  <2>2. /\ yielded \in World /\ yielded.leaked = w.leaked
        /\ yielded.st[c] = t.st /\ yielded.proc[c] = w.proc[c]
        /\ yielded.done[c] = (w.done[c] \/ fin)
        /\ \A x \in Child \ T : x # c => /\ yielded.st[x] = w.st[x]
                                       /\ yielded.proc[x] = w.proc[x]
                                       /\ yielded.done[x] = w.done[x]
        /\ \A x \in T : /\ ~yielded.done[x]
                        /\ yielded.st[x].phase \in {"STOPPED", "FATAL"}
                        /\ yielded.proc[x] = IF w.st[x].phase \in Up
                                             THEN "none" ELSE w.proc[x]
        /\ \A x \in Child : WithinBudget(x, w.st[x]) =>
                              WithinBudget(x, yielded.st[x])
    <3>1. /\ yielded \in World /\ yielded.leaked = marked.leaked
          /\ \A x \in Child \ T : /\ yielded.st[x] = marked.st[x]
                                 /\ yielded.proc[x] = marked.proc[x]
                                 /\ yielded.done[x] = marked.done[x]
          /\ \A x \in T : /\ ~yielded.done[x]
                          /\ yielded.st[x].phase \in {"STOPPED", "FATAL"}
                          /\ yielded.proc[x] =
                               IF marked.st[x].phase \in Up THEN "none"
                                                           ELSE marked.proc[x]
          /\ \A x \in Child : WithinBudget(x, marked.st[x]) =>
                                WithinBudget(x, yielded.st[x])
      BY <1>4, <2>1, CascadeFacts DEF T
    <3> HIDE DEF yielded
    <3>2. QED
      BY <1>5, <1>6, <1>7, <1>8, <3>1
  <2> HIDE DEF yielded
  <2>3. /\ f \in World
        /\ f.st = yielded.st /\ f.done = yielded.done
        /\ f.leaked = yielded.leaked
        /\ f.proc[c] = IF kills THEN "none" ELSE yielded.proc[c]
        /\ \A x \in Child : x # c => f.proc[x] = yielded.proc[x]
    BY <1>9, <2>2
  <2> HIDE DEF f
  <2>4. \A x \in T : f.proc[x] = IF w.st[x].phase \in Up THEN "none"
                                                        ELSE w.proc[x]
    BY <1>8, <2>2, <2>3 DEF T
  <2>5. FeedResult(w, c, ev, f)
    BY <1>10, <2>2, <2>3, <2>4 DEF FeedResult, t, fin, T
  <2>6. QED
    BY <1>3, <2>5
<1>11. CASE ~Dies(w, c, ev)
  <2>1. yielded = marked
    BY <1>11
  <2> HIDE DEF yielded
  <2>2. /\ f \in World
        /\ f.st = marked.st /\ f.done = marked.done
        /\ f.leaked = marked.leaked
        /\ f.proc[c] = IF kills THEN "none" ELSE marked.proc[c]
        /\ \A x \in Child : x # c => f.proc[x] = marked.proc[x]
    BY <1>4, <1>9, <2>1
  <2> HIDE DEF f
  <2>3. FeedResult(w, c, ev, f)
    BY <1>5, <1>6, <1>7, <1>11, <2>2 DEF FeedResult, t, fin
  <2>4. QED
    BY <1>3, <2>3
<1>12. QED
  BY <1>10, <1>11

-----------------------------------------------------------------------------
(* What feed() and the spawns preserve *)

ServesIn(w, d) ==
    \/ w.st[d].phase = "RUNNING"
    \/ w.st[d].phase = "STOPPED" /\ w.done[d]

(***************************************************************************)
(* The inductive invariant of the bundle: no child is up or waiting, and   *)
(* no oneshot done, over a dependency that does not serve; only a stopped  *)
(* child is done; every child is within its budget.  The first conjunct    *)
(* needs the second: a child that is done and up would stop serving        *)
(* without dying, and nobody would make its dependents yield.              *)
(***************************************************************************)
Sound(w) ==
    /\ w \in World
    /\ \A c \in Child :
          (w.st[c].phase \in Up \cup {"BACKOFF"} \/ w.done[c]) =>
              \A d \in Deps[c] : ServesIn(w, d)
    /\ \A c \in Child : w.done[c] => w.st[c].phase = "STOPPED"
    /\ \A c \in Child : WithinBudget(c, w.st[c])

\* May c be started in w?  (What try_bring_up() checks.)
Startable(w, c) ==
    ~w.done[c] /\ \A d \in Deps[c] : w.st[d].phase = "RUNNING"

\* feed() preserves the invariant: a death takes the whole downstream along.
LEMMA FeedSound ==
    ASSUME NEW w, NEW c \in Child, NEW ev \in Event \ {"DEP_RESTARTING"},
           Sound(w),
           ev = "EXITED_OK" => w.st[c].phase \in Up,
           ev = "SPAWNED" /\ w.st[c].phase = "STOPPED" => Startable(w, c)
    PROVE  Sound(Feed(w, c, ev))
<1> DEFINE f == Feed(w, c, ev)
           t == Transition(c, w.st[c], ev)
           T == IF Dies(w, c, ev) THEN TransitiveDependents(c) ELSE {}
<1>1. w \in World /\ w.st[c] \in ChildState /\ w.st[c].phase \in Phase
  BY DEF Sound, World, ChildState
<1>2. FeedResult(w, c, ev, f)
  BY <1>1, FeedFacts
<1>3. /\ f \in World
      /\ f.st[c] = t.st
      /\ f.done[c] = (w.done[c] \/ Finishes(w, c, ev))
      /\ \A x \in Child \ T : x # c => f.st[x] = w.st[x] /\ f.done[x] = w.done[x]
      /\ \A x \in T : ~f.done[x] /\ f.st[x].phase \in {"STOPPED", "FATAL"}
      /\ \A x \in Child : WithinBudget(x, w.st[x]) => WithinBudget(x, f.st[x])
  BY <1>2 DEF FeedResult
<1>4. Moves(c, w.st[c], ev, t)
  BY <1>1, TransitionFacts
<1>5. c \notin T /\ T \subseteq Child
  BY NotOwnDependent DEF TransitiveDependents
<1>6. ASSUME NEW x \in Child, NEW d \in Deps[x], d \in T
      PROVE  x \in T
  BY <1>6, DependentsClosed
<1>7. ASSUME NEW x \in Child, c \in Deps[x], Dies(w, c, ev)
      PROVE  x \in T
  BY <1>7, DependentsClosed
<1>8. \A x \in Child : Deps[x] \subseteq Child
  BY DepsAssumption
<1> HIDE DEF f, t, T
<1>9. ASSUME NEW x \in Child, f.done[x]
      PROVE  f.st[x].phase = "STOPPED"
  <2>1. CASE x = c
    <3>1. CASE Finishes(w, c, ev)
      BY <1>3, <2>1, <3>1 DEF Finishes, t
    <3>2. CASE ~Finishes(w, c, ev)
      <4>1. w.done[c] /\ w.st[c].phase = "STOPPED"
        BY <1>3, <1>9, <2>1, <3>2 DEF Sound
      <4>2. ev # "SPAWNED"
        BY <4>1 DEF Startable
      <4>3. QED
        BY <1>3, <1>4, <2>1, <4>1, <4>2 DEF Moves
    <3>3. QED
      BY <3>1, <3>2
  <2>2. CASE x # c
    BY <1>3, <1>9, <2>2 DEF Sound
  <2>3. QED
    BY <2>1, <2>2
<1>10. ASSUME NEW d \in Child, d \notin T, ServesIn(w, d),
              ~(d = c /\ Dies(w, c, ev))
       PROVE  ServesIn(f, d)
  <2>1. CASE d = c
    <3>1. CASE w.st[c].phase = "RUNNING"
      <4>1. t.st.phase \notin Dead
        BY <1>10, <2>1, <3>1 DEF Dies, t, Up
      <4>2. \/ t.st.phase = "RUNNING"
            \/ ev = "EXITED_OK" /\ c \in Oneshot /\ t.st.phase = "STOPPED"
        BY <1>4, <3>1, <4>1 DEF Moves, Up, Dead
      <4>3. QED
        BY <1>3, <2>1, <4>2 DEF ServesIn, Finishes, t
    <3>2. CASE w.st[c].phase = "STOPPED" /\ w.done[c]
      <4>1. f.done[c]
        BY <1>3, <3>2
      <4>2. QED
        BY <1>9, <2>1, <4>1 DEF ServesIn
    <3>3. QED
      BY <1>10, <2>1, <3>1, <3>2 DEF ServesIn
  <2>2. CASE d # c
    BY <1>3, <1>10, <2>2 DEF ServesIn
  <2>3. QED
    BY <2>1, <2>2
<1>11. ASSUME NEW x \in Child,
              f.st[x].phase \in Up \cup {"BACKOFF"} \/ f.done[x],
              NEW d \in Deps[x]
       PROVE  ServesIn(f, d)
  <2>0. d \in Child
    BY <1>8
  <2>1. x \notin T
    BY <1>3, <1>11 DEF Up
  <2>2. d \notin T /\ ~(d = c /\ Dies(w, c, ev))
    BY <1>6, <1>7, <2>1
  <2>3. ServesIn(w, d)
    <3>1. CASE x # c
      BY <1>3, <1>11, <2>1, <3>1 DEF Sound
    <3>2. CASE x = c /\ ev = "SPAWNED" /\ w.st[c].phase = "STOPPED"
      BY <3>2 DEF Startable, ServesIn
    <3>3. CASE x = c /\ ~(ev = "SPAWNED" /\ w.st[c].phase = "STOPPED")
      <4>1. w.st[c].phase \in Up \cup {"BACKOFF"} \/ w.done[c]
        <5>1. CASE w.st[c].phase \in Up \cup {"BACKOFF"}
          BY <5>1
        <5>2. CASE w.st[c].phase \in {"STOPPED", "FATAL"}
          <6>1. t.st.phase = w.st[c].phase
            BY <1>4, <3>3, <5>2 DEF Moves
          <6>2. ~Finishes(w, c, ev)
            BY <5>2 DEF Finishes, Up
          <6>3. f.done[c]
            BY <1>3, <1>11, <3>3, <5>2, <6>1 DEF Up
          <6>4. QED
            BY <1>3, <6>2, <6>3
        <5>3. QED
          BY <1>1, <5>1, <5>2 DEF Phase, Up
      <4>2. QED
        BY <3>3, <4>1 DEF Sound
    <3>4. QED
      BY <3>1, <3>2, <3>3
  <2>4. QED
    BY <1>10, <2>0, <2>2, <2>3
<1>12. \A x \in Child : WithinBudget(x, f.st[x])
  BY <1>3 DEF Sound
<1>13. QED
  BY <1>3, <1>9, <1>11, <1>12 DEF Sound, f

\* spawn_child(): only the pid of c, and what is lost with it, change.
LEMMA SpawnFacts ==
    ASSUME NEW w \in World, NEW c \in Child
    PROVE  LET v == SpawnChild(w, c) IN
           /\ v \in World
           /\ v.st = w.st /\ v.done = w.done
           /\ v.proc[c] = "alive"
           /\ \A x \in Child : x # c => v.proc[x] = w.proc[x]
           /\ w.proc[c] # "alive" => v.leaked = w.leaked
<1> DEFINE v == SpawnChild(w, c)
           L == IF w.proc[c] = "alive" THEN w.leaked \cup {c} ELSE w.leaked
<1>1. v = [st |-> w.st, proc |-> [w.proc EXCEPT ![c] = "alive"],
           done |-> w.done, leaked |-> L]
  <2>1. w = [st |-> w.st, proc |-> w.proc, done |-> w.done,
             leaked |-> w.leaked]
    BY DEF World
  <2>2. v = [w EXCEPT !.proc = [w.proc EXCEPT ![c] = "alive"], !.leaked = L]
    BY Zenon DEF SpawnChild
  <2> HIDE DEF v, L
  <2>3. QED
    BY <2>1, <2>2
<1>2. L \in SUBSET Child
  BY DEF World
<1>3. v \in World
  BY <1>1, <1>2 DEF World, Proc
<1> HIDE DEF L
<1>4. /\ v.proc[c] = "alive"
      /\ \A x \in Child : x # c => v.proc[x] = w.proc[x]
  BY <1>1 DEF World
<1>5. w.proc[c] # "alive" => L = w.leaked
  BY DEF L
<1>6. QED
  BY <1>1, <1>3, <1>4, <1>5

(***************************************************************************)
(* The second half of the invariant: every live or unreaped process is the *)
(* one of a child that is up, and none has been lost.                      *)
(***************************************************************************)
Tracked(w) ==
    /\ w.leaked = {}
    /\ \A c \in Child : w.proc[c] # "none" => w.st[c].phase \in Up

\* No retry is due at the very moment it is scheduled.
PositiveBackoff == \A c \in Child : BackoffBase[c] > 0 /\ BackoffMax[c] > 0

\* Exits and timeouts are fed after the process has been reaped or killed.
Reaps(w, c, ev) ==
    ev \in {"EXITED_OK", "EXITED_CRASH", "START_TIMEOUT"} => w.proc[c] = "none"

\* feed() leaves no process with a child that is down, given its callers'
\* habit of reaping or killing before they report an exit or a timeout.
LEMMA FeedTracked ==
    ASSUME NEW w \in World, NEW c \in Child,
           NEW ev \in Event \ {"DEP_RESTARTING"}, Tracked(w), Reaps(w, c, ev)
    PROVE  Tracked(Feed(w, c, ev))
<1> DEFINE f == Feed(w, c, ev)
           t == Transition(c, w.st[c], ev)
           T == IF Dies(w, c, ev) THEN TransitiveDependents(c) ELSE {}
<1>1. w.st[c] \in ChildState /\ w.st[c].phase \in Phase
  BY DEF World, ChildState
<1>2. FeedResult(w, c, ev, f)
  BY FeedFacts
<1>3. Moves(c, w.st[c], ev, t)
  BY <1>1, TransitionFacts
<1> HIDE DEF f, t
<1>4. /\ f.leaked = w.leaked /\ f.st[c] = t.st
      /\ f.proc[c] = IF t.kind \in {"KILL", "MARK_FATAL"} THEN "none"
                                                        ELSE w.proc[c]
      /\ \A x \in Child \ T : x # c => f.st[x] = w.st[x] /\ f.proc[x] = w.proc[x]
      /\ \A x \in T : f.proc[x] = IF w.st[x].phase \in Up THEN "none"
                                                        ELSE w.proc[x]
  BY <1>2 DEF FeedResult, t
<1> HIDE DEF T
<1>5. ASSUME NEW x \in Child, f.proc[x] # "none"
      PROVE  f.st[x].phase \in Up
  <2>1. CASE x = c
    <3>1. w.proc[c] # "none" /\ t.kind \notin {"KILL", "MARK_FATAL"}
      BY <1>4, <1>5, <2>1
    <3>2. w.st[c].phase \in Up
      BY <3>1 DEF Tracked
    <3>3. t.st.phase \in Up
      BY <1>3, <3>1, <3>2 DEF Moves, Reaps
    <3>4. QED
      BY <1>4, <2>1, <3>3
  <2>2. CASE x # c /\ x \in T
    BY <1>4, <1>5, <2>2 DEF Tracked
  <2>3. CASE x # c /\ x \notin T
    BY <1>4, <1>5, <2>3 DEF Tracked
  <2>4. QED
    BY <2>1, <2>2, <2>3
<1>6. QED
  BY <1>4, <1>5 DEF Tracked, f

\* With a positive backoff feed() spawns at once only from a due retry.
LEMMA SpawnsNowOnlyOnTick ==
    ASSUME PositiveBackoff, NEW w \in World, NEW c \in Child, NEW ev \in Event,
           SpawnsNow(w, c, ev)
    PROVE  /\ ev = "TICK" /\ w.st[c].phase = "BACKOFF"
           /\ Transition(c, w.st[c], ev).st.phase = "STARTING"
           /\ Transition(c, w.st[c], ev).kind = "SPAWN"
<1> DEFINE t == Transition(c, w.st[c], ev)
<1>1. w.st[c] \in ChildState /\ w.st[c].phase \in Phase /\ w.st[c].step \in Nat
  BY DEF World, ChildState
<1>2. Moves(c, w.st[c], ev, t)
  BY <1>1, TransitionFacts
<1>3. t.kind = "SPAWN" /\ t.at = 0
  BY DEF SpawnsNow
<1>4. BackoffNs(c, w.st[c].step) # 0
  BY <1>1, BackoffNsPositive DEF PositiveBackoff
<1> HIDE DEF t
<1>5. w.st[c].phase \notin Up
  BY <1>2, <1>3, <1>4 DEF Moves, Up
<1>6. QED
  BY <1>1, <1>2, <1>3, <1>5 DEF Moves, Up, Phase, t

\* Bringing a child up preserves both halves of the invariant.
LEMMA AfterSpawnInv ==
    ASSUME PositiveBackoff, NEW w, NEW c \in Child, Sound(w), Tracked(w),
           w.proc[c] = "none",
           w.st[c].phase \in {"STOPPED", "STARTING"},
           w.st[c].phase = "STOPPED" => Startable(w, c),
           NEW v \in AfterSpawn(w, c)
    PROVE  Sound(v) /\ Tracked(v)
<1> DEFINE s == Feed(w, c, "SPAWNED")
           f == Feed(s, c, "EXITED_CRASH")
<1>0. {"SPAWNED", "EXITED_CRASH"} \subseteq Event \ {"DEP_RESTARTING"}
  BY DEF Event
<1>1. w \in World /\ w.st[c] \in ChildState
  BY DEF Sound, World
<1>2. Sound(s) /\ Tracked(s)
  BY <1>0, <1>1, FeedSound, FeedTracked DEF Reaps
<1>3. s.st[c].phase = "STARTING" /\ s.proc[c] = "none"
  <2>1. FeedResult(w, c, "SPAWNED", s)
    BY <1>0, <1>1, FeedFacts
  <2>2. Moves(c, w.st[c], "SPAWNED", Transition(c, w.st[c], "SPAWNED"))
    BY <1>0, <1>1, TransitionFacts
  <2>3. Transition(c, w.st[c], "SPAWNED").st.phase = "STARTING"
    <3>1. CASE w.st[c].phase = "STOPPED"
      BY <2>2, <3>1 DEF Moves
    <3>2. CASE w.st[c].phase = "STARTING"
      <4>1. Transition(c, w.st[c], "SPAWNED") = Result(w.st[c], "NONE", 0)
        BY <3>2 DEF Transition, OnStarting
      <4>2. QED
        BY <3>2, <4>1 DEF Result
    <3>3. QED
      BY <3>1, <3>2
  <2>4. QED
    BY <2>1, <2>3 DEF FeedResult
<1>4. s \in World
  BY <1>2 DEF Sound
<1> HIDE DEF s
<1>5. CASE v = SpawnChild(s, c)
  <2>1. /\ v \in World /\ v.st = s.st /\ v.done = s.done /\ v.leaked = s.leaked
        /\ \A x \in Child : x # c => v.proc[x] = s.proc[x]
    BY <1>3, <1>4, <1>5, SpawnFacts
  <2>2. Sound(v)
    BY <1>2, <2>1 DEF Sound, ServesIn
  <2>3. Tracked(v)
    BY <1>2, <1>3, <2>1 DEF Tracked, Up
  <2>4. QED
    BY <2>2, <2>3
<1>6. CASE v = f
  BY <1>0, <1>2, <1>3, <1>4, <1>6, FeedSound, FeedTracked DEF Reaps
<1>7. ~SpawnsNow(s, c, "EXITED_CRASH")
  BY <1>0, <1>4, SpawnsNowOnlyOnTick
<1>8. QED
  BY <1>5, <1>6, <1>7 DEF AfterSpawn, AfterFailedSpawn, s

\* So does a whole call of feed().
LEMMA AfterFeedInv ==
    ASSUME PositiveBackoff, NEW w, NEW c \in Child,
           NEW ev \in Event \ {"DEP_RESTARTING", "SPAWNED"},
           Sound(w), Tracked(w), Reaps(w, c, ev),
           ev = "EXITED_OK" => w.st[c].phase \in Up,
           NEW v \in AfterFeed(w, c, ev)
    PROVE  Sound(v) /\ Tracked(v)
<1> DEFINE f == Feed(w, c, ev)
<1>1. w \in World
  BY DEF Sound
<1>2. Sound(f) /\ Tracked(f)
  BY <1>1, FeedSound, FeedTracked
<1>3. CASE ~SpawnsNow(w, c, ev)
  BY <1>2, <1>3 DEF AfterFeed
<1>4. CASE SpawnsNow(w, c, ev)
  <2>1. /\ ev = "TICK" /\ w.st[c].phase = "BACKOFF"
        /\ Transition(c, w.st[c], ev).st.phase = "STARTING"
        /\ Transition(c, w.st[c], ev).kind = "SPAWN"
    BY <1>1, <1>4, SpawnsNowOnlyOnTick
  <2>2. w.proc[c] = "none"
    BY <2>1 DEF Tracked, Up
  <2>3. f.st[c].phase = "STARTING" /\ f.proc[c] = "none"
    BY <1>1, <2>1, <2>2, FeedFacts DEF FeedResult
  <2>4. v \in AfterSpawn(f, c)
    BY <1>4 DEF AfterFeed
  <2> HIDE DEF f
  <2>5. QED
    BY <1>2, <2>3, <2>4, AfterSpawnInv
<1>5. QED
  BY <1>3, <1>4

-----------------------------------------------------------------------------
(* The steps of the specification *)

\* Whatever the backoff, feed() and the spawns keep the bundle well typed.
LEMMA AfterSpawnType ==
    ASSUME NEW w \in World, NEW c \in Child
    PROVE  AfterSpawn(w, c) \subseteq World
<1> DEFINE s == Feed(w, c, "SPAWNED")
           f == Feed(s, c, "EXITED_CRASH")
<1>0. "SPAWNED" \in Event /\ "EXITED_CRASH" \in Event
  BY DEF Event
<1>1. s \in World
  BY <1>0, FeedFacts DEF FeedResult
<1> HIDE DEF s
<1>2. f \in World
  BY <1>0, <1>1, FeedFacts DEF FeedResult
<1> HIDE DEF f
<1>3. SpawnChild(s, c) \in World /\ SpawnChild(f, c) \in World
  BY <1>1, <1>2, SpawnFacts
<1>4. AfterSpawn(w, c) \subseteq {SpawnChild(s, c), f, SpawnChild(f, c)}
  BY DEF AfterSpawn, AfterFailedSpawn, s, f
<1>5. QED
  BY <1>2, <1>3, <1>4

\* A whole call of feed() keeps the bundle well typed.
LEMMA AfterFeedType ==
    ASSUME NEW w \in World, NEW c \in Child, NEW ev \in Event
    PROVE  AfterFeed(w, c, ev) \subseteq World
<1>1. Feed(w, c, ev) \in World
  BY FeedFacts DEF FeedResult
<1>2. AfterSpawn(Feed(w, c, ev), c) \subseteq World
  BY <1>1, AfterSpawnType
<1>3. QED
  BY <1>1, <1>2 DEF AfterFeed

\* The bundle a callback hands to feed(), and the event it hands over.
FeedSource(c, w, ev) ==
    \/ /\ ev \in {"EXITED_OK", "EXITED_CRASH"} /\ w = Reaped(c)
       /\ proc[c] \in {"exit0", "crashed"}
    \/ /\ ev = "START_TIMEOUT" /\ w = Reaped(c)
       /\ st[c].phase = "STARTING"
    \/ /\ ev \in {"RUNNING", "RUNNING_STABLE", "TICK", "HEALTH_OK",
                  "HEALTH_LOST"}
       /\ w = Now

FedStep == \E c \in Child, ev \in Event : \E w \in {Now, Reaped(c)} :
               FeedSource(c, w, ev) /\ Now' \in AfterFeed(w, c, ev)

SpawnStep ==
    \E c \in Child : CanBringUp(c) /\ Now' \in AfterSpawn(Now, c)

\* Processes end, or are killed by the teardown of a node that stops.
EndStep ==
    /\ st' = st /\ done' = done /\ leaked' = leaked
    /\ proc' \in [Child -> Proc]
    /\ \A c \in Child : proc[c] = "none" => proc'[c] = "none"
    /\ life' = "active" => \A c \in Child : proc[c] # "none" => proc'[c] # "none"

\* on_cleanup() forgets all children.
ResetStep ==
    /\ life' = "unconfigured" /\ leaked' = leaked
    /\ st' = [c \in Child |-> InitialChild]
    /\ proc' = [c \in Child |-> "none"]
    /\ done' = [c \in Child |-> FALSE]

AgeStep ==
    /\ proc' = proc /\ done' = done /\ leaked' = leaked
    /\ st' = [c \in Child |-> Aged(c, st[c])]

\* The four variables are well typed exactly when the bundle is.
LEMMA NowType ==
    ASSUME TypeOK
    PROVE  /\ Now \in World
           /\ \A c \in Child :
                /\ Reaped(c) \in World
                /\ Reaped(c).st = st /\ Reaped(c).done = done
                /\ Reaped(c).leaked = leaked /\ Reaped(c).proc[c] = "none"
                /\ \A x \in Child : x # c => Reaped(c).proc[x] = proc[x]
                /\ KillChild(Now, c) = Reaped(c)
<1>1. Now \in World
  BY DEF TypeOK, Now, World
<1>2. ASSUME NEW c \in Child
      PROVE  /\ Reaped(c) = [st |-> st, proc |-> [proc EXCEPT ![c] = "none"],
                             done |-> done, leaked |-> leaked]
             /\ KillChild(Now, c) = Reaped(c)
  BY DEF Reaped, Now, KillChild
<1>3. ASSUME NEW c \in Child
      PROVE  Reaped(c) \in World
  BY <1>2 DEF TypeOK, World, Proc
<1>4. QED
  BY <1>1, <1>2, <1>3 DEF TypeOK

\* After Become(w) the bundle is w.
LEMMA BecomeNow ==
    ASSUME NEW v \in World, Become(v)
    PROVE  Now' = v
BY DEF Become, Now, World

\* Every step of the specification is one of six kinds for the bundle.
LEMMA WorldStep ==
    ASSUME TypeOK, Next
    PROVE  \/ Now' = Now \/ FedStep \/ SpawnStep \/ EndStep \/ AgeStep
           \/ ResetStep
<1>0. UNCHANGED world => Now' = Now
  BY DEF world, Now
<1>1. CASE Scan
  <2>1. CASE UNCHANGED world
    BY <1>0, <2>1
  <2>2. CASE pos \in 1..Len(MapOrder) /\ ScanChild(MapOrder[pos])
    <3> DEFINE c == MapOrder[pos]
    <3>1. c \in Child
      BY <2>2, NodeAssumption
    <3> HIDE DEF c
    <3>2. ASSUME NEW w \in {Now, Reaped(c)}, NEW ev \in Event,
                 FeedSource(c, w, ev), FeedChild(w, c, ev)
          PROVE  FedStep
      <4>1. w \in World
        BY <3>1, NowType
      <4>2. PICK v \in AfterFeed(w, c, ev) : Become(v)
        BY <3>2 DEF FeedChild
      <4>3. Now' = v
        BY <3>1, <4>1, <4>2, AfterFeedType, BecomeNow
      <4>4. QED
        BY <3>1, <3>2, <4>2, <4>3 DEF FedStep
    <3>3. ScanChild(c)
      BY <2>2 DEF c
    <3>4. KillChild(Now, c) = Reaped(c)
      BY <3>1, NowType
    <3>5. CASE proc[c] = "exit0" /\ FeedChild(Reaped(c), c, "EXITED_OK")
      BY <3>2, <3>5 DEF FeedSource, Event
    <3>6. CASE proc[c] = "crashed" /\ FeedChild(Reaped(c), c, "EXITED_CRASH")
      BY <3>2, <3>6 DEF FeedSource, Event
    <3>7. CASE FeedChild(Now, c, "RUNNING")
      BY <3>2, <3>7 DEF FeedSource, Event
    <3>8. CASE FeedChild(Now, c, "RUNNING_STABLE")
      BY <3>2, <3>8 DEF FeedSource, Event
    <3>9. CASE FeedChild(Now, c, "TICK")
      BY <3>2, <3>9 DEF FeedSource, Event
    <3>10. CASE st[c].phase = "STARTING"
                /\ FeedChild(KillChild(Now, c), c, "START_TIMEOUT")
      BY <3>2, <3>4, <3>10 DEF FeedSource, Event
    <3>11. QED
      BY <3>3, <3>5, <3>6, <3>7, <3>8, <3>9, <3>10 DEF ScanChild
  <2>3. QED
    BY <1>1, <2>1, <2>2 DEF Scan
<1>2. CASE BringUp
  <2>1. CASE UNCHANGED world
    BY <1>0, <2>1
  <2>2. CASE /\ pos \in 1..Len(Topo) /\ CanBringUp(Topo[pos])
             /\ \E v \in AfterSpawn(Now, Topo[pos]) : Become(v)
    <3> DEFINE c == Topo[pos]
    <3>1. c \in Child
      BY <2>2, DepsAssumption
    <3>2. PICK v \in AfterSpawn(Now, c) : Become(v)
      BY <2>2
    <3>3. CanBringUp(c)
      BY <2>2
    <3> HIDE DEF c
    <3>4. Now' = v
      BY <3>1, <3>2, NowType, AfterSpawnType, BecomeNow
    <3>5. QED
      BY <3>1, <3>2, <3>3, <3>4 DEF SpawnStep
  <2>3. QED
    BY <1>2, <2>1, <2>2 DEF BringUp
<1>3. ASSUME NEW c \in Child, Evaluate(c)
      PROVE  Now' = Now \/ FedStep
  <2>1. CASE UNCHANGED world
    BY <1>0, <2>1
  <2>2. ASSUME NEW ev \in {"HEALTH_OK", "HEALTH_LOST"}, FeedChild(Now, c, ev)
        PROVE  FedStep
    <3>1. PICK v \in AfterFeed(Now, c, ev) : Become(v)
      BY <2>2 DEF FeedChild
    <3>2. ev \in Event /\ FeedSource(c, Now, ev)
      BY DEF Event, FeedSource
    <3>3. Now' = v
      BY <3>1, <3>2, NowType, AfterFeedType, BecomeNow
    <3>4. QED
      BY <3>1, <3>2, <3>3 DEF FedStep
  <2>3. QED
    BY <1>3, <2>1, <2>2 DEF Evaluate
<1>4. CASE \/ StartTick \/ (\E r \in Report : Dispatch(r)) \/ EndReport
           \/ Activate \/ Configure
  BY <1>0, <1>4 DEF StartTick, Dispatch, EndReport, Activate, Configure
<1>5. CASE Deactivate \/ Shutdown \/ Exit
  BY <1>5 DEF Deactivate, Shutdown, Exit, TeardownChildren, EndStep, Proc
<1>6. ASSUME NEW c \in Child, NEW how \in {"exit0", "crashed"},
             ProcessExits(c, how)
      PROVE  EndStep
  BY <1>6 DEF ProcessExits, EndStep, Proc, TypeOK
<1>7. CASE TimePasses
  BY <1>7 DEF TimePasses, AgeStep
<1>8. CASE Cleanup
  BY <1>8 DEF Cleanup, ResetStep
<1>9. QED
  BY <1>1, <1>2, <1>3, <1>4, <1>5, <1>6, <1>7, <1>8 DEF Next

\* The clock moves nothing but ages and waits.
LEMMA AgedFacts ==
    ASSUME NEW c \in Child, NEW s \in ChildState
    PROVE  /\ Aged(c, s) \in ChildState
           /\ Aged(c, s).phase = s.phase
           /\ WithinBudget(c, s) => WithinBudget(c, Aged(c, s))
<1> DEFINE a == IF s.age < AgeCap(c) THEN s.age + 1 ELSE s.age
           m == IF s.wait > 0 THEN s.wait - 1 ELSE 0
<1>1. Aged(c, s) = [phase |-> s.phase, restarts |-> s.restarts,
                    step |-> s.step, age |-> a, wait |-> m]
  <2>1. Aged(c, s) = [s EXCEPT !.age = a, !.wait = m]
    BY DEF Aged
  <2> HIDE DEF a, m
  <2>2. QED
    BY <2>1 DEF ChildState
<1>2. a \in Nat /\ m \in Nat
  BY DEF ChildState
<1> HIDE DEF a, m
<1>3. Aged(c, s) \in ChildState
  BY <1>1, <1>2 DEF ChildState
<1>4. QED
  BY <1>1, <1>3 DEF WithinBudget

-----------------------------------------------------------------------------
(* The theorems *)

\* A child as ProcChild is constructed is well typed.
LEMMA InitialChildType == InitialChild \in ChildState
BY DEF InitialChild, ChildState, Phase

\* Every step keeps the types.
LEMMA NextType ==
    ASSUME TypeOK, [Next]_vars
    PROVE  TypeOK'
<1>1. Now' \in World
  <2>1. Now \in World /\ \A c \in Child : Reaped(c) \in World
    BY NowType
  <2>2. CASE UNCHANGED vars
    BY <2>1, <2>2 DEF vars, world, Now
  <2>3. CASE Now' = Now
    BY <2>1, <2>3
  <2>4. CASE FedStep
    BY <2>1, <2>4, AfterFeedType DEF FedStep
  <2>5. CASE SpawnStep
    BY <2>1, <2>5, AfterSpawnType DEF SpawnStep
  <2>6. CASE EndStep
    BY <2>6 DEF EndStep, TypeOK, Now, World
  <2>7. CASE AgeStep
    <3>1. st' \in [Child -> ChildState]
      BY <2>7, AgedFacts DEF AgeStep, TypeOK
    <3>2. QED
      BY <2>7, <3>1 DEF AgeStep, TypeOK, Now, World
  <2>8. CASE ResetStep
    BY <2>8, InitialChildType DEF ResetStep, TypeOK, Now, World, Proc
  <2>9. QED
    BY <2>2, <2>3, <2>4, <2>5, <2>6, <2>7, <2>8, WorldStep
<1>2. /\ st' \in [Child -> ChildState] /\ proc' \in [Child -> Proc]
      /\ done' \in [Child -> BOOLEAN] /\ leaked' \in SUBSET Child
  BY <1>1 DEF Now, World
<1>3. /\ life' \in {"unconfigured", "inactive", "active", "finalized", "exited"}
      /\ pc' \in {"idle", "scan", "bringup", "report"}
      /\ pos' \in Nat \ {0}
  <2>1. pos \in Nat \ {0}
    BY DEF TypeOK
  <2>2. QED
    BY <2>1 DEF TypeOK, vars, node, Next, StartTick, Scan, BringUp, Dispatch, Evaluate,
      EndReport, Activate, Deactivate, Cleanup, Configure, Shutdown, Exit,
      ProcessExits, TimePasses
<1>4. /\ views' \in [HealthNode -> NodeView]
      /\ announced' \in [Child -> BOOLEAN]
      /\ touched' \in SUBSET GatedChild
      /\ report' \in Report
  <2>1. CASE \E r \in Report : Dispatch(r)
    <3>1. PICK r \in Report : Dispatch(r)
      BY <2>1
    <3>2. ViewsAfter(views, r) \in [HealthNode -> NodeView]
      BY DEF TypeOK, ViewsAfter, ViewAfter, NodeView
    <3>3. QED
      BY <3>1, <3>2 DEF Dispatch, TypeOK, Touched
  <2>2. CASE \E c \in Child : Evaluate(c)
    <3>1. PICK c \in Child : Evaluate(c)
      BY <2>2
    <3>2. AllOk(views, c) \in BOOLEAN
      BY DEF AllOk
    <3> HIDE DEF AllOk
    <3>3. QED
      BY <3>1, <3>2 DEF Evaluate, TypeOK
  <2>3. CASE EndReport
    BY <2>3 DEF EndReport, TypeOK, Report, Status
  <2>4. CASE UNCHANGED feedvars
    BY <2>4 DEF feedvars, TypeOK
  <2>5. CASE \/ StartTick \/ Scan \/ BringUp \/ Activate \/ Deactivate
             \/ Configure \/ Shutdown \/ Exit \/ TimePasses
             \/ \E c \in Child, how \in {"exit0", "crashed"} :
                    ProcessExits(c, how)
    BY <2>4, <2>5 DEF StartTick, Scan, BringUp, Activate, Deactivate, Configure,
       Shutdown, Exit, TimePasses, ProcessExits
  <2>6. CASE Cleanup
    BY <2>6 DEF Cleanup, TypeOK, NodeView
  <2>7. QED
    BY <2>1, <2>2, <2>3, <2>4, <2>5, <2>6 DEF Next, vars, feedvars
<1>5. ticking' \in BOOLEAN
  BY Zenon DEF TypeOK, vars, node, Next, StartTick, Scan, BringUp, Dispatch, Evaluate,
     EndReport, Activate, Deactivate, Cleanup, Configure, Shutdown, Exit,
     ProcessExits, TimePasses
<1>6. QED
  BY <1>2, <1>3, <1>4, <1>5 DEF TypeOK

\* The state after on_configure() is well typed.
LEMMA InitType == ASSUME Init PROVE TypeOK
<1>1. ticking \in BOOLEAN
  BY Zenon DEF Init
<1>2. QED
  BY <1>1, InitialChildType DEF Init, TypeOK, Proc, NodeView, Report, Status

(***************************************************************************)
(* Type correctness of the supervisor: in particular the budget, the step, *)
(* the age and the remaining backoff of a child are natural numbers, and   *)
(* only gated children are ever evaluated.                                 *)
(***************************************************************************)
THEOREM TypeCorrect == Spec => []TypeOK
<1>1. Init => TypeOK
  BY InitType
<1>2. TypeOK /\ [Next]_vars => TypeOK'
  BY NextType
<1>3. QED
  BY <1>1, <1>2, PTL DEF Spec

(***************************************************************************)
(* The inductive invariant.                                                *)
(***************************************************************************)
IInv == TypeOK /\ Sound(Now) /\ Tracked(Now)

\* A bundle in which every child is new is sound.
LEMMA NewSound ==
    ASSUME NEW v \in World,
           \A c \in Child : /\ v.st[c] = InitialChild
                            /\ v.proc[c] = "none" /\ ~v.done[c]
    PROVE  Sound(v)
<1>1. \A c \in Child : MaxRestarts[c] \in Nat
  BY PolicyAssumption
<1>2. QED
  BY <1>1 DEF Sound, InitialChild, WithinBudget, Up

\* The state after on_configure() satisfies the inductive invariant.
LEMMA InitIInv == ASSUME Init PROVE IInv
<1>1. TypeOK /\ Now \in World
  BY InitType, NowType
<1>2. \A c \in Child : /\ Now.st[c] = InitialChild
                       /\ Now.proc[c] = "none" /\ ~Now.done[c]
  BY DEF Init, Now
<1>3. Sound(Now)
  BY <1>1, <1>2, NewSound
<1>4. Tracked(Now)
  BY <1>2 DEF Tracked, Init, Now
<1>5. QED
  BY <1>1, <1>3, <1>4 DEF IInv

\* With a positive backoff every step preserves the inductive invariant.
LEMMA NextIInv ==
    ASSUME PositiveBackoff, IInv, [Next]_vars
    PROVE  IInv'
<1>1. TypeOK /\ Sound(Now) /\ Tracked(Now)
  BY DEF IInv
<1>2. TypeOK'
  BY <1>1, NextType
<1>3. ASSUME NEW v, Now' = v, Sound(v), Tracked(v)
      PROVE  IInv'
  <2>1. Sound(Now)' /\ Tracked(Now)'
    BY <1>3 DEF Sound, Tracked, ServesIn
  <2>2. QED
    BY <1>2, <2>1 DEF IInv
<1>4. CASE Now' = Now
  BY <1>1, <1>3, <1>4
<1>5. CASE FedStep
  <2>0. PICK c \in Child, ev \in Event : \E w \in {Now, Reaped(c)} :
            FeedSource(c, w, ev) /\ Now' \in AfterFeed(w, c, ev)
    BY <1>5 DEF FedStep
  <2>1. PICK w \in {Now, Reaped(c)} :
            FeedSource(c, w, ev) /\ Now' \in AfterFeed(w, c, ev)
    BY <2>0
  <2>2. Now.st = st /\ Now.proc = proc /\ Now.done = done /\ Now.leaked = leaked
    BY DEF Now
  <2>3. /\ w \in World /\ w.st = st /\ w.done = done /\ w.leaked = leaked
        /\ \A x \in Child : w.proc[x] # "none" => proc[x] # "none"
    BY <1>1, <2>2, NowType
  <2>4. Sound(w)
    BY <1>1, <2>2, <2>3 DEF Sound, ServesIn
  <2>5. Tracked(w)
    BY <1>1, <2>2, <2>3 DEF Tracked
  <2>6. Reaps(w, c, ev)
    BY <1>1, <2>1, NowType DEF FeedSource, Reaps
  <2>7. ev = "EXITED_OK" => w.st[c].phase \in Up
    BY <1>1, <2>1, <2>2, <2>3 DEF FeedSource, Tracked
  <2>8. ev \in Event \ {"DEP_RESTARTING", "SPAWNED"}
    BY <2>1 DEF FeedSource
  <2>9. Sound(Now') /\ Tracked(Now')
    BY <2>1, <2>4, <2>5, <2>6, <2>7, <2>8, AfterFeedInv
  <2>10. QED
    BY <1>3, <2>9
<1>6. CASE SpawnStep
  <2>1. PICK c \in Child : CanBringUp(c) /\ Now' \in AfterSpawn(Now, c)
    BY <1>6 DEF SpawnStep
  <2>2. Now.st = st /\ Now.proc = proc /\ Now.done = done
    BY DEF Now
  <2>3. Startable(Now, c) /\ Now.st[c].phase = "STOPPED"
    BY <2>1, <2>2 DEF CanBringUp, DepsAllRunning, Startable
  <2>4. Now.proc[c] = "none"
    BY <1>1, <2>3 DEF Tracked, Up
  <2>5. Sound(Now') /\ Tracked(Now')
    BY <1>1, <2>1, <2>3, <2>4, AfterSpawnInv
  <2>6. QED
    BY <1>3, <2>5
<1>7. CASE EndStep
  <2>1. Now' \in World
    BY <1>2 DEF TypeOK, Now, World
  <2>2. Sound(Now')
    BY <1>1, <1>7, <2>1 DEF Sound, ServesIn, EndStep, Now
  <2>3. Tracked(Now')
    BY <1>1, <1>7 DEF Tracked, EndStep, Now
  <2>4. QED
    BY <1>3, <2>2, <2>3
<1>8. CASE AgeStep
  <2>1. Now' \in World
    BY <1>2 DEF TypeOK, Now, World
  <2>2. \A c \in Child : /\ st'[c].phase = st[c].phase
                         /\ WithinBudget(c, st[c]) => WithinBudget(c, st'[c])
    BY <1>1, <1>8, AgedFacts DEF AgeStep, TypeOK
  <2>3. \A c \in Child : Deps[c] \subseteq Child
    BY DepsAssumption
  <2>4. Sound(Now')
    BY <1>1, <1>8, <2>1, <2>2, <2>3 DEF Sound, ServesIn, AgeStep, Now
  <2>5. Tracked(Now')
    BY <1>1, <1>8, <2>2 DEF Tracked, AgeStep, Now
  <2>6. QED
    BY <1>3, <2>4, <2>5
<1>9. CASE UNCHANGED vars
  BY <1>4, <1>9 DEF vars, world, Now
<1>10. CASE ResetStep
  <2>1. Now' \in World
    BY <1>2 DEF TypeOK, Now, World
  <2>2. \A c \in Child : /\ (Now').st[c] = InitialChild
                         /\ (Now').proc[c] = "none" /\ ~(Now').done[c]
    BY <1>10 DEF ResetStep, Now
  <2>3. Sound(Now')
    BY <2>1, <2>2, NewSound
  <2>4. Tracked(Now')
    BY <1>1, <1>10, <2>2 DEF Tracked, ResetStep, Now
  <2>5. QED
    BY <1>3, <2>3, <2>4
<1>11. QED
  BY <1>1, <1>4, <1>5, <1>6, <1>7, <1>8, <1>9, <1>10, WorldStep

(***************************************************************************)
(* No child runs, waits or counts as finished over a dependency that is    *)
(* down (ADR D2, "downstream yields"), for every dependency graph.  The    *)
(* hypothesis is needed: with a zero backoff a child in BACKOFF may have a *)
(* process, yields without being killed, and a late exit 0 then marks it   *)
(* as completed.                                                           *)
(***************************************************************************)
THEOREM DownstreamTheorem ==
    ASSUME PositiveBackoff
    PROVE  Spec => []DownstreamOverLiveDeps
<1>1. Init => IInv
  BY InitIInv
<1>2. IInv /\ [Next]_vars => IInv'
  BY NextIInv
<1>3. IInv => DownstreamOverLiveDeps
  BY DEF IInv, Sound, ServesIn, Now, DownstreamOverLiveDeps, Serves
<1>4. QED
  BY <1>1, <1>2, <1>3, PTL DEF Spec

(***************************************************************************)
(* spawn_child() never overwrites the pid of a live process.               *)
(***************************************************************************)
THEOREM NoProcessLostTheorem ==
    ASSUME PositiveBackoff
    PROVE  Spec => []NoProcessLost
<1>1. Init => IInv
  BY InitIInv
<1>2. IInv /\ [Next]_vars => IInv'
  BY NextIInv
<1>3. IInv => NoProcessLost
  BY DEF IInv, Tracked, Now, NoProcessLost
<1>4. QED
  BY <1>1, <1>2, <1>3, PTL DEF Spec

(***************************************************************************)
(* A child that waits for its retry, has yielded or is FATAL has no        *)
(* process: every way down kills or reaps it in the step that changes its  *)
(* phase.                                                                  *)
(***************************************************************************)
THEOREM ProcessOnlyWhileUpTheorem ==
    ASSUME PositiveBackoff
    PROVE  Spec => []ProcessOnlyWhileUp
<1>1. Init => IInv
  BY InitIInv
<1>2. IInv /\ [Next]_vars => IInv'
  BY NextIInv
<1>3. IInv => ProcessOnlyWhileUp
  BY DEF IInv, Tracked, Now, ProcessOnlyWhileUp
<1>4. QED
  BY <1>1, <1>2, <1>3, PTL DEF Spec

(***************************************************************************)
(* FATAL exactly when the budget is exceeded, and the backoff step in      *)
(* lockstep with the restarts.                                             *)
(***************************************************************************)
THEOREM BudgetTheorem ==
    ASSUME PositiveBackoff
    PROVE  Spec => []BudgetExact
<1>1. Init => IInv
  BY InitIInv
<1>2. IInv /\ [Next]_vars => IInv'
  BY NextIInv
<1>3. IInv => BudgetExact
  BY DEF IInv, Sound, Now, BudgetExact
<1>4. QED
  BY <1>1, <1>2, <1>3, PTL DEF Spec

-----------------------------------------------------------------------------
(* Finished oneshots *)

\* Nobody downstream of a child that does not serve is finished.
LEMMA NothingDoneBelow ==
    ASSUME NEW w, Sound(w), NEW c \in Child, ~ServesIn(w, c)
    PROVE  \A x \in TransitiveDependents(c) : ~w.done[x]
<1> DEFINE S == {x \in Child : ~ServesIn(w, x) /\ ~w.done[x]}
<1>1. \A x \in Child : Deps[x] \subseteq Child
  BY DepsAssumption
<1>2. ASSUME NEW x \in Child, NEW d \in Deps[x], ~ServesIn(w, d)
      PROVE  x \in S
  <2>1. w.st[x].phase \notin Up \cup {"BACKOFF"} /\ ~w.done[x]
    BY <1>2 DEF Sound
  <2>2. ~ServesIn(w, x)
    BY <2>1 DEF ServesIn, Up
  <2>3. QED
    BY <2>1, <2>2
<1>3. Downward(S)
  BY <1>2 DEF Downward
<1>4. \A y \in Child : c \in Deps[y] => y \in S
  BY <1>2
<1>5. TransitiveDependents(c) \subseteq S
  BY <1>3, <1>4 DEF TransitiveDependents
<1>6. QED
  BY <1>5

\* Bringing c up, successfully or not, concerns only c and its dependents.
LEMMA AfterSpawnOthers ==
    ASSUME NEW w \in World, NEW c \in Child, NEW x \in Child,
           x # c, x \notin TransitiveDependents(c), NEW v \in AfterSpawn(w, c)
    PROVE  v.st[x] = w.st[x] /\ v.done[x] = w.done[x]
<1> DEFINE s == Feed(w, c, "SPAWNED")
           f == Feed(s, c, "EXITED_CRASH")
<1>0. "SPAWNED" \in Event /\ "EXITED_CRASH" \in Event
  BY DEF Event
<1>1. s \in World /\ s.st[x] = w.st[x] /\ s.done[x] = w.done[x]
  BY <1>0, FeedFacts DEF FeedResult
<1> HIDE DEF s
<1>2. f \in World /\ f.st[x] = s.st[x] /\ f.done[x] = s.done[x]
  BY <1>0, <1>1, FeedFacts DEF FeedResult
<1> HIDE DEF f
<1>3. /\ SpawnChild(s, c).st = s.st /\ SpawnChild(s, c).done = s.done
      /\ SpawnChild(f, c).st = f.st /\ SpawnChild(f, c).done = f.done
  BY <1>1, <1>2, SpawnFacts
<1>4. v \in {SpawnChild(s, c), f, SpawnChild(f, c)}
  BY DEF AfterSpawn, AfterFailedSpawn, s, f
<1>5. QED
  BY <1>1, <1>2, <1>3, <1>4

\* What a step may do to a finished oneshot.
StaysDone(x) ==
    \/ done'[x] /\ st'[x].phase = "STOPPED"
    \/ \E d \in Child : /\ x \in TransitiveDependents(d)
                        /\ st[d].phase \in Up
                        /\ st'[d].phase \in Dead
    \/ life' = "unconfigured" /\ st'[x] = InitialChild

\* A finished oneshot stays finished through every step that neither kills a
\* child it depends on nor forgets all children.
LEMMA DoneStep ==
    ASSUME PositiveBackoff, IInv, [Next]_vars, NEW x \in Child, done[x]
    PROVE  StaysDone(x)
<1>1. TypeOK /\ Sound(Now) /\ Tracked(Now) /\ Now \in World
  BY NowType DEF IInv
<1>2. /\ Now.st = st /\ Now.done = done
      /\ Now.st' = st' /\ Now.done' = done'
  BY DEF Now
<1>3. st[x].phase = "STOPPED"
  BY <1>1, <1>2 DEF Sound
<1>4. CASE Now' = Now \/ UNCHANGED vars
  BY <1>2, <1>3, <1>4 DEF StaysDone, vars, world, Now
<1>5. CASE FedStep
  <2>1. PICK c \in Child, ev \in Event : \E w \in {Now, Reaped(c)} :
            FeedSource(c, w, ev) /\ Now' \in AfterFeed(w, c, ev)
    BY <1>5 DEF FedStep
  <2>2. PICK w \in {Now, Reaped(c)} :
            FeedSource(c, w, ev) /\ Now' \in AfterFeed(w, c, ev)
    BY <2>1
  <2>3. w \in World /\ w.st = st /\ w.done = done
    BY <1>1, <1>2, NowType
  <2>4. ev # "SPAWNED"
    BY <2>2 DEF FeedSource
  <2> DEFINE f == Feed(w, c, ev)
             t == Transition(c, w.st[c], ev)
  <2>5. FeedResult(w, c, ev, f)
    BY <2>3, FeedFacts
  <2>6. w.st[c] \in ChildState /\ Moves(c, w.st[c], ev, t)
    BY <2>3, TransitionFacts DEF World
  <2> HIDE DEF f, t
  <2>7. CASE ~SpawnsNow(w, c, ev)
    <3>1. Now' = f
      BY <2>2, <2>7 DEF AfterFeed, f
    <3>2. st' = f.st /\ done' = f.done
      BY <3>1 DEF Now
    <3>3. CASE x = c
      <4>1. t.st.phase = "STOPPED"
        BY <1>3, <2>3, <2>4, <2>6, <3>3 DEF Moves
      <4>2. f.st[c] = t.st
        BY <2>5 DEF FeedResult, t
      <4>3. f.done[c] = (w.done[c] \/ Finishes(w, c, ev))
        BY <2>5 DEF FeedResult
      <4>4. f.done[c]
        BY <2>3, <3>3, <4>3
      <4>5. QED
        BY <3>2, <3>3, <4>1, <4>2, <4>4 DEF StaysDone
    <3>4. CASE x # c /\ Dies(w, c, ev) /\ x \in TransitiveDependents(c)
      <4>1. st[c].phase \in Up /\ t.st.phase \in Dead
        BY <2>3, <3>4 DEF Dies, t
      <4>2. st'[c] = t.st
        BY <2>5, <3>2 DEF FeedResult, t
      <4>3. QED
        BY <3>4, <4>1, <4>2 DEF StaysDone
    <3>5. CASE x # c /\ ~(Dies(w, c, ev) /\ x \in TransitiveDependents(c))
      <4>1. f.st[x] = w.st[x] /\ f.done[x] = w.done[x]
        BY <2>5, <3>5 DEF FeedResult
      <4>2. QED
        BY <1>3, <2>3, <3>2, <4>1 DEF StaysDone
    <3>6. QED
      BY <3>3, <3>4, <3>5
  <2>8. CASE SpawnsNow(w, c, ev)
    <3>1. st[c].phase = "BACKOFF" /\ t.st.phase = "STARTING"
      BY <2>3, <2>8, SpawnsNowOnlyOnTick DEF t
    <3>2. x # c /\ ~Dies(w, c, ev)
      BY <1>3, <2>3, <3>1 DEF Dies, t, Dead
    <3>3. x \notin TransitiveDependents(c)
      BY <1>1, <1>2, <3>1, NothingDoneBelow DEF ServesIn
    <3>4. f \in World /\ f.st[x] = w.st[x] /\ f.done[x] = w.done[x]
      BY <2>5, <3>2 DEF FeedResult
    <3>5. Now' \in AfterSpawn(f, c)
      BY <2>2, <2>8 DEF AfterFeed, f
    <3>6. st'[x] = f.st[x] /\ done'[x] = f.done[x]
      BY <1>2, <3>2, <3>3, <3>4, <3>5, AfterSpawnOthers
    <3>7. QED
      BY <1>3, <2>3, <3>4, <3>6 DEF StaysDone
  <2>9. QED
    BY <2>7, <2>8
<1>6. CASE SpawnStep
  <2>1. PICK c \in Child : CanBringUp(c) /\ Now' \in AfterSpawn(Now, c)
    BY <1>6 DEF SpawnStep
  <2>2. x # c /\ ~ServesIn(Now, c)
    BY <1>2, <2>1 DEF CanBringUp, ServesIn
  <2>3. x \notin TransitiveDependents(c)
    BY <1>1, <1>2, <2>2, NothingDoneBelow
  <2>4. st'[x] = st[x] /\ done'[x] = done[x]
    BY <1>1, <1>2, <2>1, <2>2, <2>3, AfterSpawnOthers
  <2>5. QED
    BY <1>3, <2>4 DEF StaysDone
<1>7. CASE EndStep
  BY <1>3, <1>7 DEF EndStep, StaysDone
<1>8. CASE AgeStep
  <2>1. st'[x].phase = st[x].phase
    BY <1>1, <1>8, AgedFacts DEF AgeStep, TypeOK
  <2>2. QED
    BY <1>3, <1>8, <2>1 DEF AgeStep, StaysDone
<1>9. CASE ResetStep
  BY <1>9 DEF ResetStep, StaysDone
<1>10. QED
  BY <1>1, <1>4, <1>5, <1>6, <1>7, <1>8, <1>9, WorldStep

(***************************************************************************)
(* A finished oneshot becomes due again only in a step in which a child it *)
(* depends on, directly or not, dies, or when on_cleanup() forgets all     *)
(* children: neither a failed bring-up nor a due retry elsewhere reruns    *)
(* it, nor the teardown and the ticks that follow on_shutdown().           *)
(***************************************************************************)
THEOREM OneshotTheorem ==
    ASSUME PositiveBackoff
    PROVE  Spec => OneshotRerunOnlyAfterDeath
<1>1. Init => IInv
  BY InitIInv
<1>2. IInv /\ [Next]_vars => IInv'
  BY NextIInv
<1>3. IInv /\ [Next]_vars =>
        [\A c \in Child : done[c] =>
           \/ done'[c] /\ st'[c].phase = "STOPPED"
           \/ \E d \in Child : /\ c \in TransitiveDependents(d)
                               /\ st[d].phase \in Up
                               /\ st'[d].phase \in Dead
           \/ life' = "unconfigured" /\ st'[c] = InitialChild]_vars
  BY DoneStep DEF StaysDone
<1>4. QED
  BY <1>1, <1>2, <1>3, PTL DEF Spec, OneshotRerunOnlyAfterDeath

-----------------------------------------------------------------------------
(* Processes and the lifecycle of the supervisor *)

\* tick_timer_ is armed in an active node, and may outlive it by a shutdown
\* only; the loops of tick() and try_bring_up() run only while it is armed.
LoopsActive ==
    /\ pc \in {"scan", "bringup"} => ticking
    /\ life = "active" => ticking
    /\ ticking => life \in {"active", "finalized"}

\* Every step keeps the timer and the loops so.
LEMMA LoopsActiveStep ==
    ASSUME TypeOK, LoopsActive, [Next]_vars
    PROVE  LoopsActive'
BY DEF TypeOK, LoopsActive, vars, node, Next, StartTick, Scan, BringUp, Dispatch,
   Evaluate, EndReport, Activate, Deactivate, Cleanup, Configure, Shutdown, Exit,
   ProcessExits, TimePasses

\* A health verdict never makes feed() spawn, whatever the backoff.
LEMMA VerdictNeverSpawns ==
    ASSUME NEW w \in World, NEW c \in Child,
           NEW ev \in {"HEALTH_OK", "HEALTH_LOST"}
    PROVE  /\ AfterFeed(w, c, ev) = {Feed(w, c, ev)}
           /\ \A x \in Child : Feed(w, c, ev).proc[x] \in {"none", w.proc[x]}
<1> DEFINE t == Transition(c, w.st[c], ev)
           f == Feed(w, c, ev)
<1>1. ev \in Event /\ w.st[c] \in ChildState /\ w.st[c].phase \in Phase
  BY DEF Event, World, ChildState
<1>2. Moves(c, w.st[c], ev, t) /\ FeedResult(w, c, ev, f)
  BY <1>1, TransitionFacts, FeedFacts
<1> HIDE DEF t, f
<1>3. t.kind # "SPAWN"
  BY <1>1, <1>2 DEF Moves, Phase, Up
<1>4. \A x \in Child : f.proc[x] \in {"none", w.proc[x]}
  <2> DEFINE T == IF Dies(w, c, ev) THEN TransitiveDependents(c) ELSE {}
  <2>1. /\ f.proc[c] \in {"none", w.proc[c]}
        /\ \A x \in Child \ T : x # c => f.proc[x] = w.proc[x]
        /\ \A x \in T : f.proc[x] \in {"none", w.proc[x]}
    BY <1>2 DEF FeedResult
  <2> HIDE DEF T
  <2>2. QED
    BY <2>1
<1>5. ~SpawnsNow(w, c, ev)
  BY <1>3 DEF SpawnsNow, t
<1>6. QED
  BY <1>4, <1>5 DEF AfterFeed, f

(***************************************************************************)
(* Once tick_timer_ is gone, whichever callback still runs (the health     *)
(* subscription outlives on_deactivate()) and whatever retry was pending,  *)
(* no child process exists until the node is active again; and the timer   *)
(* outlives the active node only between a shutdown and the exit.          *)
(***************************************************************************)
THEOREM NoChildWithoutSupervisorTheorem == Spec => []NoChildWithoutSupervisor
<1> DEFINE J == TypeOK /\ LoopsActive /\ NoChildWithoutSupervisor
<1>1. Init => J
  <2>1. SUFFICES ASSUME Init PROVE J
    OBVIOUS
  <2>2. TypeOK
    BY <2>1, InitType
  <2>3. QED
    BY <2>1, <2>2 DEF Init, LoopsActive, NoChildWithoutSupervisor
<1>2. J /\ [Next]_vars => J'
  <2>1. SUFFICES ASSUME J, [Next]_vars PROVE J'
    OBVIOUS
  <2>2. TypeOK' /\ LoopsActive'
    BY <2>1, NextType, LoopsActiveStep
  <2>3. NoChildWithoutSupervisor'
    <3>1. SUFFICES ASSUME ~ticking', NEW x \in Child
                   PROVE  proc'[x] = "none"
      BY <2>2 DEF NoChildWithoutSupervisor, LoopsActive
    <3>2. CASE UNCHANGED <<proc, ticking>>
      BY <2>1, <3>1, <3>2 DEF NoChildWithoutSupervisor
    <3>3. CASE Scan \/ BringUp \/ StartTick
      <4>1. ticking /\ ticking' = ticking
        BY <2>1, <3>3 DEF LoopsActive, Scan, BringUp, StartTick, node
      <4>2. QED
        BY <3>1, <4>1
    <3>4. CASE Deactivate \/ Shutdown \/ Exit \/ Cleanup
      BY <3>4 DEF Deactivate, Shutdown, Exit, Cleanup, TeardownChildren
    <3>5. ASSUME NEW c \in Child, NEW how \in {"exit0", "crashed"},
                 ProcessExits(c, how)
          PROVE  FALSE
      BY <2>1, <3>1, <3>5 DEF ProcessExits, NoChildWithoutSupervisor, node
    <3>6. CASE Activate
      BY <3>1, <3>6 DEF Activate
    <3>7. ASSUME NEW c \in Child, Evaluate(c)
          PROVE  proc'[x] = "none"
      <4>1. CASE UNCHANGED world
        BY <2>1, <3>1, <3>7, <4>1 DEF Evaluate, world, node, NoChildWithoutSupervisor
      <4>2. ASSUME NEW ev \in {"HEALTH_OK", "HEALTH_LOST"},
                   FeedChild(Now, c, ev)
            PROVE  proc'[x] = "none"
        <5>1. /\ AfterFeed(Now, c, ev) = {Feed(Now, c, ev)}
              /\ Feed(Now, c, ev).proc[x] \in {"none", Now.proc[x]}
          BY <2>1, NowType, VerdictNeverSpawns
        <5>2. proc' = Feed(Now, c, ev).proc
          BY <4>2, <5>1 DEF FeedChild, Become
        <5>3. proc[x] = "none"
          BY <2>1, <3>1, <3>7 DEF Evaluate, node, NoChildWithoutSupervisor
        <5>4. QED
          BY <5>1, <5>2, <5>3 DEF Now
      <4>3. QED
        BY <3>7, <4>1, <4>2 DEF Evaluate
    <3>8. CASE \/ (\E r \in Report : Dispatch(r)) \/ EndReport \/ TimePasses
               \/ Configure
      BY <3>2, <3>8 DEF Dispatch, EndReport, TimePasses, Configure, world, node
    <3>9. QED
      BY <2>1, <3>2, <3>3, <3>4, <3>5, <3>6, <3>7, <3>8 DEF Next, vars, world, node
  <2>4. QED
    BY <2>2, <2>3
<1>3. QED
  BY <1>1, <1>2, PTL DEF Spec

-----------------------------------------------------------------------------
(* Children that are up have a process *)

\* Every child that is up, c excepted, has a process.
BackedBut(w, c) ==
    \A x \in Child : x # c /\ w.st[x].phase \in Up => w.proc[x] # "none"

Backed(w) == \A x \in Child : w.st[x].phase \in Up => w.proc[x] # "none"

\* feed() backs the others as before: those it does not leave alone go down.
LEMMA FeedBacksOthers ==
    ASSUME NEW w \in World, NEW c \in Child, NEW ev \in Event, BackedBut(w, c)
    PROVE  BackedBut(Feed(w, c, ev), c)
<1> DEFINE f == Feed(w, c, ev)
           T == IF Dies(w, c, ev) THEN TransitiveDependents(c) ELSE {}
<1>1. /\ \A x \in Child \ T : x # c => f.st[x] = w.st[x] /\ f.proc[x] = w.proc[x]
      /\ \A x \in T : f.st[x].phase \in {"STOPPED", "FATAL"}
  BY FeedFacts DEF FeedResult
<1> HIDE DEF f, T
<1>2. \A x \in Child : x # c /\ f.st[x].phase \in Up => f.proc[x] # "none"
  BY <1>1 DEF BackedBut, Up
<1> QED
  BY <1>2 DEF BackedBut, f

\* An exit or a timeout takes the child down.
LEMMA FeedTakesDown ==
    ASSUME NEW w \in World, NEW c \in Child, NEW ev \in Event,
           \/ ev \in {"EXITED_OK", "EXITED_CRASH"}
           \/ ev = "START_TIMEOUT" /\ w.st[c].phase = "STARTING"
    PROVE  Feed(w, c, ev).st[c].phase \notin Up
<1>1. w.st[c] \in ChildState /\ w.st[c].phase \in Phase
  BY DEF World, ChildState
<1> DEFINE t == Transition(c, w.st[c], ev)
<1>2. Moves(c, w.st[c], ev, t) /\ Feed(w, c, ev).st[c] = t.st
  BY <1>1, TransitionFacts, FeedFacts DEF FeedResult
<1> HIDE DEF t
<1>3. t.st.phase \notin Up
  BY <1>1, <1>2 DEF Moves, Phase, Up
<1> QED
  BY <1>2, <1>3

\* A due retry spawns in the same call of feed() that starts the child.
LEMMA RetrySpawns ==
    ASSUME NEW w \in World, NEW c \in Child, w.st[c].phase = "BACKOFF",
           Transition(c, w.st[c], "TICK").st.phase = "STARTING"
    PROVE  SpawnsNow(w, c, "TICK")
<1>1. Transition(c, w.st[c], "TICK") = OnBackoff(w.st[c], "TICK")
  BY DEF Transition
<1>2. CASE w.st[c].wait = 0
  BY <1>1, <1>2 DEF OnBackoff, Result, SpawnsNow
<1>3. CASE w.st[c].wait # 0
  <2>1. OnBackoff(w.st[c], "TICK") = Result(w.st[c], "NONE", 0)
    BY <1>3 DEF OnBackoff
  <2> QED
    BY <1>1, <2>1 DEF Result
<1> QED
  BY <1>2, <1>3

\* The events that are fed without a reap back the child, unless they spawn it.
LEMMA FeedBacksSelf ==
    ASSUME NEW w \in World, NEW c \in Child, Backed(w),
           NEW ev \in {"RUNNING", "RUNNING_STABLE", "TICK", "HEALTH_OK", "HEALTH_LOST"},
           ~SpawnsNow(w, c, ev)
    PROVE  Backed(Feed(w, c, ev))
<1> DEFINE f == Feed(w, c, ev)
           t == Transition(c, w.st[c], ev)
<1>1. ev \in Event /\ w.st[c] \in ChildState /\ w.st[c].phase \in Phase
  BY DEF Event, World, ChildState
<1>2. BackedBut(f, c)
  BY <1>1, FeedBacksOthers DEF Backed, BackedBut
<1>3. /\ Moves(c, w.st[c], ev, t) /\ f.st[c] = t.st
      /\ t.kind \notin {"KILL", "MARK_FATAL"} => f.proc[c] = w.proc[c]
  BY <1>1, TransitionFacts, FeedFacts DEF FeedResult
<1>4. ~(w.st[c].phase = "BACKOFF" /\ ev = "TICK" /\ t.st.phase = "STARTING")
  BY RetrySpawns
<1> HIDE DEF f, t
<1>5. t.st.phase \in Up => w.st[c].phase \in Up /\ t.kind = "NONE"
  BY <1>1, <1>3, <1>4 DEF Moves, Phase, Up
<1>6. f.st[c].phase \in Up => f.proc[c] # "none"
  BY <1>3, <1>5 DEF Backed
<1> QED
  BY <1>2, <1>6 DEF Backed, BackedBut, f

\* A spawn gives the child a process; a failed one takes the child down.
LEMMA AfterSpawnBacked ==
    ASSUME NEW w \in World, NEW c \in Child, BackedBut(w, c), NEW v \in AfterSpawn(w, c)
    PROVE  Backed(v)
<1> DEFINE s == Feed(w, c, "SPAWNED")
           f == Feed(s, c, "EXITED_CRASH")
<1>0. "SPAWNED" \in Event /\ "EXITED_CRASH" \in Event
  BY DEF Event
<1>1. s \in World /\ BackedBut(s, c)
  BY <1>0, FeedFacts, FeedBacksOthers DEF FeedResult
<1> HIDE DEF s
<1>2. f \in World /\ BackedBut(f, c) /\ f.st[c].phase \notin Up
  BY <1>0, <1>1, FeedFacts, FeedBacksOthers, FeedTakesDown DEF FeedResult
<1> HIDE DEF f
<1>3. v \in {SpawnChild(s, c), f, SpawnChild(f, c)}
  BY DEF AfterSpawn, AfterFailedSpawn, s, f
<1>4. ASSUME NEW u \in World, BackedBut(u, c)
      PROVE  Backed(SpawnChild(u, c))
  <2>1. /\ SpawnChild(u, c).st = u.st /\ SpawnChild(u, c).proc[c] = "alive"
        /\ \A x \in Child : x # c => SpawnChild(u, c).proc[x] = u.proc[x]
    BY SpawnFacts
  <2> QED
    BY <1>4, <2>1 DEF Backed, BackedBut
<1>5. Backed(f)
  BY <1>2 DEF Backed, BackedBut
<1> QED
  BY <1>1, <1>2, <1>3, <1>4, <1>5

\* So does a whole call of feed(), as its callers make it.
LEMMA FedBacked ==
    ASSUME TypeOK, Backed(Now), FedStep
    PROVE  Backed(Now')
<1>1. PICK c \in Child, ev \in Event : \E w \in {Now, Reaped(c)} :
        FeedSource(c, w, ev) /\ Now' \in AfterFeed(w, c, ev)
  BY DEF FedStep
<1>2. PICK w \in {Now, Reaped(c)} :
        FeedSource(c, w, ev) /\ Now' \in AfterFeed(w, c, ev)
  BY <1>1
<1>3. Now.st = st /\ Now.proc = proc
  BY DEF Now
<1>4. /\ w \in World /\ w.st = st
      /\ \A x \in Child : x # c => w.proc[x] = proc[x]
  BY <1>3, NowType
<1>5. BackedBut(w, c)
  BY <1>3, <1>4 DEF Backed, BackedBut
<1>6. CASE SpawnsNow(w, c, ev)
  <2>1. Now' \in AfterSpawn(Feed(w, c, ev), c)
    BY <1>2, <1>6 DEF AfterFeed
  <2>2. Feed(w, c, ev) \in World /\ BackedBut(Feed(w, c, ev), c)
    BY <1>4, <1>5, FeedFacts, FeedBacksOthers DEF FeedResult
  <2> QED
    BY <2>1, <2>2, AfterSpawnBacked
<1>7. CASE ~SpawnsNow(w, c, ev)
  <2>1. Now' = Feed(w, c, ev)
    BY <1>2, <1>7 DEF AfterFeed
  <2>2. CASE ev \in {"RUNNING", "RUNNING_STABLE", "TICK", "HEALTH_OK", "HEALTH_LOST"}
    <3>1. w = Now
      BY <1>2, <2>2 DEF FeedSource
    <3> QED
      BY <1>4, <1>7, <2>1, <2>2, <3>1, FeedBacksSelf
  <2>3. CASE ev \in {"EXITED_OK", "EXITED_CRASH", "START_TIMEOUT"}
    <3>1. ev = "START_TIMEOUT" => w.st[c].phase = "STARTING"
      BY <1>2, <1>4 DEF FeedSource
    <3>2. /\ Feed(w, c, ev).st[c].phase \notin Up
          /\ BackedBut(Feed(w, c, ev), c)
      BY <1>4, <1>5, <2>3, <3>1, FeedTakesDown, FeedBacksOthers
    <3>3. Backed(Feed(w, c, ev))
      BY <3>2 DEF Backed, BackedBut
    <3> QED
      BY <2>1, <3>3
  <2> QED
    BY <1>2, <2>2, <2>3 DEF FeedSource
<1> QED
  BY <1>6, <1>7

\* A verdict that comes before the node is activated starts nothing.
LEMMA VerdictStartsNothing ==
    ASSUME TypeOK, NEW c \in Child, Evaluate(c),
           \A x \in Child : st[x].phase \notin Up
    PROVE  \A x \in Child : st'[x].phase \notin Up
<1>1. CASE UNCHANGED world
  BY <1>1 DEF world
<1>2. ASSUME NEW ev \in {"HEALTH_OK", "HEALTH_LOST"}, FeedChild(Now, c, ev)
      PROVE  \A x \in Child : st'[x].phase \notin Up
  <2> DEFINE f == Feed(Now, c, ev)
             t == Transition(c, Now.st[c], ev)
             T == IF Dies(Now, c, ev) THEN TransitiveDependents(c) ELSE {}
  <2>1. /\ ev \in Event /\ Now \in World /\ Now.st = st
        /\ st[c] \in ChildState /\ st[c].phase \in Phase
    BY NowType DEF Event, Now, TypeOK, ChildState
  <2>2. st' = f.st
    BY <1>2, <2>1, VerdictNeverSpawns DEF FeedChild, Become
  <2>3. /\ Moves(c, st[c], ev, t) /\ f.st[c] = t.st
        /\ \A x \in Child \ T : x # c => f.st[x] = st[x]
        /\ \A x \in T : f.st[x].phase \in {"STOPPED", "FATAL"}
    BY <2>1, TransitionFacts, FeedFacts DEF FeedResult
  <2> HIDE DEF f, t, T
  <2>4. t.st.phase \notin Up
    BY <2>1, <2>3 DEF Moves, Phase, Up
  <2> QED
    BY <2>2, <2>3, <2>4 DEF Up
<1> QED
  BY <1>1, <1>2 DEF Evaluate

(***************************************************************************)
(* While the node is active, a child it reports as STARTING or RUNNING has *)
(* a process or a corpse that the next tick finds: no way through feed(),  *)
(* a failed posix_spawn included, leaves a phase up without one.  The      *)
(* hypothesis is needed: teardown_children() kills the processes and       *)
(* leaves the phases, so that an operator who activates a deactivated node *)
(* finds ghosts.                                                           *)
(***************************************************************************)
THEOREM NoGhostChildTheorem ==
    ASSUME ~Reactivates
    PROVE  Spec => []NoGhostChild
<1> DEFINE J == /\ TypeOK /\ LoopsActive
                /\ life # "unconfigured"
                /\ life = "active" => Backed(Now)
                /\ life = "inactive" => \A c \in Child : st[c].phase \notin Up
<1>1. Init => J
  <2>1. SUFFICES ASSUME Init PROVE J
    OBVIOUS
  <2>2. TypeOK
    BY <2>1, InitType
  <2> QED
    BY <2>1, <2>2 DEF Init, LoopsActive, InitialChild, Up
<1>2. J /\ [Next]_vars => J'
  <2>1. SUFFICES ASSUME J, [Next]_vars PROVE J'
    OBVIOUS
  <2>2. TypeOK' /\ LoopsActive'
    BY <2>1, NextType, LoopsActiveStep
  <2>3. /\ Backed(Now') <=> Backed(Now)'
        /\ Now.st = st /\ Now.proc = proc /\ Now'.st = st' /\ Now'.proc = proc'
    BY DEF Backed, Now
  <2>4. ASSUME life' = "active", NEW x \in Child, st'[x].phase \in Up
        PROVE  proc'[x] # "none"
    <3>1. CASE Activate
      BY <2>1, <2>4, <3>1 DEF Activate, world
    <3>2. CASE life = "active"
      <4>1. Backed(Now)
        BY <2>1, <3>2
      <4>2. CASE FedStep
        BY <2>1, <2>3, <2>4, <4>1, <4>2, FedBacked DEF Backed
      <4>3. CASE SpawnStep
        <5>1. PICK c \in Child : Now' \in AfterSpawn(Now, c)
          BY <4>3 DEF SpawnStep
        <5>2. Backed(Now')
          BY <2>1, <4>1, <5>1, NowType, AfterSpawnBacked DEF Backed, BackedBut
        <5> QED
          BY <2>3, <2>4, <5>2 DEF Backed
      <4>4. CASE AgeStep
        <5>1. st'[x].phase = st[x].phase /\ proc' = proc
          BY <2>1, <4>4, AgedFacts DEF AgeStep, TypeOK
        <5> QED
          BY <2>3, <2>4, <4>1, <5>1 DEF Backed
      <4>5. CASE Now' = Now
        BY <2>3, <2>4, <4>1, <4>5 DEF Backed
      <4>6. CASE EndStep
        BY <2>3, <2>4, <4>1, <4>6 DEF EndStep, Backed
      <4> QED
        BY <2>1, <2>4, <4>2, <4>3, <4>4, <4>5, <4>6, WorldStep
           DEF vars, world, Now, ResetStep
    <3> QED
      BY <2>1, <2>4, <3>1, <3>2 DEF Next, StartTick, Scan, BringUp, Dispatch, Evaluate, EndReport,
         Deactivate, Cleanup, Configure, Shutdown, Exit, ProcessExits, TimePasses,
         vars, node
  <2>5. ASSUME life' = "inactive"
        PROVE  \A x \in Child : st'[x].phase \notin Up
    <3>1. life = "inactive" /\ ~Scan /\ ~BringUp
      BY <2>1, <2>5 DEF Next, StartTick, Scan, BringUp, Dispatch, Evaluate, EndReport,
         Activate, Deactivate, Cleanup, Configure, Shutdown, Exit, ProcessExits,
         TimePasses, vars, node, LoopsActive
    <3>2. \A x \in Child : st[x].phase \notin Up
      BY <2>1, <3>1
    <3>3. ASSUME NEW c \in Child, Evaluate(c)
          PROVE  \A x \in Child : st'[x].phase \notin Up
      BY <2>1, <3>2, <3>3, VerdictStartsNothing
    <3>4. CASE TimePasses
      BY <2>1, <3>2, <3>4, AgedFacts DEF TimePasses, TypeOK
    <3>5. CASE st' = st
      BY <3>2, <3>5
    <3>6. ASSUME \/ StartTick \/ EndReport \/ Activate \/ Deactivate \/ Shutdown
                 \/ Configure \/ Exit
                 \/ \E r \in Report : Dispatch(r)
                 \/ \E c \in Child, how \in {"exit0", "crashed"} : ProcessExits(c, how)
                 \/ UNCHANGED vars
          PROVE  st' = st
      BY <3>6 DEF StartTick, EndReport, Activate, Deactivate, Configure, Shutdown, Exit,
         TeardownChildren, Dispatch, ProcessExits, vars, world
    <3> QED
      BY <2>1, <3>1, <3>3, <3>4, <3>5, <3>6 DEF Next, Cleanup
  <2>6. life' # "unconfigured"
    BY <2>1 DEF Next, StartTick, Scan, BringUp, Dispatch, Evaluate, EndReport,
       Activate, Deactivate, Cleanup, Configure, Shutdown, Exit, ProcessExits,
       TimePasses, vars, node
  <2> QED
    BY <2>2, <2>3, <2>4, <2>5, <2>6 DEF Backed
<1>3. J => NoGhostChild
  BY DEF NoGhostChild, Backed, Now
<1>4. QED
  BY <1>1, <1>2, <1>3, PTL DEF Spec

-----------------------------------------------------------------------------
(***************************************************************************)
(* topo_order(), for lists of every length.                                *)
(***************************************************************************)
\* Induction over the naturals, by the least exception.
LEMMA LeastNat ==
    ASSUME NEW T, T \subseteq Nat, T # {}
    PROVE  \E m \in T : \A k \in T : m <= k
<1> DEFINE R == OpToRel(<, Nat)
<1>1. IsWellFoundedOn(R, Nat)
  BY NatLessThanWellFounded
<1>2. \A x, y \in Nat : x < y => <<x, y>> \in R
  BY DEF OpToRel
<1> HIDE DEF R
<1>3. \E x \in T : \A y \in T : ~(<<y, x>> \in R)
  BY <1>1, WFMin
<1>4. PICK x \in T : \A y \in T : ~(<<y, x>> \in R)
  BY <1>3
<1>5. \A y \in T : ~(y < x)
  BY <1>2, <1>4
<1>6. \A y \in T : x <= y
  BY <1>5
<1> QED
  BY <1>6

LEMMA Induct ==
    ASSUME NEW S, 0 \in S, \A n \in Nat : n \in S => n + 1 \in S
    PROVE  Nat \subseteq S
<1> SUFFICES ASSUME Nat \ S # {} PROVE FALSE
  OBVIOUS
<1>1. PICK m \in Nat \ S : \A k \in Nat \ S : m <= k
  BY LeastNat
<1>2. m \in Nat /\ m # 0 /\ m - 1 \in Nat /\ m = (m - 1) + 1
  BY <1>1
<1>3. m - 1 \in S
  BY <1>1, <1>2
<1> QED
  BY <1>1, <1>2, <1>3

\* The turns of a pass and the passes as functions that exist.
Turns(specs, order, n, turn) ==
    turn = [i \in 0..n |-> IF i = 0 THEN order ELSE Turn(turn[i - 1], specs[i])]

Passes(specs, n, pass) ==
    pass = [i \in 0..n |-> IF i = 0 THEN <<>> ELSE Pass(specs, pass[i - 1])]

LEMMA TurnsExist ==
    ASSUME NEW specs, NEW order
    PROVE  \A n \in Nat : \E turn : Turns(specs, order, n, turn)
<1> DEFINE S == {n \in Nat : \E turn : Turns(specs, order, n, turn)}
<1>1. 0 \in S
  <2>1. Turns(specs, order, 0, [i \in 0..0 |-> order])
    BY DEF Turns
  <2> QED
    BY <2>1
<1>2. ASSUME NEW n \in Nat, n \in S PROVE n + 1 \in S
  <2>1. PICK turn : Turns(specs, order, n, turn)
    BY <1>2
  <2> DEFINE more == [i \in 0..(n + 1) |->
                          IF i = n + 1 THEN Turn(turn[n], specs[i]) ELSE turn[i]]
  <2>2. ASSUME NEW i \in 0..(n + 1)
        PROVE  more[i] = IF i = 0 THEN order ELSE Turn(more[i - 1], specs[i])
    BY <2>1 DEF Turns
  <2>3. Turns(specs, order, n + 1, more)
    BY <2>2 DEF Turns
  <2> QED
    BY <2>3
<1> HIDE DEF S
<1>3. Nat \subseteq S
  BY <1>1, <1>2, Induct
<1> QED
  BY <1>3 DEF S

LEMMA PassesExist ==
    ASSUME NEW specs
    PROVE  \A n \in Nat : \E pass : Passes(specs, n, pass)
<1> DEFINE S == {n \in Nat : \E pass : Passes(specs, n, pass)}
<1>1. 0 \in S
  <2>1. Passes(specs, 0, [i \in 0..0 |-> <<>>])
    BY DEF Passes
  <2> QED
    BY <2>1
<1>2. ASSUME NEW n \in Nat, n \in S PROVE n + 1 \in S
  <2>1. PICK pass : Passes(specs, n, pass)
    BY <1>2
  <2> DEFINE more == [i \in 0..(n + 1) |->
                          IF i = n + 1 THEN Pass(specs, pass[n]) ELSE pass[i]]
  <2>2. ASSUME NEW i \in 0..(n + 1)
        PROVE  more[i] = IF i = 0 THEN <<>> ELSE Pass(specs, more[i - 1])
    BY <2>1 DEF Passes
  <2>3. Passes(specs, n + 1, more)
    BY <2>2 DEF Passes
  <2> QED
    BY <2>3
<1> HIDE DEF S
<1>3. Nat \subseteq S
  BY <1>1, <1>2, Induct
<1> QED
  BY <1>3 DEF S

Run(specs, order, turn) ==
    /\ Pass(specs, order) = turn[Len(specs)] /\ turn[0] = order
    /\ \A i \in 1..Len(specs) : turn[i] = Turn(turn[i - 1], specs[i])

LEMMA PassIs ==
    ASSUME NEW specs, Len(specs) \in Nat, NEW order
    PROVE  \E turn : Run(specs, order, turn)
<1> DEFINE turn == CHOOSE turn : Turns(specs, order, Len(specs), turn)
<1>1. Turns(specs, order, Len(specs), turn)
  BY TurnsExist
<1>2. Pass(specs, order) = turn[Len(specs)]
  BY DEF Pass, Turns
<1> HIDE DEF turn
<1>3. turn[0] = order /\ \A i \in 1..Len(specs) : turn[i] = Turn(turn[i - 1], specs[i])
  BY <1>1 DEF Turns
<1> QED
  BY <1>2, <1>3 DEF Run

\* What a list passes through on the way to its order.
Ordered(specs) ==
    LET pass[n \in 0..Len(specs)] == IF n = 0 THEN <<>> ELSE Pass(specs, pass[n - 1])
    IN  pass

LEMMA OrderedIs ==
    ASSUME NEW specs, Len(specs) \in Nat
    PROVE  /\ Ordered(specs)[0] = <<>>
           /\ \A n \in Nat : n + 1 <= Len(specs) =>
                 Ordered(specs)[n + 1] = Pass(specs, Ordered(specs)[n])
<1> DEFINE pass == Ordered(specs)
<1>1. \E p : Passes(specs, Len(specs), p)
  BY PassesExist
<1>2. Passes(specs, Len(specs), pass)
  BY <1>1 DEF Ordered, Passes
<1> HIDE DEF pass
<1>3. \A i \in 0..Len(specs) : pass[i] = IF i = 0 THEN <<>> ELSE Pass(specs, pass[i - 1])
  BY <1>2 DEF Passes
<1>4. ASSUME NEW n \in Nat, n + 1 <= Len(specs) PROVE pass[n + 1] = Pass(specs, pass[n])
  <2>1. n + 1 \in 0..Len(specs) /\ n + 1 # 0 /\ (n + 1) - 1 = n
    BY <1>4
  <2> QED
    BY <1>3, <2>1
<1>5. pass[0] = <<>>
  BY <1>3
<1> QED
  BY <1>4, <1>5 DEF pass

LEMMA TopoOrderIs ==
    ASSUME NEW specs
    PROVE  topo_order(specs) =
              IF /\ Cardinality(Names(specs)) = Len(specs)
                 /\ \A i \in DOMAIN specs : specs[i].depends_on \subseteq Names(specs)
                 /\ Len(Ordered(specs)[Len(specs)]) = Len(specs)
              THEN Ordered(specs)[Len(specs)] ELSE <<>>
  BY DEF topo_order, Ordered

(***************************************************************************)
(* An order in the making holds no name twice, only names of the list, and *)
(* each after what its child depends on; a turn keeps it so.               *)
(***************************************************************************)
ChildSpec(N) == [name : N, depends_on : SUBSET N, cmd : BOOLEAN]

Placed(specs, order, k) ==
    \E i \in DOMAIN specs : /\ specs[i].name = order[k]
                            /\ specs[i].depends_on \subseteq {order[j] : j \in 1..(k - 1)}

Sorted(N, specs, order) ==
    /\ order \in Seq(N)
    /\ \A k, l \in DOMAIN order : order[k] = order[l] => k = l
    /\ \A k \in DOMAIN order : Placed(specs, order, k)

LEMMA SpecTyped ==
    ASSUME NEW N, NEW specs \in Seq(ChildSpec(N))
    PROVE  /\ Len(specs) \in Nat /\ DOMAIN specs = 1..Len(specs)
           /\ \A i \in DOMAIN specs : specs[i].name \in N /\ specs[i].depends_on \subseteq N
<1>1. \A s \in ChildSpec(N) : s.name \in N /\ s.depends_on \subseteq N
  BY DEF ChildSpec
<1>2. \A i \in DOMAIN specs : specs[i] \in ChildSpec(N)
  OBVIOUS
<1> QED
  BY <1>1, <1>2

LEMMA TurnSorts ==
    ASSUME NEW N, NEW specs \in Seq(ChildSpec(N)), NEW order, Sorted(N, specs, order),
           NEW i \in DOMAIN specs
    PROVE  /\ Sorted(N, specs, Turn(order, specs[i]))
           /\ ToSet(order) \subseteq ToSet(Turn(order, specs[i]))
           /\ Turn(order, specs[i]) = order \/ Len(Turn(order, specs[i])) = Len(order) + 1
           /\ specs[i].depends_on \subseteq ToSet(order) =>
                 specs[i].name \in ToSet(Turn(order, specs[i]))
<1> DEFINE s == specs[i]
           next == Turn(order, s)
<1>1. order \in Seq(N) /\ Len(order) \in Nat /\ DOMAIN order = 1..Len(order)
  BY DEF Sorted
<1>2. CASE ~(s.name \notin ToSet(order) /\ s.depends_on \subseteq ToSet(order))
  <2>1. next = order
    BY <1>2 DEF Turn
  <2> QED
    BY <1>2, <2>1
<1>3. CASE s.name \notin ToSet(order) /\ s.depends_on \subseteq ToSet(order)
  <2>1. next = Append(order, s.name) /\ s.name \in N
    BY <1>3, SpecTyped DEF Turn
  <2> HIDE DEF next
  <2>2. /\ next \in Seq(N) /\ Len(next) = Len(order) + 1
        /\ DOMAIN next = 1..(Len(order) + 1) /\ next[Len(order) + 1] = s.name
        /\ \A k \in DOMAIN order : k \in DOMAIN next /\ next[k] = order[k]
    BY <1>1, <2>1
  <2>3. \A k \in DOMAIN next : k \in DOMAIN order \/ k = Len(order) + 1
    BY <1>1, <2>2
  <2>4. \A k \in DOMAIN order : order[k] # s.name
    BY <1>3 DEF ToSet
  <2>5. ASSUME NEW k \in DOMAIN next, NEW l \in DOMAIN next, next[k] = next[l]
        PROVE  k = l
    <3>1. \A m, n \in DOMAIN order : order[m] = order[n] => m = n
      BY DEF Sorted
    <3> QED
      BY <2>2, <2>3, <2>4, <2>5, <3>1
  <2>6. ASSUME NEW k \in DOMAIN next PROVE Placed(specs, next, k)
    <3>1. CASE k \in DOMAIN order
      <4>1. PICK j \in DOMAIN specs : /\ specs[j].name = order[k]
                /\ specs[j].depends_on \subseteq {order[m] : m \in 1..(k - 1)}
        BY <3>1 DEF Sorted, Placed
      <4>2. \A m \in 1..(k - 1) : next[m] = order[m]
        BY <1>1, <2>2, <3>1
      <4>3. {order[m] : m \in 1..(k - 1)} = {next[m] : m \in 1..(k - 1)}
        BY <4>2
      <4> QED
        BY <2>2, <3>1, <4>1, <4>3 DEF Placed
    <3>2. CASE k = Len(order) + 1
      <4>1. 1..(k - 1) = DOMAIN order
        BY <1>1, <3>2
      <4>2. ToSet(order) = {next[m] : m \in 1..(k - 1)}
        BY <2>2, <4>1 DEF ToSet
      <4> QED
        BY <1>3, <2>2, <3>2, <4>2 DEF Placed
    <3> QED
      BY <2>3, <3>1, <3>2
  <2>7. Sorted(N, specs, next)
    BY <2>2, <2>5, <2>6 DEF Sorted
  <2>8. ToSet(order) \subseteq ToSet(next)
    BY <2>2 DEF ToSet
  <2>9. s.name \in ToSet(next)
    <3>1. Len(order) + 1 \in DOMAIN next
      BY <1>1, <2>2
    <3> QED
      BY <2>2, <3>1 DEF ToSet
  <2> QED
    BY <2>2, <2>7, <2>8, <2>9 DEF next
<1> QED
  BY <1>2, <1>3

(***************************************************************************)
(* A pass sorts more, and takes up every child that is ready when it       *)
(* begins.                                                                 *)
(***************************************************************************)
LEMMA PassSorts ==
    ASSUME NEW N, NEW specs \in Seq(ChildSpec(N)), NEW order, Sorted(N, specs, order)
    PROVE  /\ Sorted(N, specs, Pass(specs, order))
           /\ Pass(specs, order) = order \/ Len(Pass(specs, order)) > Len(order)
           /\ \A i \in DOMAIN specs : specs[i].depends_on \subseteq ToSet(order) =>
                 specs[i].name \in ToSet(Pass(specs, order))
<1>1. Len(specs) \in Nat /\ DOMAIN specs = 1..Len(specs)
  BY SpecTyped
<1>2. PICK turn : Run(specs, order, turn)
  BY <1>1, PassIs
<1> DEFINE Good(n) ==
               /\ Sorted(N, specs, turn[n]) /\ ToSet(order) \subseteq ToSet(turn[n])
               /\ turn[n] = order \/ Len(turn[n]) > Len(order)
               /\ \A i \in 1..n : specs[i].depends_on \subseteq ToSet(order) =>
                     specs[i].name \in ToSet(turn[n])
           S == {n \in Nat : n <= Len(specs) => Good(n)}
<1>3. Len(order) \in Nat
  BY DEF Sorted
<1>4. 0 \in S
  BY <1>2 DEF Run
<1>5. ASSUME NEW n \in Nat, n \in S PROVE n + 1 \in S
  <2> SUFFICES ASSUME n + 1 <= Len(specs) PROVE Good(n + 1)
    OBVIOUS
  <2> DEFINE now == turn[n]
             next == turn[n + 1]
             s == specs[n + 1]
  <2>1. Good(n)
    BY <1>1, <1>5
  <2>2. n + 1 \in DOMAIN specs /\ (n + 1) - 1 = n
    BY <1>1
  <2>3. next = Turn(now, s)
    BY <1>1, <1>2, <2>2 DEF Run
  <2>4. Sorted(N, specs, now)
    BY <2>1
  <2>5. /\ Sorted(N, specs, Turn(now, s))
        /\ ToSet(now) \subseteq ToSet(Turn(now, s))
        /\ Turn(now, s) = now \/ Len(Turn(now, s)) = Len(now) + 1
        /\ s.depends_on \subseteq ToSet(now) => s.name \in ToSet(Turn(now, s))
    <3> HIDE DEF now
    <3> QED
      BY <2>2, <2>4, TurnSorts
  <2>6. Len(now) \in Nat
    BY <2>4 DEF Sorted
  <2> HIDE DEF now, next, s
  <2>7. Sorted(N, specs, next) /\ ToSet(order) \subseteq ToSet(next)
    BY <2>1, <2>3, <2>5 DEF now
  <2>8. next = order \/ Len(next) > Len(order)
    BY <1>3, <2>1, <2>3, <2>5, <2>6 DEF now
  <2>9. ASSUME NEW i \in 1..(n + 1), specs[i].depends_on \subseteq ToSet(order)
        PROVE  specs[i].name \in ToSet(next)
    <3>1. CASE i \in 1..n
      BY <2>1, <2>3, <2>5, <2>9, <3>1 DEF now
    <3>2. CASE i = n + 1
      BY <2>1, <2>3, <2>5, <2>9, <3>2 DEF now, s
    <3> QED
      BY <3>1, <3>2
  <2> QED
    BY <2>7, <2>8, <2>9 DEF next
<1> HIDE DEF S
<1>6. Nat \subseteq S
  BY <1>4, <1>5, Induct
<1>7. Good(Len(specs))
  BY <1>1, <1>6 DEF S
<1> QED
  BY <1>1, <1>2, <1>7 DEF Run

LEMMA PassesSort ==
    ASSUME NEW N, NEW specs \in Seq(ChildSpec(N))
    PROVE  \A n \in 0..Len(specs) : Sorted(N, specs, Ordered(specs)[n])
<1> DEFINE S == {n \in Nat : n <= Len(specs) => Sorted(N, specs, Ordered(specs)[n])}
<1>1. Len(specs) \in Nat
  BY SpecTyped
<1>2. 0 \in S
  <2>1. Ordered(specs)[0] = <<>>
    BY <1>1, OrderedIs
  <2>2. Sorted(N, specs, <<>>)
    BY DEF Sorted
  <2> QED
    BY <2>1, <2>2
<1>3. ASSUME NEW n \in Nat, n \in S PROVE n + 1 \in S
  BY <1>1, <1>3, OrderedIs, PassSorts
<1> HIDE DEF S
<1>4. Nat \subseteq S
  BY <1>2, <1>3, Induct
<1> QED
  BY <1>1, <1>4 DEF S

(***************************************************************************)
(* Counting: distinct names are as many as the list is long, and a sorted  *)
(* order as long as the list holds them all.                               *)
(***************************************************************************)
LEMMA NamesCounted ==
    ASSUME NEW N, NEW specs \in Seq(ChildSpec(N))
    PROVE  /\ IsFiniteSet(Names(specs))
           /\ Cardinality(Names(specs)) = Len(specs) <=>
                 \A i, j \in DOMAIN specs : specs[i].name = specs[j].name => i = j
<1> DEFINE f == [i \in 1..Len(specs) |-> specs[i].name]
           T == Names(specs)
<1>1. Len(specs) \in Nat /\ DOMAIN specs = 1..Len(specs)
  BY SpecTyped
<1>2. f \in Surjection(1..Len(specs), T)
  BY <1>1 DEF Surjection, Names
<1>3. IsFiniteSet(1..Len(specs)) /\ Cardinality(1..Len(specs)) = Len(specs)
  BY <1>1, FS_Interval
<1>4. f \in Injection(1..Len(specs), T) <=>
         \A i, j \in DOMAIN specs : specs[i].name = specs[j].name => i = j
  <2>1. f \in [1..Len(specs) -> T]
    BY <1>1 DEF Names
  <2>2. \A i \in DOMAIN specs : f[i] = specs[i].name
    BY <1>1
  <2> HIDE DEF f, T
  <2> QED
    BY <1>1, <2>1, <2>2 DEF Injection, IsInjective
<1> HIDE DEF f, T
<1>5. /\ IsFiniteSet(T)
      /\ Cardinality(T) = Cardinality(1..Len(specs)) <=> f \in Injection(1..Len(specs), T)
  BY <1>2, <1>3, FS_Surjection
<1> QED
  BY <1>3, <1>4, <1>5 DEF T

LEMMA OrderCounted ==
    ASSUME NEW N, NEW specs \in Seq(ChildSpec(N)), NEW order, Sorted(N, specs, order)
    PROVE  /\ ToSet(order) \subseteq Names(specs) /\ Len(order) <= Cardinality(Names(specs))
           /\ Len(order) = Cardinality(Names(specs)) <=> ToSet(order) = Names(specs)
<1> DEFINE T == ToSet(order)
<1>1. Len(order) \in Nat /\ DOMAIN order = 1..Len(order)
  BY DEF Sorted
<1>2. T \subseteq Names(specs)
  BY DEF Sorted, Placed, ToSet, Names
<1>3. order \in Bijection(1..Len(order), T)
  <2>1. order \in [1..Len(order) -> T] /\ \A v \in T : \E k \in 1..Len(order) : order[k] = v
    BY <1>1 DEF ToSet, Sorted
  <2>2. \A k, l \in 1..Len(order) : order[k] = order[l] => k = l
    BY <1>1 DEF Sorted
  <2> HIDE DEF T
  <2> QED
    BY <2>1, <2>2 DEF Bijection, Injection, Surjection, IsInjective
<1> HIDE DEF T
<1>4. IsFiniteSet(T) /\ Cardinality(T) = Len(order)
  <2>1. ExistsBijection(1..Len(order), T)
    BY <1>3 DEF ExistsBijection
  <2>2. IsFiniteSet(1..Len(order)) /\ Cardinality(1..Len(order)) = Len(order)
    <3>1. ASSUME NEW n \in Nat
          PROVE  IsFiniteSet(1..n) /\ Cardinality(1..n) = n
      BY FS_Interval
    <3> QED
      BY <1>1, <3>1
  <2> QED
    BY <2>1, <2>2, FS_Bijection
<1>5. IsFiniteSet(Names(specs))
  BY NamesCounted
<1>6. /\ Cardinality(T) <= Cardinality(Names(specs))
      /\ Cardinality(Names(specs)) = Cardinality(T) => Names(specs) = T
  BY <1>2, <1>5, FS_Subset
<1> QED
  BY <1>2, <1>4, <1>6 DEF T

(***************************************************************************)
(* topo_order() refuses exactly the lists that cannot be brought up, and   *)
(* puts every other in an order with each child once and after what it     *)
(* depends on, for lists of any length over any names.                     *)
(***************************************************************************)
THEOREM TopoOrderCorrect ==
    ASSUME NEW N, NEW specs \in Seq(ChildSpec(N))
    PROVE  OrdersOrRefuses(specs)
<1> DEFINE order == Ordered(specs)[Len(specs)]
           Accepts == /\ Cardinality(Names(specs)) = Len(specs)
                      /\ \A i \in DOMAIN specs : specs[i].depends_on \subseteq Names(specs)
                      /\ Len(order) = Len(specs)
<1>1. Len(specs) \in Nat /\ DOMAIN specs = 1..Len(specs)
  BY SpecTyped
<1>2. topo_order(specs) = IF Accepts THEN order ELSE <<>>
  BY TopoOrderIs
<1>3. Sorted(N, specs, order)
  BY <1>1, PassesSort
<1> HIDE DEF order
<1>4. ASSUME Accepts PROVE WellFormed(specs) /\ InOrder(specs, order)
  <2>1. \A i, j \in DOMAIN specs : specs[i].name = specs[j].name => i = j
    BY <1>4, NamesCounted
  <2>2. ToSet(order) = Names(specs) /\ Len(order) = Len(specs)
    BY <1>3, <1>4, OrderCounted
  <2>3. DOMAIN order = 1..Len(order) /\ Len(order) \in Nat
    BY <1>3 DEF Sorted
  <2>4. ASSUME NEW i \in DOMAIN specs, NEW k \in DOMAIN order, order[k] = specs[i].name
        PROVE  specs[i].depends_on \subseteq {order[j] : j \in 1..(k - 1)}
    <3>1. PICK h \in DOMAIN specs : /\ specs[h].name = order[k]
              /\ specs[h].depends_on \subseteq {order[j] : j \in 1..(k - 1)}
      BY <1>3 DEF Sorted, Placed
    <3>2. h = i
      BY <2>1, <2>4, <3>1
    <3> QED
      BY <3>1, <3>2
  <2>5. ASSUME NEW waiting \in (SUBSET DOMAIN specs) \ {{}}
        PROVE  \E i \in waiting :
                  specs[i].depends_on \cap {specs[j].name : j \in waiting} = {}
    <3> DEFINE T == {k \in DOMAIN order : \E i \in waiting : order[k] = specs[i].name}
    <3>1. PICK w \in waiting : w \in DOMAIN specs
      BY <2>5
    <3>2. T # {}
      <4>1. specs[w].name \in ToSet(order)
        BY <2>2, <3>1 DEF Names
      <4>2. PICK k \in DOMAIN order : order[k] = specs[w].name
        BY <4>1 DEF ToSet
      <4> QED
        BY <3>1, <4>2
    <3>3. T \subseteq Nat
      BY <2>3
    <3>4. PICK k \in T : \A l \in T : k <= l
      <4> HIDE DEF T
      <4> QED
        BY <3>2, <3>3, LeastNat
    <3>5. PICK i \in waiting : order[k] = specs[i].name
      OBVIOUS
    <3>6. specs[i].depends_on \subseteq {order[j] : j \in 1..(k - 1)}
      BY <2>4, <2>5, <3>5
    <3>7. ASSUME NEW j \in 1..(k - 1), NEW h \in waiting, order[j] = specs[h].name
          PROVE  FALSE
      <4>1. j \in DOMAIN order /\ j < k
        BY <2>3
      <4>2. j \in T
        BY <3>7, <4>1
      <4> QED
        BY <2>3, <3>4, <4>1, <4>2
    <3>8. specs[i].depends_on \cap {specs[j].name : j \in waiting} = {}
      BY <3>6, <3>7
    <3> QED
      BY <3>5, <3>8
  <2>6. WellFormed(specs)
    BY <1>4, <2>1, <2>5 DEF WellFormed
  <2>7. InOrder(specs, order)
    BY <2>2, <2>4 DEF InOrder
  <2> QED
    BY <2>6, <2>7
<1>5. ASSUME WellFormed(specs) PROVE Accepts
  <2>1. Cardinality(Names(specs)) = Len(specs)
    BY <1>5, NamesCounted DEF WellFormed
  <2>2. \A i \in DOMAIN specs : specs[i].depends_on \subseteq Names(specs)
    BY <1>5 DEF WellFormed
  <2>3. ASSUME NEW now, Sorted(N, specs, now), Len(now) < Len(specs)
        PROVE  Len(Pass(specs, now)) > Len(now)
    <3> DEFINE waiting == {i \in DOMAIN specs : specs[i].name \notin ToSet(now)}
    <3>1. ToSet(now) \subseteq Names(specs) /\ ToSet(now) # Names(specs)
      <4>1. Len(now) \in Nat
        BY <2>3 DEF Sorted
      <4>2. Len(now) # Len(specs)
        BY <1>1, <2>3, <4>1
      <4> QED
        BY <2>1, <2>3, <4>2, OrderCounted
    <3>2. waiting \in (SUBSET DOMAIN specs) \ {{}}
      BY <3>1 DEF Names
    <3>3. PICK i \in waiting : specs[i].depends_on \cap {specs[j].name : j \in waiting} = {}
      <4> HIDE DEF waiting
      <4> QED
        BY <1>5, <3>2 DEF WellFormed
    <3>4. specs[i].depends_on \subseteq ToSet(now)
      BY <2>2, <3>3 DEF Names
    <3>5. specs[i].name \in ToSet(Pass(specs, now)) /\ specs[i].name \notin ToSet(now)
      BY <2>3, <3>4, PassSorts
    <3>6. Pass(specs, now) # now
      BY <3>5
    <3> QED
      BY <2>3, <3>6, PassSorts
  <2> DEFINE S == {n \in Nat : n <= Len(specs) => Len(Ordered(specs)[n]) >= n}
  <2>4. \A n \in 0..Len(specs) : /\ Sorted(N, specs, Ordered(specs)[n])
                                 /\ Len(Ordered(specs)[n]) \in Nat
    <3>1. \A now : Sorted(N, specs, now) => Len(now) \in Nat
      BY DEF Sorted
    <3> QED
      BY <3>1, PassesSort
  <2>5. 0 \in S
    BY <1>1, <2>4
  <2>6. ASSUME NEW n \in Nat, n \in S PROVE n + 1 \in S
    <3> SUFFICES ASSUME n + 1 <= Len(specs)
                 PROVE  Len(Ordered(specs)[n + 1]) >= n + 1
      OBVIOUS
    <3> DEFINE now == Ordered(specs)[n]
               next == Ordered(specs)[n + 1]
    <3>1. Len(now) >= n
      BY <1>1, <2>6
    <3>2. Sorted(N, specs, now) /\ Len(now) \in Nat /\ Len(next) \in Nat
      BY <1>1, <2>4
    <3>3. next = Pass(specs, now)
      BY <1>1, OrderedIs
    <3> HIDE DEF now, next
    <3>4. next = now \/ Len(next) > Len(now)
      BY <3>2, <3>3, PassSorts
    <3>5. Len(now) < Len(specs) => Len(next) > Len(now)
      BY <2>3, <3>2, <3>3
    <3>6. Len(next) >= n + 1
      BY <1>1, <3>1, <3>2, <3>4, <3>5
    <3> QED
      BY <3>6 DEF next
  <2> HIDE DEF S
  <2>7. Nat \subseteq S
    BY <2>5, <2>6, Induct
  <2>8. Len(order) >= Len(specs)
    BY <1>1, <2>7 DEF S, order
  <2>9. Len(order) <= Len(specs) /\ Len(order) \in Nat
    <3>1. Len(order) \in Nat
      BY <1>3 DEF Sorted
    <3> QED
      BY <1>3, <2>1, <3>1, OrderCounted
  <2> QED
    BY <1>1, <2>1, <2>2, <2>8, <2>9
<1> HIDE DEF Accepts
<1> QED
  BY <1>2, <1>4, <1>5 DEF OrdersOrRefuses

(***************************************************************************)
(* What load_children_from_params() accepts is what DepsAssumption asks of *)
(* Topo: every child once, and each after all that it depends on.          *)
(***************************************************************************)
THEOREM TopoOrderServes ==
    ASSUME NEW N, NEW specs \in Seq(ChildSpec(N)), NEW topo,
           topo = topo_order(specs), topo # <<>>
    PROVE  /\ topo \in Seq(Names(specs))
           /\ \A c \in Names(specs) : \E i \in 1..Len(topo) : topo[i] = c
           /\ \A i \in 1..Len(topo) : \A j \in 1..Len(topo) : topo[i] = topo[j] => i = j
           /\ \A i \in 1..Len(topo), k \in DOMAIN specs : specs[k].name = topo[i] =>
                 \A d \in specs[k].depends_on :
                     \E j \in 1..Len(topo) : j < i /\ topo[j] = d
<1>1. topo = Ordered(specs)[Len(specs)]
  BY TopoOrderIs
<1>2. Sorted(N, specs, topo)
  <2>1. Len(specs) \in 0..Len(specs)
    BY SpecTyped
  <2> QED
    BY <1>1, <2>1, PassesSort
<1>3. topo \in Seq(N) /\ DOMAIN topo = 1..Len(topo) /\ Len(topo) \in Nat
  BY <1>2 DEF Sorted
<1>4. InOrder(specs, topo)
  BY TopoOrderCorrect DEF OrdersOrRefuses
<1>5. ToSet(topo) = Names(specs)
  BY <1>4 DEF InOrder
<1>6. topo \in Seq(Names(specs))
  <2>1. \A i \in 1..Len(topo) : topo[i] \in Names(specs)
    BY <1>3, <1>5 DEF ToSet
  <2> QED
    BY <1>3, <2>1
<1>7. \A c \in Names(specs) : \E i \in 1..Len(topo) : topo[i] = c
  BY <1>3, <1>5 DEF ToSet
<1>8. \A i \in 1..Len(topo) : \A j \in 1..Len(topo) : topo[i] = topo[j] => i = j
  BY <1>2, <1>3 DEF Sorted
<1>9. ASSUME NEW i \in 1..Len(topo), NEW k \in DOMAIN specs, specs[k].name = topo[i],
             NEW d \in specs[k].depends_on
      PROVE  \E j \in 1..Len(topo) : j < i /\ topo[j] = d
  <2>1. d \in {topo[j] : j \in 1..(i - 1)}
    BY <1>3, <1>4, <1>9 DEF InOrder
  <2>2. PICK j \in 1..(i - 1) : topo[j] = d
    BY <2>1
  <2>3. j \in 1..Len(topo) /\ j < i
    BY <1>3
  <2> QED
    BY <2>2, <2>3
<1> QED
  BY <1>6, <1>7, <1>8, <1>9
=============================================================================
