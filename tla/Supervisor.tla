------------------------------ MODULE Supervisor ------------------------------
(***************************************************************************)
(* The process supervisor node (infrastructure/supervisor_node.cpp) on top *)
(* of its policy kernel and of the health feed: a single-threaded executor *)
(* runs the 250 ms tick, the /health/report callback and the lifecycle     *)
(* callbacks; the operating system runs the children.                      *)
(*                                                                         *)
(* A callback is a sequence of steps, one per child it visits, so that a   *)
(* child may exit between two of them.  One call of feed(), with the whole *)
(* cascade and the kills and the spawn it makes, is one step: no other     *)
(* callback can run inside it.                                             *)
(***************************************************************************)
EXTENDS SupervisorPolicy, HealthFeed, Sequences

CONSTANTS
    Deps,            \* per child: depends_on
    Topo,            \* topo_: bring-up order, dependencies first
    MapOrder,        \* iteration order of std::map children_
    Window,          \* per child: RUNNING for that long counts as stable
    StartupTimeout,  \* per child: STARTING for longer than that is a crash
    Reactivates      \* may an operator take the node down and up again?

ASSUME DepsAssumption ==
    /\ Deps \in [Child -> SUBSET Child]
    /\ Topo \in Seq(Child)
    /\ \A c \in Child : \E i \in 1..Len(Topo) : Topo[i] = c
    /\ \A i \in 1..Len(Topo) : \A j \in 1..Len(Topo) :
          Topo[i] = Topo[j] => i = j
    /\ \A i \in 1..Len(Topo) : \A d \in Deps[Topo[i]] :
          \E j \in 1..Len(Topo) : j < i /\ Topo[j] = d

ASSUME NodeAssumption ==
    /\ MapOrder \in Seq(Child)
    /\ Window \in [Child -> Nat]
    /\ StartupTimeout \in [Child -> Nat]
    /\ HealthNodes \in [Child -> SUBSET HealthNode]
    /\ GatedChild = {c \in Child : HealthNodes[c] # {}}
    /\ \A c \in Child : \A d \in Child :
          c # d => HealthNodes[c] \cap HealthNodes[d] = {}
    /\ Reactivates \in BOOLEAN

VARIABLES
    st,         \* ProcChild::state of every child
    proc,       \* the process behind ProcChild::pid, as waitpid would see it
    done,       \* ProcChild::completed
    leaked,     \* children with a live process the supervisor has lost track of
    life,       \* lifecycle state of the supervisor node, or "exited"
    ticking,    \* is tick_timer_ armed?
    pc,         \* the callback that is running, or "idle"
    pos,        \* where the running loop over the children is
    views,      \* HealthFeed: NodeView of every health node
    announced,  \* HealthFeed: last verdict announced, per gated child
    touched,    \* dispatch(): children still to evaluate
    report      \* dispatch(): the report being processed

world == <<st, proc, done, leaked>>
feedvars == <<views, announced, touched, report>>
node == <<life, ticking>>
vars == <<world, node, pc, pos, feedvars>>

\* "none": pid is -1; "exit0" and "crashed": dead, not yet waited for.
Proc == {"none", "alive", "exit0", "crashed"}

Up == {"STARTING", "RUNNING"}
Dead == {"BACKOFF", "FATAL"}

-----------------------------------------------------------------------------
(***************************************************************************)
(* The state feed() works on, as one value, so that its nested calls       *)
(* compose.                                                                *)
(***************************************************************************)
Now == [st |-> st, proc |-> proc, done |-> done, leaked |-> leaked]

Become(w) ==
    /\ st' = w.st
    /\ proc' = w.proc
    /\ done' = w.done
    /\ leaked' = w.leaked

\* deps_all_running()
DepsAllRunning(c) == \A d \in Deps[c] : st[d].phase = "RUNNING"

\* A set of children that contains whoever depends on one of its members.
Downward(S) == \A x \in Child : Deps[x] \cap S # {} => x \in S

\* Mutant: only the direct dependents yield.
DirectDependents(c) == {x \in Child : c \in Deps[x]}

(***************************************************************************)
(* transitive_dependents(): whoever depends on c, directly or through      *)
(* others.  The code collects them in one pass over topo_.                 *)
(***************************************************************************)
TransitiveDependents(c) ==
    {x \in Child : \A S \in SUBSET Child :
        (Downward(S) /\ \A y \in Child : c \in Deps[y] => y \in S) => x \in S}

\* kill_child(): group SIGKILL, then reaped; pid is -1 in either case.
KillChild(w, c) == [w EXCEPT !.proc[c] = "none"]

\* spawn_child(), posix_spawn having succeeded: pid is overwritten.
SpawnChild(w, c) ==
    [w EXCEPT !.proc[c] = "alive",
              !.leaked = IF w.proc[c] = "alive" THEN @ \cup {c} ELSE @]

(***************************************************************************)
(* cascade_yield(): every transitive dependent forgets that it completed   *)
(* and, unless STOPPED or FATAL already, yields; a live one is killed.     *)
(***************************************************************************)
Yield(x, s) == Transition(x, s, "DEP_RESTARTING")

CascadeYield(w, c) ==
    LET T == TransitiveDependents(c)
        yields(x) == x \in T /\ w.st[x].phase \notin {"STOPPED", "FATAL"}
    IN  [w EXCEPT
          !.done = [x \in Child |-> w.done[x] /\ x \notin T],
          !.st   = [x \in Child |->
                      IF yields(x) THEN Yield(x, w.st[x]).st ELSE w.st[x]],
          !.proc = [x \in Child |->
                      IF yields(x) /\ Yield(x, w.st[x]).kind = "KILL"
                      THEN "none" ELSE w.proc[x]]]

(***************************************************************************)
(* feed(), up to but not including the spawn it may go on to.              *)
(***************************************************************************)
Feed(w, c, ev) ==
    LET t        == Transition(c, w.st[c], ev)
        moved    == [w EXCEPT !.st[c] = t.st]
        finished == c \in Oneshot /\ ev = "EXITED_OK" /\ t.st.phase = "STOPPED"
        marked   == IF finished THEN [moved EXCEPT !.done[c] = TRUE] ELSE moved
        dies     == w.st[c].phase \in Up /\ t.st.phase \in Dead
        yielded  == IF dies THEN CascadeYield(marked, c) ELSE marked
    IN  IF t.kind \in {"KILL", "MARK_FATAL"} THEN KillChild(yielded, c)
                                             ELSE yielded

\* feed() goes on to spawn when its SPAWN is due at once.
SpawnsNow(w, c, ev) ==
    LET t == Transition(c, w.st[c], ev) IN t.kind = "SPAWN" /\ t.at = 0

(***************************************************************************)
(* posix_spawn fails: feed(EXITED_CRASH), which with a zero backoff tries  *)
(* once more (a second failure finds BACKOFF and is ignored).              *)
(***************************************************************************)
AfterFailedSpawn(w, c) ==
    LET f == Feed(w, c, "EXITED_CRASH")
    IN  IF SpawnsNow(w, c, "EXITED_CRASH") THEN {f, SpawnChild(f, c)} ELSE {f}

\* Mutant: a failed posix_spawn is only logged.
AfterSpawnUnchecked(w, c) ==
    LET s == Feed(w, c, "SPAWNED") IN {SpawnChild(s, c), s}

\* feed(SPAWNED), which only moves a STOPPED child, then spawn_child().
AfterSpawn(w, c) ==
    UNION {{SpawnChild(s, c)} \cup AfterFailedSpawn(s, c) :
              s \in {Feed(w, c, "SPAWNED")}}

\* The worlds one call of feed() may end in.
AfterFeed(w, c, ev) ==
    IF SpawnsNow(w, c, ev) THEN AfterSpawn(Feed(w, c, ev), c)
                           ELSE {Feed(w, c, ev)}

FeedChild(w, c, ev) == \E v \in AfterFeed(w, c, ev) : Become(v)

-----------------------------------------------------------------------------
Init ==
    /\ st = [c \in Child |-> InitialChild]
    /\ proc = [c \in Child |-> "none"]
    /\ done = [c \in Child |-> FALSE]
    /\ leaked = {}
    /\ life = "inactive"
    /\ ticking = FALSE
    /\ pc = "idle"
    /\ pos = 1
    /\ views = [n \in HealthNode |-> "UNKNOWN"]
    /\ announced = [c \in Child |-> FALSE]
    /\ touched = {}
    /\ report = [n \in HealthNode |-> "STALE"]

-----------------------------------------------------------------------------
(***************************************************************************)
(* tick(): the scan over children_, then try_bring_up() over topo_.        *)
(***************************************************************************)
StartTick ==
    /\ ticking /\ pc = "idle"
    /\ pc' = "scan" /\ pos' = 1
    /\ UNCHANGED <<world, node, feedvars>>

Reaped(c) == [Now EXCEPT !.proc[c] = "none"]

ScanChild(c) ==
    \/ /\ proc[c] = "exit0"
       /\ FeedChild(Reaped(c), c, "EXITED_OK")
    \/ /\ proc[c] = "crashed"
       /\ FeedChild(Reaped(c), c, "EXITED_CRASH")
    \/ /\ proc[c] = "alive" /\ st[c].phase = "STARTING" /\ c \notin GatedChild
       /\ FeedChild(Now, c, "RUNNING")
    \/ /\ proc[c] = "alive" /\ st[c].phase = "RUNNING"
       /\ st[c].age >= Window[c]
       /\ FeedChild(Now, c, "RUNNING_STABLE")
    \/ /\ proc[c] \in {"none", "alive"} /\ st[c].phase = "BACKOFF"
       /\ st[c].wait = 0
       /\ FeedChild(Now, c, "TICK")
    \/ /\ proc[c] = "alive" /\ st[c].phase = "STARTING" /\ c \in GatedChild
       /\ st[c].age > StartupTimeout[c]
       /\ FeedChild(KillChild(Now, c), c, "START_TIMEOUT")

\* Nothing in the loop body applies to the child.
NothingToScan(c) ==
    /\ proc[c] \in {"none", "alive"}
    /\ st[c].phase = "BACKOFF" => st[c].wait > 0
    /\ proc[c] = "alive" =>
         /\ st[c].phase = "RUNNING" => st[c].age < Window[c]
         /\ st[c].phase = "STARTING" =>
              c \in GatedChild /\ st[c].age <= StartupTimeout[c]

Scan ==
    /\ pc = "scan"
    /\ IF pos \in 1..Len(MapOrder)
       THEN /\ \/ ScanChild(MapOrder[pos])
               \/ NothingToScan(MapOrder[pos]) /\ UNCHANGED world
            /\ pos' = pos + 1 /\ UNCHANGED pc
       ELSE pc' = "bringup" /\ pos' = 1 /\ UNCHANGED world
    /\ UNCHANGED <<node, feedvars>>

\* Mutant: a finished oneshot is brought up again.
CanBringUpAgain(c) == st[c].phase = "STOPPED" /\ DepsAllRunning(c)

CanBringUp(c) == st[c].phase = "STOPPED" /\ ~done[c] /\ DepsAllRunning(c)

BringUp ==
    /\ pc = "bringup"
    /\ IF pos \in 1..Len(Topo)
       THEN /\ \/ /\ CanBringUp(Topo[pos])
                  /\ \E v \in AfterSpawn(Now, Topo[pos]) : Become(v)
               \/ ~CanBringUp(Topo[pos]) /\ UNCHANGED world
            /\ pos' = pos + 1 /\ UNCHANGED pc
       ELSE pc' = "idle" /\ pos' = 1 /\ UNCHANGED world
    /\ UNCHANGED <<node, feedvars>>

-----------------------------------------------------------------------------
(***************************************************************************)
(* The /health/report callback.  The subscription exists from configure    *)
(* to cleanup or shutdown, so it also runs while the node is inactive.     *)
(***************************************************************************)
Dispatch(r) ==
    /\ life \in {"inactive", "active"} /\ pc = "idle" /\ GatedChild # {}
    /\ views' = ViewsAfter(views, r)
    /\ touched' = Touched(views, r)
    /\ report' = r
    /\ pc' = "report"
    /\ UNCHANGED <<world, node, pos, announced>>

Evaluate(c) ==
    /\ pc = "report" /\ c \in touched
    /\ touched' = touched \ {c}
    /\ IF AllOk(views, c) = announced[c]
       THEN UNCHANGED <<world, announced>>
       ELSE /\ announced' = [announced EXCEPT ![c] = AllOk(views, c)]
            /\ FeedChild(Now, c,
                 IF AllOk(views, c) THEN "HEALTH_OK" ELSE "HEALTH_LOST")
    /\ UNCHANGED <<node, pc, pos, views, report>>

EndReport ==
    /\ pc = "report" /\ touched = {}
    /\ pc' = "idle"
    /\ report' = [n \in HealthNode |-> "STALE"]
    /\ UNCHANGED <<world, node, pos, views, announced, touched>>

-----------------------------------------------------------------------------
\* on_activate(): timers are armed and try_bring_up() runs at once.
Activate ==
    /\ life = "inactive" /\ pc = "idle"
    /\ life' = "active" /\ ticking' = TRUE
    /\ pc' = "bringup" /\ pos' = 1
    /\ UNCHANGED <<world, feedvars>>

\* Mutant: only the children known to be RUNNING are torn down.
TeardownRunning ==
    /\ proc' = [c \in Child |->
                  IF st[c].phase = "RUNNING" THEN "none" ELSE proc[c]]
    /\ UNCHANGED <<st, done, leaked>>

\* teardown_children(): SIGTERM, grace, SIGKILL; phases are left as they are.
TeardownChildren ==
    /\ proc' = [c \in Child |-> "none"]
    /\ UNCHANGED <<st, done, leaked>>

\* on_deactivate()
Deactivate ==
    /\ life = "active" /\ pc = "idle" /\ Reactivates
    /\ life' = "inactive" /\ ticking' = FALSE
    /\ TeardownChildren
    /\ UNCHANGED <<pc, pos, feedvars>>

\* on_cleanup() drops children_ and the health feed.
Cleanup ==
    /\ life = "inactive" /\ pc = "idle" /\ Reactivates
    /\ life' = "unconfigured"
    /\ st' = [c \in Child |-> InitialChild]
    /\ proc' = [c \in Child |-> "none"]
    /\ done' = [c \in Child |-> FALSE]
    /\ views' = [n \in HealthNode |-> "UNKNOWN"]
    /\ announced' = [c \in Child |-> FALSE]
    /\ UNCHANGED <<leaked, ticking, pc, pos, touched, report>>

\* on_configure() once more declares its parameters a second time, which
\* throws: the node is finalized, with its children forgotten.
Configure ==
    /\ life = "unconfigured" /\ pc = "idle"
    /\ life' = "finalized"
    /\ UNCHANGED <<world, ticking, pc, pos, feedvars>>

(***************************************************************************)
(* on_shutdown(): the children are torn down and the health feed dropped,  *)
(* but tick_timer_ is not reset.  A node that is shut down while active    *)
(* goes on ticking, over phases that the teardown has left as they were.   *)
(***************************************************************************)
Shutdown ==
    /\ life \in {"unconfigured", "inactive", "active"} /\ pc = "idle"
    /\ life' = "finalized"
    /\ TeardownChildren
    /\ UNCHANGED <<ticking, pc, pos, feedvars>>

\* main(): spin() has returned, and the children are torn down once more.
Exit ==
    /\ life # "exited" /\ pc = "idle"
    /\ life' = "exited" /\ ticking' = FALSE
    /\ TeardownChildren
    /\ UNCHANGED <<pc, pos, feedvars>>

-----------------------------------------------------------------------------
(***************************************************************************)
(* The environment: a child's process ends, or time passes.  Ages count up *)
(* to the largest value any comparison can tell apart.                     *)
(***************************************************************************)
AgeCap(c) ==
    IF Window[c] > StartupTimeout[c] THEN Window[c] ELSE StartupTimeout[c] + 1

ProcessExits(c, how) ==
    /\ proc[c] = "alive"
    /\ proc' = [proc EXCEPT ![c] = how]
    /\ UNCHANGED <<st, done, leaked, node, pc, pos, feedvars>>

Aged(c, s) ==
    [s EXCEPT !.age  = IF @ < AgeCap(c) THEN @ + 1 ELSE @,
              !.wait = IF @ > 0 THEN @ - 1 ELSE 0]

TimePasses ==
    /\ pc = "idle"
    /\ st' = [c \in Child |-> Aged(c, st[c])]
    /\ UNCHANGED <<proc, done, leaked, node, pc, pos, feedvars>>

Next ==
    \/ StartTick
    \/ Scan
    \/ BringUp
    \/ \E r \in Report : Dispatch(r)
    \/ \E c \in Child : Evaluate(c)
    \/ EndReport
    \/ Activate
    \/ Deactivate
    \/ Cleanup
    \/ Configure
    \/ Shutdown
    \/ Exit
    \/ \E c \in Child, how \in {"exit0", "crashed"} : ProcessExits(c, how)
    \/ TimePasses

Spec == Init /\ [][Next]_vars
-----------------------------------------------------------------------------
TypeOK ==
    /\ st \in [Child -> ChildState]
    /\ proc \in [Child -> Proc]
    /\ done \in [Child -> BOOLEAN]
    /\ leaked \in SUBSET Child
    /\ life \in {"unconfigured", "inactive", "active", "finalized", "exited"}
    /\ ticking \in BOOLEAN
    /\ pc \in {"idle", "scan", "bringup", "report"}
    /\ pos \in Nat \ {0}
    /\ views \in [HealthNode -> NodeView]
    /\ announced \in [Child -> BOOLEAN]
    /\ touched \in SUBSET GatedChild
    /\ report \in Report

\* A dependency that serves its dependents: RUNNING, or a finished oneshot.
Serves(d) ==
    \/ st[d].phase = "RUNNING"
    \/ st[d].phase = "STOPPED" /\ done[d]

(***************************************************************************)
(* No child is started, kept or waiting for a retry, and no oneshot counts *)
(* as finished, over a dependency that is down: feed() makes the whole     *)
(* downstream yield in the same step in which a dependency dies, whatever  *)
(* the order in which tick() meets the two.                                *)
(***************************************************************************)
DownstreamOverLiveDeps ==
    \A c \in Child :
        (st[c].phase \in Up \cup {"BACKOFF"} \/ done[c])
            => \A d \in Deps[c] : Serves(d)

(***************************************************************************)
(* The supervisor never loses track of a live process: spawn_child() never *)
(* overwrites the pid of a process that is still running.                  *)
(***************************************************************************)
NoProcessLost == leaked = {}

(***************************************************************************)
(* A child that waits for its retry, has yielded or is FATAL has no        *)
(* process, however it got there: the crash, the hang, the startup timeout *)
(* and the exhausted budget each kill or reap before the phase counts.     *)
(***************************************************************************)
ProcessOnlyWhileUp == \A c \in Child : proc[c] # "none" => st[c].phase \in Up

(***************************************************************************)
(* While the node is active, a child that it reports as STARTING or        *)
(* RUNNING has a process (or a corpse the next tick will find).            *)
(***************************************************************************)
NoGhostChild ==
    life = "active" =>
        \A c \in Child : st[c].phase \in Up => proc[c] # "none"

WithinBudget(c, s) ==
    IF s.phase = "FATAL"
    THEN s.restarts = MaxRestarts[c] + 1 /\ s.step = MaxRestarts[c]
    ELSE s.restarts <= MaxRestarts[c] /\ s.step = s.restarts

(***************************************************************************)
(* The restart budget: FATAL exactly when the restarts since the last      *)
(* stable period exceed max_restarts, and the backoff step counts the same *)
(* restarts, so the exponential curve and the budget cannot drift apart.   *)
(***************************************************************************)
BudgetExact == \A c \in Child : WithinBudget(c, st[c])

(***************************************************************************)
(* A supervisor whose tick has ended, or never began, runs no child: it    *)
(* was deactivated or cleaned up, shut down before it was active, or has   *)
(* exited, and neither the health callback, which stays subscribed, nor a  *)
(* pending retry starts a child behind the teardown's back.  Only a node   *)
(* that was shut down while active may have children again, until it       *)
(* exits, since it goes on ticking.                                        *)
(***************************************************************************)
NoChildWithoutSupervisor ==
    /\ ~ticking => \A c \in Child : proc[c] = "none"
    /\ ticking => life \in {"active", "finalized"}

(***************************************************************************)
(* A finished oneshot stays finished and down; it becomes due again only   *)
(* in a step in which a child it depends on, directly or not, dies, or     *)
(* when on_cleanup() forgets all children.                                 *)
(***************************************************************************)
OneshotRerunOnlyAfterDeath ==
    [][\A c \in Child : done[c] =>
          \/ done'[c] /\ st'[c].phase = "STOPPED"
          \/ \E d \in Child : /\ c \in TransitiveDependents(d)
                              /\ st[d].phase \in Up
                              /\ st'[d].phase \in Dead
          \/ life' = "unconfigured" /\ st'[c] = InitialChild]_vars

-----------------------------------------------------------------------------
(***************************************************************************)
(* The executor serves its timers before its subscriptions, so the tick    *)
(* is not starved by reports, a callback that has begun runs to its end,   *)
(* and time goes on.  Nothing is assumed of the children or of reports.    *)
(***************************************************************************)
Fairness ==
    /\ SF_vars(StartTick)
    /\ WF_vars(Scan)
    /\ WF_vars(BringUp)
    /\ \A c \in Child : WF_vars(Evaluate(c))
    /\ WF_vars(EndReport)
    /\ SF_vars(TimePasses)

FairSpec == Spec /\ Fairness /\ SF_vars(Activate)

(***************************************************************************)
(* kill -9 of a child is recovered from by policy: a long-running child    *)
(* whose dependencies come to stay RUNNING is itself RUNNING again and     *)
(* again, unless it ran out of its budget or the supervisor was shut down. *)
(***************************************************************************)
Recovers ==
    \A c \in Child \ Oneshot :
        <>[]DepsAllRunning(c) =>
            []<>(\/ st[c].phase \in {"RUNNING", "FATAL"}
                 \/ life \in {"finalized", "exited"})
=============================================================================
