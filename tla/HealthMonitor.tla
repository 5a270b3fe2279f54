---------------------------- MODULE HealthMonitor -----------------------------
(***************************************************************************)
(* The health monitor (infrastructure/health_monitor_node.cpp over         *)
(* domain/monitoring): heartbeats age at every 1 Hz check, a node in ERROR *)
(* is restarted through a chain of four asynchronous lifecycle             *)
(* transitions, and after kMaxRetries attempts it is reported as FATAL.    *)
(* One thread serves the timer, the heartbeats and the responses; the      *)
(* watched nodes are processes of their own.                               *)
(***************************************************************************)
EXTENDS Integers, Sequences, NodeClasses

CONSTANTS
    Node,            \* the watched nodes
    Probes,          \* probes_: the order in which check_health() visits them
    Client,          \* the nodes with a restart client (probe = topic)
    Timeout,         \* per node: timeout_s, in checks
    kMaxRetries,     \* RecoveryPolicy::kMaxRetries
    RestartTimeout,  \* kRestartTimeoutS, in checks
    RestartEnabled,  \* health_monitor.restart_enabled
    Faulty,          \* may nodes hang, die, fail a transition or be late?
    MayFall,         \* the nodes that may fall ill
    MayBe            \* per node: the classes it may be of

ASSUME MonitorAssumption ==
    /\ Probes \in Seq(Node)
    /\ \A n \in Node : \E i \in 1..Len(Probes) : Probes[i] = n
    /\ Client \subseteq Node /\ MayFall \subseteq Node
    /\ Timeout \in [Node -> Nat]
    /\ MayBe \in [Node -> SUBSET (OwnClasses \cup {Nav2Server})]
    /\ kMaxRetries \in Nat /\ RestartTimeout \in Nat
    /\ RestartEnabled \in BOOLEAN /\ Faulty \in BOOLEAN

VARIABLES
    last_seen,   \* NodeHeartbeat::last_seen_s, -1 = never
    attempts,    \* RecoveryState::attempts
    restart,     \* RestartState; spent is the time since it began
    requests,    \* the change_state calls that are under way
    report,      \* the statuses last published on /health/report
    lc,          \* lifecycle state of the watched nodes
    cond,        \* how the watched nodes are doing
    class,       \* their classes
    has,         \* what their lifecycle callbacks have made and not dropped
    tried        \* history: restarts begun since the node was last OK

monitor == <<last_seen, attempts, restart, report, tried>>
nodes == <<lc, cond, class, has>>
vars == <<monitor, requests, nodes>>

NodeStatus == {"OK", "WARN", "ERROR", "STALE", "FATAL"}

\* kSequence: what each step asks for, from which state and to which.
kSequence == <<"deactivate", "cleanup", "configure", "activate">>
From == <<"active", "inactive", "unconfigured", "inactive">>
To == <<"inactive", "unconfigured", "inactive", "active">>

(***************************************************************************)
(* "sick": no heartbeats, services answer; "hung": nothing answers, though *)
(* the service is still discovered; "gone": the service is unreachable;    *)
(* "busy": a drive is on: MotorCtrlNode::execute() occupies the callback   *)
(* group of the heartbeat timer and of the services until it returns.      *)
(***************************************************************************)
Condition == {"well", "sick", "busy", "hung", "gone"}

Idle == [node |-> "", step |-> 0, in_progress |-> FALSE, spent |-> 0]

Begun(n) == [node |-> n, step |-> 0, in_progress |-> TRUE, spent |-> 0]
Sent(n, step) == [node |-> n, step |-> step, at |-> "sent"]

Init ==
    /\ last_seen = [n \in Node |-> -1]
    /\ attempts = [n \in Node |-> 0]
    /\ restart = Idle
    /\ requests = {}
    /\ report = [n \in Node |-> "STALE"]
    /\ lc = [n \in Node |-> "active"]
    /\ cond = [n \in Node |-> "well"]
    /\ class \in [Node -> UNION {MayBe[n] : n \in Node}]
    /\ \A n \in Node : class[n] \in MayBe[n]
    /\ has = [n \in Node |-> Up(class[n])]
    /\ tried = [n \in Node |-> 0]
-----------------------------------------------------------------------------
\* HeartbeatAnalyzer::evaluate(), with kWarnRatio = 0.8.
Evaluate(seen, timeout) ==
    CASE seen < 0 -> "STALE"
      [] seen > timeout -> "ERROR"
      [] seen >= 0 /\ seen <= timeout /\ 10 * seen > 8 * timeout -> "WARN"
      [] OTHER -> "OK"

\* RecoveryPolicy::escalate()
Escalate(status, tries) ==
    IF status = "ERROR" /\ tries >= kMaxRetries THEN "FATAL" ELSE status

\* Mutant: the service is one comparison stricter than the analyzer.
CheckReplyStrict(n) ==
    CASE last_seen[n] < 0 -> "Unknown"
      [] last_seen[n] >= Timeout[n] -> "ERROR"
      [] last_seen[n] \in 0..(Timeout[n] - 1) /\ 10 * last_seen[n] > 8 * Timeout[n] ->
            "WARN"
      [] OTHER -> "OK"

\* The answer of the /health/check service.
CheckReply(n) ==
    CASE last_seen[n] < 0 -> "Unknown"
      [] last_seen[n] > Timeout[n] -> "ERROR"
      [] last_seen[n] \in 0..Timeout[n] /\ 10 * last_seen[n] > 8 * Timeout[n] ->
            "WARN"
      [] OTHER -> "OK"

\* Mutant: an age stops at the timeout.
TickedSaturates(n) ==
    IF last_seen[n] >= 0 /\ last_seen[n] < Timeout[n] THEN last_seen[n] + 1
                                                      ELSE last_seen[n]

\* MonitoringService::tick(): a node that never beat does not age.
Ticked(n) ==
    IF last_seen[n] >= 0 /\ last_seen[n] <= Timeout[n] THEN last_seen[n] + 1
                                                       ELSE last_seen[n]

\* escalated_status() after the tick.
StatusNow(n) == Escalate(Evaluate(Ticked(n), Timeout[n]), attempts[n])

\* Nodes in ERROR with attempts left; each of them uses one up.
Recovering == {n \in Node : RestartEnabled /\ StatusNow(n) = "ERROR"}

\* begin_restart() gets as far as sending the first transition.
CanBegin(n) == n \in Client /\ cond[n] # "gone"

\* Mutant: a node that is sick may displace the restart in progress.
BeginsEagerly(n) ==
    /\ n \in Recovering /\ CanBegin(n)
    /\ \E i \in 1..Len(Probes) :
          /\ Probes[i] = n
          /\ \A j \in 1..(i-1) : ~(Probes[j] \in Recovering /\ CanBegin(Probes[j]))

(***************************************************************************)
(* begin_restart() is called for every recovering node in turn and goes    *)
(* ahead for the first it can start, unless a restart is in progress.      *)
(***************************************************************************)
Begins(n) ==
    /\ ~restart.in_progress
    /\ n \in Recovering /\ CanBegin(n)
    /\ \E i \in 1..Len(Probes) :
          /\ Probes[i] = n
          /\ \A j \in 1..(i-1) : ~(Probes[j] \in Recovering /\ CanBegin(Probes[j]))

Starters == {n \in Node : Begins(n)}

\* The clock of a restart, up to the first value past its deadline.
Older(r) ==
    IF r.in_progress /\ r.spent <= RestartTimeout
    THEN [r EXCEPT !.spent = @ + 1] ELSE r

\* A topic heartbeat goes out, or get_state() answers ACTIVE.
Beats(n) ==
    \/ n \in Client /\ cond[n] = "well" /\ ManagedHeartbeat \subseteq has[n]
    \/ n \notin Client /\ cond[n] \in {"well", "sick"} /\ lc[n] = "active"

(***************************************************************************)
(* Unless nodes may be late, one that beats is heard within its timeout    *)
(* and a sequence of transitions is through before its deadline.           *)
(***************************************************************************)
Punctual ==
    /\ \A n \in Node :
          Beats(n) => Ticked(n) <= Timeout[n] \/ last_seen[n] > Timeout[n]
    /\ restart.in_progress => restart.spent < RestartTimeout

\* Mutant: a recovering node is restarted without the attempt being counted.
CheckHealthUncounted ==
    /\ Faulty \/ Punctual
    /\ last_seen' = [n \in Node |-> Ticked(n)]
    /\ attempts' = [n \in Node |-> IF StatusNow(n) = "OK" THEN 0 ELSE attempts[n]]
    /\ report' = [n \in Node |-> StatusNow(n)]
    /\ tried' = [n \in Node |-> IF n \in Starters THEN tried[n] + 1 ELSE tried[n]]
    /\ IF Starters = {}
       THEN restart' = Older(restart) /\ UNCHANGED requests
       ELSE \E n \in Starters : /\ restart' = Begun(n)
                               /\ requests' = requests \cup {Sent(n, 0)}
    /\ UNCHANGED nodes

CheckHealth ==
    /\ Faulty \/ Punctual
    /\ last_seen' = [n \in Node |-> Ticked(n)]
    /\ attempts' = [n \in Node |->
          CASE n \in Recovering -> attempts[n] + 1
            [] StatusNow(n) = "OK" -> 0
            [] OTHER -> attempts[n]]
    /\ report' = [n \in Node |-> StatusNow(n)]
    /\ tried' = [n \in Node |->
          CASE n \in Starters -> tried[n] + 1
            [] StatusNow(n) = "OK" -> 0
            [] OTHER -> tried[n]]
    /\ IF Starters = {}
       THEN restart' = Older(restart) /\ UNCHANGED requests
       ELSE \E n \in Starters : /\ restart' = Begun(n)
                               /\ requests' = requests \cup {Sent(n, 0)}
    /\ UNCHANGED nodes

\* Mutant: the sequence is over one step too late.
GivesUpLate(next) ==
    \/ next.spent > RestartTimeout
    \/ next.step > Len(kSequence)
    \/ cond[next.node] = "gone"

(***************************************************************************)
(* handle_transition_response(), and the send_next_transition() it goes on *)
(* to after a success: the deadline, the end of the sequence, and the      *)
(* readiness of the service are looked at in this order.                   *)
(***************************************************************************)
GivesUp(next) ==
    \/ next.spent > RestartTimeout
    \/ next.step >= Len(kSequence)
    \/ cond[next.node] = "gone"

HandleTransitionResponse(r) ==
    LET next == [restart EXCEPT !.step = @ + 1]
        rest == requests \ {r}
    IN  /\ r.at \in {"accepted", "refused"}
        /\ IF r.at = "refused" \/ GivesUp(next)
           THEN restart' = Idle /\ requests' = rest
           ELSE restart' = next /\ requests' = rest \cup {Sent(next.node, next.step)}
        /\ UNCHANGED <<last_seen, attempts, report, tried, nodes>>

\* heartbeat_received(), from a subscription or from the lifecycle probe.
HeartbeatReceived(n) ==
    /\ Beats(n)
    /\ last_seen' = [last_seen EXCEPT ![n] = 0]
    /\ UNCHANGED <<attempts, restart, report, tried, requests, nodes>>
-----------------------------------------------------------------------------
(***************************************************************************)
(* The watched nodes: a lifecycle node accepts a transition only from its  *)
(* source state, runs the callback of its class and answers; the callback  *)
(* may fail; reaching "active" cures a sick node.  A call to a node that   *)
(* dies is never answered.                                                 *)
(***************************************************************************)
Answered(r, how) == (requests \ {r}) \cup {[r EXCEPT !.at = how]}

\* The node serves the request and is in the state it starts from.
Serves(r) ==
    /\ r.at = "sent"
    /\ cond[r.node] \in {"well", "sick"}
    /\ lc[r.node] = From[r.step + 1]

Throws(r) == kSequence[r.step + 1] = "configure" /\ class[r.node].redeclares

Accept(r) ==
    /\ Serves(r) /\ ~Throws(r)
    /\ lc' = [lc EXCEPT ![r.node] = To[r.step + 1]]
    /\ has' = [has EXCEPT ![r.node] =
                   After(class[r.node], @, kSequence[r.step + 1])]
    /\ cond' = IF To[r.step + 1] = "active"
               THEN [cond EXCEPT ![r.node] = "well"] ELSE cond
    /\ requests' = Answered(r, "accepted")
    /\ UNCHANGED <<monitor, class>>

(***************************************************************************)
(* on_configure() of a class that declares its parameters there throws,    *)
(* they being declared since the first time.  No class defines on_error(), *)
(* so the node is finalized, with what the callback had made by then.      *)
(***************************************************************************)
ThrowInConfigure(r) ==
    /\ Serves(r) /\ Throws(r)
    /\ lc' = [lc EXCEPT ![r.node] = "finalized"]
    /\ has' = [has EXCEPT ![r.node] = @ \cup class[r.node].made_first]
    /\ requests' = Answered(r, "refused")
    /\ UNCHANGED <<monitor, cond, class>>

Refuse(r) ==
    /\ r.at = "sent"
    /\ cond[r.node] \in {"well", "sick"}
    /\ Faulty \/ lc[r.node] # From[r.step + 1]
    /\ requests' = Answered(r, "refused")
    /\ UNCHANGED <<monitor, nodes>>

FallSick(n) ==
    /\ cond[n] = "well" /\ lc[n] = "active" /\ n \in MayFall
    /\ cond' = [cond EXCEPT ![n] = "sick"]
    /\ UNCHANGED <<monitor, requests, lc, class, has>>

\* The action server takes a goal in any lifecycle state ...
DriveStarts(n) ==
    /\ cond[n] = "well" /\ "action_server" \in has[n]
    /\ cond' = [cond EXCEPT ![n] = "busy"]
    /\ UNCHANGED <<monitor, requests, lc, class, has>>

\* ... and execute() returns, at the goal or after an abort.
DriveEnds(n) ==
    /\ cond[n] = "busy"
    /\ cond' = [cond EXCEPT ![n] = "well"]
    /\ UNCHANGED <<monitor, requests, lc, class, has>>

Hang(n) ==
    /\ Faulty /\ cond[n] \in {"well", "sick"}
    /\ cond' = [cond EXCEPT ![n] = "hung"]
    /\ UNCHANGED <<monitor, requests, lc, class, has>>

Die(n) ==
    /\ Faulty /\ cond[n] # "gone"
    /\ cond' = [cond EXCEPT ![n] = "gone"]
    /\ requests' = {IF r.node = n /\ r.at = "sent"
                    THEN [r EXCEPT !.at = "lost"] ELSE r : r \in requests}
    /\ UNCHANGED <<monitor, lc, class, has>>

\* The process is started again and comes up active.
Respawn(n) ==
    /\ cond[n] = "gone"
    /\ cond' = [cond EXCEPT ![n] = "well"]
    /\ lc' = [lc EXCEPT ![n] = "active"]
    /\ has' = [has EXCEPT ![n] = Up(class[n])]
    /\ UNCHANGED <<monitor, requests, class>>

Next ==
    \/ CheckHealth
    \/ \E r \in requests :
          \/ HandleTransitionResponse(r)
          \/ Accept(r)
          \/ ThrowInConfigure(r)
          \/ Refuse(r)
    \/ \E n \in Node :
          \/ HeartbeatReceived(n)
          \/ FallSick(n)
          \/ DriveStarts(n)
          \/ DriveEnds(n)
          \/ Hang(n)
          \/ Die(n)
          \/ Respawn(n)

Spec == Init /\ [][Next]_vars

(***************************************************************************)
(* The executor keeps serving its timer, whatever the nodes do meanwhile,  *)
(* and the responses that have come in, a node that is able to beat does,  *)
(* and a drive ends.  A request that waits for a drive to end is served    *)
(* then: the executor looks at services before it looks at the action      *)
(* server.                                                                 *)
(***************************************************************************)
Fairness ==
    /\ SF_vars(CheckHealth)
    /\ WF_vars(\E r \in requests : HandleTransitionResponse(r))
    /\ SF_vars(\E r \in requests : Accept(r) \/ ThrowInConfigure(r) \/ Refuse(r))
    /\ \A n \in Node : WF_vars(HeartbeatReceived(n)) /\ WF_vars(DriveEnds(n))

FairSpec == Spec /\ Fairness
-----------------------------------------------------------------------------
TypeOK ==
    /\ last_seen \in [Node -> Int]
    /\ attempts \in [Node -> Nat]
    /\ tried \in [Node -> Nat]
    /\ restart \in [node : Node \cup {""}, step : 0..(Len(kSequence) - 1),
                    in_progress : BOOLEAN, spent : 0..(RestartTimeout + 1)]
    /\ requests \subseteq [node : Node, step : 0..(Len(kSequence) - 1),
                           at : {"sent", "accepted", "refused", "lost"}]
    /\ report \in [Node -> NodeStatus]
    /\ lc \in [Node -> {"active", "inactive", "unconfigured", "finalized"}]
    /\ cond \in [Node -> Condition]
    /\ \A n \in Node : class[n] \in MayBe[n] /\ has[n] \subseteq Up(class[n])

(***************************************************************************)
(* A restart in progress has exactly one transition under way, its own and *)
(* for the step it is at, and without one there is none: no response can   *)
(* advance another node's restart, or the same one twice, although the     *)
(* callback reads restart_ as it finds it when the response arrives.       *)
(***************************************************************************)
OneTransitionUnderWay ==
    /\ ~restart.in_progress => requests = {}
    /\ restart.in_progress =>
          \E r \in requests : /\ requests = {r}
                              /\ r.node = restart.node
                              /\ r.step = restart.step

(***************************************************************************)
(* The watchdog begins at most kMaxRetries restarts of a node between two  *)
(* checks that find it OK, whatever answers, refusals and deaths come      *)
(* between.                                                                *)
(***************************************************************************)
RestartsWithinBudget ==
    \A n \in Node : tried[n] <= attempts[n] /\ attempts[n] <= kMaxRetries

(***************************************************************************)
(* /health/check and the published report judge a heartbeat alike, except  *)
(* that the service calls a node that never beat unknown and knows no      *)
(* FATAL: its thresholds are a second copy of the analyzer's.              *)
(***************************************************************************)
ServiceAgrees ==
    \A n \in Node :
        LET status == Evaluate(last_seen[n], Timeout[n])
        IN  CheckReply(n) = IF status = "STALE" THEN "Unknown" ELSE status

(***************************************************************************)
(* However a restart is cut short, a timer of a node runs only while the   *)
(* node is active and holds the publisher (and the sensor) its callback    *)
(* uses without asking: no node calls through a null pointer, and none     *)
(* beats without working, which would hide it from the watchdog.           *)
(***************************************************************************)
TimersOnlyWhileActive ==
    \A n \in Node : \A t \in {"timer", "heartbeat_timer"} \cap has[n] :
        /\ lc[n] = "active"
        /\ (IF t = "timer" THEN {"publisher", "sensor", "perception"}
                           ELSE {"heartbeat_pub"}) \cap Up(class[n])
              \subseteq has[n]

(***************************************************************************)
(* A restart does not stay in progress for ever: kRestartTimeoutS after it *)
(* began it is given up, also when a response never comes.  (It is not:    *)
(* the deadline is looked at only when a response has come.)               *)
(***************************************************************************)
RestartEnds == []<>~restart.in_progress

(***************************************************************************)
(* Functional death is cured: a node that was heard once and stops beating *)
(* with an attempt left and no restart in progress is well again in the    *)
(* end, unless the restart of another node takes the only slot first.  (A  *)
(* node that was never heard stays STALE and is left alone.  Excepted are  *)
(* the classes that declare parameters in on_configure(): the watchdog's   *)
(* restart finalizes them.)                                                *)
(***************************************************************************)
Revives ==
    \A n \in Client :
        (/\ cond[n] = "sick" /\ last_seen[n] >= 0 /\ ~class[n].redeclares
         /\ attempts[n] < kMaxRetries /\ ~restart.in_progress)
            ~> (cond[n] = "well" \/ (restart.in_progress /\ restart.node # n))
=============================================================================
