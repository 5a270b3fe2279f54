-------------------------- MODULE HealthMonitorProofs --------------------------
(***************************************************************************)
(* Theorems about the health monitor and the nodes it restarts, for every  *)
(* set of nodes, every order of probes, every timeout and retry budget and *)
(* every assignment of classes to nodes, with and without faults.          *)
(***************************************************************************)
EXTENDS HealthMonitor, TLAPS

\* The classes a watched node may be of, and what such a node may hold.
Class == OwnClasses \cup {Nav2Server}
Part == UNION {Up(c) : c \in Class}

Timers == {"timer", "heartbeat_timer"}

LCState == {"active", "inactive", "unconfigured", "finalized"}

(***************************************************************************)
(* What the tables of lifecycle callbacks have in common: on_deactivate()  *)
(* drops what on_activate() makes, the timers are among it, and a callback *)
(* that throws has made a part of what on_configure() makes.               *)
(***************************************************************************)
LEMMA ClassFacts ==
    ASSUME NEW c \in Class
    PROVE  /\ c.on_deactivate = c.on_activate
           /\ c.on_configure \cap Timers = {}
           /\ c.on_cleanup \subseteq Up(c)
           /\ c.made_first \subseteq c.on_configure
<1> USE DEF Timers, Up, ManagedHeartbeat
<1>1. CASE c = LidarNode   BY <1>1 DEF LidarNode
<1>2. CASE c = CameraNode  BY <1>2 DEF CameraNode
<1>3. CASE c = ImuNode     BY <1>3 DEF ImuNode
<1>4. CASE c = FusionNode  BY <1>4 DEF FusionNode
<1>5. CASE c = DecisionNode  BY <1>5 DEF DecisionNode
<1>6. CASE c = MotorCtrlNode  BY <1>6 DEF MotorCtrlNode
<1>7. CASE c = TemperatureNode  BY <1>7 DEF TemperatureNode
<1>8. CASE c = UltrasonicNode  BY <1>8 DEF UltrasonicNode
<1>9. CASE c = TemperatureMonitorNode  BY <1>9 DEF TemperatureMonitorNode
<1>10. CASE c = FleetManagerNode  BY <1>10 DEF FleetManagerNode
<1>11. CASE c = Nav2Server  BY <1>11 DEF Nav2Server
<1> QED
  BY <1>1, <1>2, <1>3, <1>4, <1>5, <1>6, <1>7, <1>8, <1>9, <1>10, <1>11, Zenon
  DEF Class, OwnClasses

(***************************************************************************)
(* What a node of class c may hold in each lifecycle state: everything     *)
(* when it is active, no timer when it is not, and when it is inactive all *)
(* that on_configure() makes and on_activate() does not make anew.         *)
(***************************************************************************)
Holds(c, held, at) ==
    /\ held \subseteq Up(c)
    /\ at = "active" => held = Up(c)
    /\ at # "active" => held \cap Timers = {}
    /\ at = "inactive" => c.on_configure \ c.on_activate \subseteq held

\* Every transition of the sequence takes a node from one to the next.
LEMMA HoldsAfter ==
    ASSUME NEW c \in Class, NEW held, NEW k \in 1..4, Holds(c, held, From[k])
    PROVE  Holds(c, After(c, held, kSequence[k]), To[k])
<1> USE ClassFacts DEF Holds, Up, Timers, After, From, To, kSequence
<1>1. CASE k = 1
  BY <1>1
<1>2. CASE k = 2
  BY <1>2
<1>3. CASE k = 3
  BY <1>3
<1>4. CASE k = 4
  BY <1>4
<1> QED
  BY <1>1, <1>2, <1>3, <1>4

\* A callback that throws on the way up leaves no timer behind.
LEMMA HoldsThrown ==
    ASSUME NEW c \in Class, NEW held, Holds(c, held, "unconfigured")
    PROVE  Holds(c, held \cup c.made_first, "finalized")
  BY ClassFacts DEF Holds, Up, Timers

\* A node that comes up holds everything.
LEMMA HoldsUp ==
    ASSUME NEW c
    PROVE  Holds(c, Up(c), "active")
  BY DEF Holds, Up

-----------------------------------------------------------------------------
(***************************************************************************)
(* The inductive invariant.  That a restart in progress has one request of *)
(* its own under way is what makes the response handler safe: it is the    *)
(* only reason why restart_, as the response finds it, is the restart the  *)
(* response belongs to.                                                    *)
(***************************************************************************)
RestartType ==
    [node : Node \cup {""}, step : 0..3, in_progress : BOOLEAN,
     spent : 0..(RestartTimeout + 1)]

RequestType ==
    [node : Node, step : 0..3, at : {"sent", "accepted", "refused", "lost"}]

MonitorTyped ==
    /\ last_seen \in [Node -> Int]
    /\ attempts \in [Node -> Nat]
    /\ tried \in [Node -> Nat]
    /\ report \in [Node -> NodeStatus]

NodesTyped ==
    /\ lc \in [Node -> LCState]
    /\ cond \in [Node -> Condition]
    /\ class \in [Node -> Class]
    /\ has \in [Node -> SUBSET Part]
    /\ \A n \in Node : class[n] \in MayBe[n]

RestartTyped ==
    /\ restart \in RestartType
    /\ requests \subseteq RequestType
    /\ restart.in_progress => restart.node \in Node

HoldsByState == \A n \in Node : Holds(class[n], has[n], lc[n])

MonitorInv ==
    /\ MonitorTyped
    /\ NodesTyped
    /\ RestartTyped
    /\ OneTransitionUnderWay
    /\ HoldsByState

\* The fields of a restart, and what may be put together from them.
LEMMA RestartFields ==
    ASSUME NEW r \in RestartType
    PROVE  /\ r = [node |-> r.node, step |-> r.step,
                   in_progress |-> r.in_progress, spent |-> r.spent]
           /\ r.node \in Node \cup {""} /\ r.step \in 0..3
           /\ r.in_progress \in BOOLEAN /\ r.spent \in 0..(RestartTimeout + 1)
  BY Zenon DEF RestartType

LEMMA RestartRecord ==
    ASSUME NEW n \in Node \cup {""}, NEW s \in 0..3, NEW b \in BOOLEAN,
           NEW t \in 0..(RestartTimeout + 1)
    PROVE  [node |-> n, step |-> s, in_progress |-> b, spent |-> t]
              \in RestartType
  BY Zenon DEF RestartType

\* The sequence has four transitions.
LEMMA FourSteps == Len(kSequence) = 4
  BY DEF kSequence

\* The constants the proofs use, as the constructor reads them.
LEMMA ConstantTypes ==
    /\ Timeout \in [Node -> Nat] /\ kMaxRetries \in Nat /\ RestartTimeout \in Nat
    /\ \A n \in Node : MayBe[n] \subseteq Class
  BY MonitorAssumption DEF Class

\* The invariant contains the type invariant.
LEMMA InvImpliesTypeOK == MonitorInv => TypeOK
<1> SUFFICES ASSUME MonitorInv PROVE TypeOK
  OBVIOUS
<1>1. \A n \in Node : class[n] \in MayBe[n] /\ has[n] \subseteq Up(class[n])
  BY DEF MonitorInv, NodesTyped, HoldsByState, Holds
<1>2. /\ restart \in [node : Node \cup {""}, step : 0..(Len(kSequence) - 1),
                       in_progress : BOOLEAN, spent : 0..(RestartTimeout + 1)]
      /\ requests \subseteq [node : Node, step : 0..(Len(kSequence) - 1),
                              at : {"sent", "accepted", "refused", "lost"}]
  <2>1. 0..(Len(kSequence) - 1) = 0..3
    BY FourSteps
  <2> QED
    BY <2>1, Zenon DEF MonitorInv, RestartTyped, RestartType, RequestType
<1> QED
  BY <1>1, <1>2, Zenon DEF MonitorInv, MonitorTyped, NodesTyped, TypeOK, LCState

\* All nodes start active and never heard of.
LEMMA MonitorInit == Init => MonitorInv
<1> SUFFICES ASSUME Init PROVE MonitorInv
  OBVIOUS
<1>1. class \in [Node -> Class] /\ \A n \in Node : class[n] \in MayBe[n]
  BY ConstantTypes DEF Init
<1>2. has \in [Node -> SUBSET Part]
  BY <1>1 DEF Init, Part
<1>3. NodesTyped
  BY <1>1, <1>2 DEF Init, NodesTyped, LCState, Condition
<1>4. MonitorTyped
  BY DEF Init, MonitorTyped, NodeStatus
<1>5. RestartTyped
  <2>1. restart = [node |-> "", step |-> 0, in_progress |-> FALSE, spent |-> 0]
        /\ requests = {}
    BY DEF Init, Idle
  <2>2. 0 \in 0..3 /\ 0 \in 0..(RestartTimeout + 1)
    BY ConstantTypes
  <2>3. restart \in RestartType
    BY <2>1, <2>2 DEF RestartType
  <2> QED
    BY <2>1, <2>3 DEF RestartTyped
<1>6. OneTransitionUnderWay
  BY DEF Init, OneTransitionUnderWay, Idle
<1>7. HoldsByState
  BY HoldsUp DEF Init, HoldsByState
<1> QED
  BY <1>3, <1>4, <1>5, <1>6, <1>7 DEF MonitorInv

-----------------------------------------------------------------------------
\* A request that is under way belongs to the restart in progress.
LEMMA RequestIsRestarts ==
    ASSUME MonitorInv, NEW r \in requests
    PROVE  /\ restart.in_progress /\ requests = {r}
           /\ r.node = restart.node /\ r.step = restart.step
           /\ r.node \in Node /\ r.step \in 0..3
           /\ r = [node |-> r.node, step |-> r.step, at |-> r.at]
<1>1. r \in RequestType
  BY DEF MonitorInv, RestartTyped
<1> QED
  BY <1>1 DEF MonitorInv, OneTransitionUnderWay, RequestType

\* Answering it, or losing it, changes neither whose it is nor its step.
LEMMA AnsweredKeeps ==
    ASSUME MonitorInv, NEW r \in requests,
           NEW how \in {"accepted", "refused", "lost"},
           requests' = {[r EXCEPT !.at = how]}, UNCHANGED restart
    PROVE  RestartTyped' /\ OneTransitionUnderWay'
<1>1. /\ restart.in_progress
      /\ r.node = restart.node /\ r.step = restart.step
      /\ r.node \in Node /\ r.step \in 0..3
      /\ r = [node |-> r.node, step |-> r.step, at |-> r.at]
  BY RequestIsRestarts
<1> DEFINE a == [node |-> r.node, step |-> r.step, at |-> how]
<1>2. requests' = {a}
  BY <1>1
<1>3. a \in RequestType /\ a.node = r.node /\ a.step = r.step
  BY <1>1 DEF RequestType
<1> HIDE DEF a
<1>4. RestartTyped'
  BY <1>2, <1>3 DEF MonitorInv, RestartTyped, RestartType, RequestType
<1>5. OneTransitionUnderWay'
  BY <1>1, <1>2, <1>3 DEF OneTransitionUnderWay
<1> QED
  BY <1>4, <1>5

\* Answered() puts the answer in the place of the only request.
LEMMA AnsweredIsOne ==
    ASSUME MonitorInv, NEW r \in requests, NEW how
    PROVE  Answered(r, how) = {[r EXCEPT !.at = how]}
  BY RequestIsRestarts DEF Answered

\* The status the check publishes is one of the five.
LEMMA StatusType ==
    ASSUME MonitorInv, NEW n \in Node
    PROVE  StatusNow(n) \in NodeStatus
  BY DEF StatusNow, Escalate, Evaluate, NodeStatus

\* A heartbeat's age stays a number.
LEMMA TickedType ==
    ASSUME MonitorInv, NEW n \in Node
    PROVE  Ticked(n) \in Int
<1>1. last_seen[n] \in Int
  BY DEF MonitorInv, MonitorTyped
<1> QED
  BY <1>1 DEF Ticked

\* The check ages the heartbeats and begins at most one restart.
LEMMA CheckHealthInv ==
    ASSUME MonitorInv, CheckHealth
    PROVE  MonitorInv'
<1>1. MonitorTyped'
  <2>1. last_seen' \in [Node -> Int]
    BY TickedType DEF CheckHealth
  <2>2. report' \in [Node -> NodeStatus]
    BY StatusType DEF CheckHealth
  <2>3. attempts' \in [Node -> Nat] /\ tried' \in [Node -> Nat]
    <3>1. \A n \in Node : attempts[n] \in Nat /\ tried[n] \in Nat
      BY DEF MonitorInv, MonitorTyped
    <3> QED
      BY <3>1 DEF CheckHealth
  <2> QED
    BY <2>1, <2>2, <2>3 DEF MonitorTyped
<1>2. NodesTyped' /\ HoldsByState'
  BY DEF MonitorInv, NodesTyped, HoldsByState, CheckHealth, nodes
<1>3. RestartTyped' /\ OneTransitionUnderWay'
  <2>1. CASE Starters = {}
    <3>1. restart' = Older(restart) /\ requests' = requests
      BY <2>1 DEF CheckHealth
    <3>2. restart \in RestartType /\ RestartTimeout \in Nat
      BY ConstantTypes DEF MonitorInv, RestartTyped
    <3>3. /\ restart' \in RestartType /\ restart'.node = restart.node
          /\ restart'.step = restart.step
          /\ restart'.in_progress = restart.in_progress
      <4> DEFINE node == restart.node
                 step == restart.step
                 on == restart.in_progress
                 spent == restart.spent
      <4>0. /\ restart = [node |-> node, step |-> step, in_progress |-> on,
                          spent |-> spent]
            /\ node \in Node \cup {""} /\ step \in 0..3 /\ on \in BOOLEAN
            /\ spent \in 0..(RestartTimeout + 1)
        BY <3>2, RestartFields
      <4>1. CASE on /\ spent <= RestartTimeout
        <5>1. restart' = [node |-> node, step |-> step, in_progress |-> on,
                          spent |-> spent + 1]
          <6>1. restart' = [restart EXCEPT !.spent = @ + 1]
            BY <3>1, <4>1 DEF Older
          <6> HIDE DEF node, step, on, spent
          <6> QED
            BY <4>0, <6>1
        <5>2. spent + 1 \in 0..(RestartTimeout + 1)
          <6>1. spent \in 0..(RestartTimeout + 1) /\ spent <= RestartTimeout
            BY <4>0, <4>1, Zenon
          <6> HIDE DEF spent
          <6> QED
            BY <6>1, ConstantTypes
        <5>3. restart' \in RestartType
          BY <4>0, <5>1, <5>2, RestartRecord
        <5> QED
          BY <5>1, <5>3
      <4>2. CASE ~(on /\ spent <= RestartTimeout)
        BY <3>1, <3>2, <4>2 DEF Older
      <4> QED
        BY <4>1, <4>2
    <3> QED
      BY <3>1, <3>3
      DEF MonitorInv, RestartTyped, OneTransitionUnderWay, RequestType
  <2>2. CASE Starters # {}
    <3>1. PICK n \in Starters : /\ restart' = Begun(n)
                                /\ requests' = requests \cup {Sent(n, 0)}
      BY <2>2, Zenon DEF CheckHealth
    <3>2. n \in Node /\ ~restart.in_progress
      BY DEF Starters, Begins
    <3>3. requests' = {[node |-> n, step |-> 0, at |-> "sent"]}
          /\ restart' = [node |-> n, step |-> 0, in_progress |-> TRUE,
                         spent |-> 0]
      BY <3>1, <3>2 DEF MonitorInv, OneTransitionUnderWay, Sent, Begun
    <3>4. 0 \in 0..3 /\ 0 \in 0..(RestartTimeout + 1)
      BY ConstantTypes
    <3>5. restart' \in RestartType
      BY <3>2, <3>3, <3>4, RestartRecord
    <3>a. RestartTyped'
      BY <3>2, <3>3, <3>4, <3>5 DEF RestartTyped, RequestType
    <3>6. OneTransitionUnderWay'
      BY <3>3 DEF OneTransitionUnderWay
    <3> QED
      BY <3>a, <3>6
  <2> QED
    BY <2>1, <2>2
<1> QED
  BY <1>1, <1>2, <1>3 DEF MonitorInv

\* A response ends the restart it belongs to or takes it one step further.
LEMMA HandleTransitionResponseInv ==
    ASSUME MonitorInv, NEW r \in requests, HandleTransitionResponse(r)
    PROVE  MonitorInv'
<1>1. requests = {r} /\ restart.in_progress /\ restart.node \in Node
  BY RequestIsRestarts
<1>2. MonitorTyped' /\ NodesTyped' /\ HoldsByState'
  BY DEF MonitorInv, MonitorTyped, NodesTyped, HoldsByState,
         HandleTransitionResponse, nodes
<1> DEFINE next == [restart EXCEPT !.step = @ + 1]
<1>3. CASE r.at = "refused" \/ GivesUp(next)
  <2>1. requests' = {} /\ restart' = [node |-> "", step |-> 0,
                                      in_progress |-> FALSE, spent |-> 0]
    BY <1>1, <1>3 DEF HandleTransitionResponse, Idle
  <2>2. 0 \in 0..3 /\ 0 \in 0..(RestartTimeout + 1)
    BY ConstantTypes
  <2>3. RestartTyped' /\ OneTransitionUnderWay'
    BY <2>1, <2>2
    DEF RestartTyped, RestartType, RequestType, OneTransitionUnderWay
  <2> QED
    BY <1>2, <2>3 DEF MonitorInv
<1>4. CASE ~(r.at = "refused" \/ GivesUp(next))
  <2>1. restart' = next /\ requests' = {Sent(next.node, next.step)}
    BY <1>1, <1>4 DEF HandleTransitionResponse
  <2>2. restart \in RestartType
    BY DEF MonitorInv, RestartTyped
  <2>3. next = [node |-> restart.node, step |-> restart.step + 1,
                in_progress |-> restart.in_progress, spent |-> restart.spent]
    <3> DEFINE node == restart.node
               step == restart.step
               on == restart.in_progress
               spent == restart.spent
    <3>1. restart = [node |-> node, step |-> step, in_progress |-> on,
                     spent |-> spent]
      BY <2>2, RestartFields
    <3> HIDE DEF node, step, on, spent
    <3>2. next = [node |-> node, step |-> step + 1, in_progress |-> on,
                  spent |-> spent]
      BY <3>1
    <3> QED
      BY <3>2 DEF node, step, on, spent
  <2>a. ~GivesUp(next)
    BY <1>4
  <2> HIDE DEF next
  <2>b. /\ next.node = restart.node /\ next.in_progress = restart.in_progress
        /\ next.step = restart.step + 1
    BY <2>3
  <2>4. next.step \in 0..3
    <3>1. restart.step \in 0..3 /\ ~(next.step >= 4)
      BY <2>2, <2>a, FourSteps, RestartFields, Zenon DEF GivesUp
    <3> QED
      BY <2>b, <3>1
  <2>5. next \in RestartType
    BY <2>2, <2>3, <2>4, <2>b, RestartFields, RestartRecord
  <2>6. Sent(next.node, next.step) \in RequestType
    BY <1>1, <2>4, <2>b DEF Sent, RequestType
  <2>7. RestartTyped'
    BY <1>1, <2>1, <2>5, <2>6, <2>b DEF RestartTyped
  <2>8. OneTransitionUnderWay'
    BY <1>1, <2>1, <2>b DEF OneTransitionUnderWay, Sent
  <2> QED
    BY <1>2, <2>7, <2>8 DEF MonitorInv
<1> QED
  BY <1>3, <1>4

\* A node that holds what its state allows is a node of the right type.
LEMMA HeldIsPart ==
    ASSUME NEW c \in Class, NEW held, NEW at, Holds(c, held, at)
    PROVE  held \in SUBSET Part
  BY DEF Holds, Part

(***************************************************************************)
(* A watched node that goes to another state, with what it then holds,     *)
(* keeps the clauses about nodes.                                          *)
(***************************************************************************)
LEMMA NodeMoves ==
    ASSUME MonitorInv, NEW n \in Node, NEW to \in LCState, NEW held,
           Holds(class[n], held, to),
           lc' = [lc EXCEPT ![n] = to], has' = [has EXCEPT ![n] = held],
           cond' \in [Node -> Condition], UNCHANGED class
    PROVE  NodesTyped' /\ HoldsByState'
<1>1. class[n] \in Class
  BY DEF MonitorInv, NodesTyped
<1>2. held \in SUBSET Part
  BY <1>1, HeldIsPart
<1>3. NodesTyped'
  BY <1>2 DEF MonitorInv, NodesTyped
<1>4. ASSUME NEW m \in Node
      PROVE  Holds(class[m], has'[m], lc'[m])
  <2>1. CASE m = n
    BY <2>1 DEF MonitorInv, NodesTyped
  <2>2. CASE m # n
    BY <2>2 DEF MonitorInv, NodesTyped, HoldsByState
  <2> QED
    BY <2>1, <2>2
<1> QED
  BY <1>3, <1>4 DEF HoldsByState

\* What the target of a request holds while it serves it.
LEMMA ServingNode ==
    ASSUME MonitorInv, NEW r \in requests, Serves(r)
    PROVE  /\ r.node \in Node /\ r.step + 1 \in 1..4
           /\ class[r.node] \in Class
           /\ Holds(class[r.node], has[r.node], From[r.step + 1])
<1>1. r.node \in Node /\ r.step \in 0..3
  BY RequestIsRestarts
<1>2. r.step + 1 \in 1..4
  BY <1>1
<1> QED
  BY <1>1, <1>2 DEF Serves, MonitorInv, NodesTyped, HoldsByState

\* The node runs the callback of the transition and answers.
LEMMA AcceptInv ==
    ASSUME MonitorInv, NEW r \in requests, Accept(r)
    PROVE  MonitorInv'
<1>1. /\ r.node \in Node /\ r.step + 1 \in 1..4
      /\ class[r.node] \in Class
      /\ Holds(class[r.node], has[r.node], From[r.step + 1])
  BY ServingNode DEF Accept
<1> DEFINE held == After(class[r.node], has[r.node], kSequence[r.step + 1])
<1>2. Holds(class[r.node], held, To[r.step + 1])
  BY <1>1, HoldsAfter
<1>3. To[r.step + 1] \in LCState
  BY <1>1 DEF To, LCState
<1>4. cond' \in [Node -> Condition]
  BY <1>1 DEF Accept, MonitorInv, NodesTyped, Condition
<1>5. lc' = [lc EXCEPT ![r.node] = To[r.step + 1]]
      /\ has' = [has EXCEPT ![r.node] = held] /\ class' = class
  BY <1>1 DEF Accept, MonitorInv, NodesTyped
<1>6. NodesTyped' /\ HoldsByState'
  <2> HIDE DEF held
  <2> QED
    BY <1>1, <1>2, <1>3, <1>4, <1>5, NodeMoves
<1>7. requests' = {[r EXCEPT !.at = "accepted"]} /\ restart' = restart
  BY AnsweredIsOne DEF Accept, monitor
<1>8. RestartTyped' /\ OneTransitionUnderWay'
  BY <1>7, AnsweredKeeps
<1>9. MonitorTyped'
  BY DEF Accept, monitor, MonitorInv, MonitorTyped
<1> QED
  BY <1>6, <1>8, <1>9 DEF MonitorInv

\* The callback throws and the node is finalized.
LEMMA ThrowInv ==
    ASSUME MonitorInv, NEW r \in requests, ThrowInConfigure(r)
    PROVE  MonitorInv'
<1>1. /\ r.node \in Node /\ r.step + 1 \in 1..4
      /\ class[r.node] \in Class
      /\ Holds(class[r.node], has[r.node], From[r.step + 1])
  BY ServingNode DEF ThrowInConfigure
<1>2. From[r.step + 1] = "unconfigured"
  BY <1>1 DEF ThrowInConfigure, Throws, kSequence, From
<1> DEFINE held == has[r.node] \cup class[r.node].made_first
<1>3. Holds(class[r.node], held, "finalized")
  BY <1>1, <1>2, HoldsThrown
<1>4. cond' \in [Node -> Condition]
  BY DEF ThrowInConfigure, MonitorInv, NodesTyped
<1>5. lc' = [lc EXCEPT ![r.node] = "finalized"]
      /\ has' = [has EXCEPT ![r.node] = held] /\ class' = class
  BY <1>1 DEF ThrowInConfigure, MonitorInv, NodesTyped
<1>6. NodesTyped' /\ HoldsByState'
  <2> HIDE DEF held
  <2> QED
    BY <1>1, <1>3, <1>4, <1>5, NodeMoves DEF LCState
<1>7. requests' = {[r EXCEPT !.at = "refused"]} /\ restart' = restart
  BY AnsweredIsOne DEF ThrowInConfigure, monitor
<1>8. RestartTyped' /\ OneTransitionUnderWay'
  BY <1>7, AnsweredKeeps
<1>9. MonitorTyped'
  BY DEF ThrowInConfigure, monitor, MonitorInv, MonitorTyped
<1> QED
  BY <1>6, <1>8, <1>9 DEF MonitorInv

\* The node refuses.
LEMMA RefuseInv ==
    ASSUME MonitorInv, NEW r \in requests, Refuse(r)
    PROVE  MonitorInv'
<1>1. requests' = {[r EXCEPT !.at = "refused"]} /\ restart' = restart
  BY AnsweredIsOne DEF Refuse, monitor
<1>2. RestartTyped' /\ OneTransitionUnderWay'
  BY <1>1, AnsweredKeeps
<1>3. MonitorTyped' /\ NodesTyped' /\ HoldsByState'
  BY DEF Refuse, monitor, nodes, MonitorInv, MonitorTyped, NodesTyped,
         HoldsByState
<1> QED
  BY <1>2, <1>3 DEF MonitorInv

\* A node's condition changes and nothing else.
LEMMA ConditionInv ==
    ASSUME MonitorInv, NEW n \in Node, NEW c \in Condition,
           cond' = [cond EXCEPT ![n] = c],
           UNCHANGED <<monitor, requests, lc, class, has>>
    PROVE  MonitorInv'
  BY DEF MonitorInv, MonitorTyped, NodesTyped, RestartTyped,
         OneTransitionUnderWay, HoldsByState, monitor

\* A node dies; a request it has not answered is lost.
LEMMA DieInv ==
    ASSUME MonitorInv, NEW n \in Node, Die(n)
    PROVE  MonitorInv'
<1>1. MonitorTyped' /\ NodesTyped' /\ HoldsByState'
  BY DEF Die, monitor, MonitorInv, MonitorTyped, NodesTyped, HoldsByState,
         Condition
<1>2. restart' = restart
  BY DEF Die, monitor
<1>3. CASE requests = {}
  <2>1. requests' = {}
    BY <1>3 DEF Die
  <2> QED
    BY <1>1, <1>2, <1>3, <2>1
    DEF MonitorInv, RestartTyped, OneTransitionUnderWay
<1>4. CASE requests # {}
  <2>1. PICK r \in requests : requests = {r}
    BY <1>4, RequestIsRestarts
  <2>2. CASE r.node = n /\ r.at = "sent"
    <3>1. requests' = {[r EXCEPT !.at = "lost"]}
      BY <2>1, <2>2 DEF Die
    <3> QED
      BY <1>1, <1>2, <3>1, AnsweredKeeps DEF MonitorInv
  <2>3. CASE ~(r.node = n /\ r.at = "sent")
    <3>1. requests' = requests
      BY <2>1, <2>3 DEF Die
    <3> QED
      BY <1>1, <1>2, <3>1 DEF MonitorInv, RestartTyped, OneTransitionUnderWay
  <2> QED
    BY <2>2, <2>3
<1> QED
  BY <1>3, <1>4

\* A process that is started again holds everything.
LEMMA RespawnInv ==
    ASSUME MonitorInv, NEW n \in Node, Respawn(n)
    PROVE  MonitorInv'
<1>1. Holds(class[n], Up(class[n]), "active")
  BY HoldsUp
<1>2. cond' \in [Node -> Condition]
  BY DEF Respawn, MonitorInv, NodesTyped, Condition
<1>3. NodesTyped' /\ HoldsByState'
  BY <1>1, <1>2, NodeMoves DEF Respawn, LCState
<1>4. MonitorTyped' /\ RestartTyped' /\ OneTransitionUnderWay'
  BY DEF Respawn, monitor, MonitorInv, MonitorTyped, RestartTyped,
         OneTransitionUnderWay
<1> QED
  BY <1>3, <1>4 DEF MonitorInv

\* Every step of the monitor and of the nodes it watches.
LEMMA MonitorStep == MonitorInv /\ [Next]_vars => MonitorInv'
<1> SUFFICES ASSUME MonitorInv, [Next]_vars PROVE MonitorInv'
  OBVIOUS
<1>1. CASE CheckHealth
  BY <1>1, CheckHealthInv
<1>2. ASSUME NEW r \in requests,
             \/ HandleTransitionResponse(r) \/ Accept(r)
             \/ ThrowInConfigure(r) \/ Refuse(r)
      PROVE  MonitorInv'
  BY <1>2, HandleTransitionResponseInv, AcceptInv, ThrowInv, RefuseInv
<1>3. ASSUME NEW n \in Node, HeartbeatReceived(n)
      PROVE  MonitorInv'
  BY <1>3
  DEF HeartbeatReceived, nodes, MonitorInv, MonitorTyped, NodesTyped,
      RestartTyped, OneTransitionUnderWay, HoldsByState
<1>4. ASSUME NEW n \in Node,
             FallSick(n) \/ DriveStarts(n) \/ DriveEnds(n) \/ Hang(n)
      PROVE  MonitorInv'
  BY <1>4, ConditionInv DEF FallSick, DriveStarts, DriveEnds, Hang, Condition
<1>5. ASSUME NEW n \in Node, Die(n) \/ Respawn(n)
      PROVE  MonitorInv'
  BY <1>5, DieInv, RespawnInv
<1>6. CASE UNCHANGED vars
  BY <1>6
  DEF vars, monitor, nodes, MonitorInv, MonitorTyped, NodesTyped,
      RestartTyped, OneTransitionUnderWay, HoldsByState
<1> QED
  BY <1>1, <1>2, <1>3, <1>4, <1>5, <1>6 DEF Next

\* The invariant holds throughout.
LEMMA MonitorAlways == Spec => []MonitorInv
  BY MonitorInit, MonitorStep, PTL DEF Spec

-----------------------------------------------------------------------------
(***************************************************************************)
(* Type correctness of the monitor, of the restart it conducts and of the  *)
(* nodes; in particular a node never holds what its class does not make.   *)
(***************************************************************************)
THEOREM MonitorType == Spec => []TypeOK
  BY MonitorAlways, InvImpliesTypeOK, PTL

(***************************************************************************)
(* A restart in progress has exactly one change_state call under way, its  *)
(* own and for the step it is at, however calls are refused, lost with a   *)
(* dying node, overtaken by the deadline or answered by a node that has    *)
(* been started again: the response handler never advances a restart the   *)
(* response does not belong to.                                            *)
(***************************************************************************)
THEOREM MonitorOneTransition == Spec => []OneTransitionUnderWay
<1>1. MonitorInv => OneTransitionUnderWay
  BY DEF MonitorInv
<1> QED
  BY <1>1, MonitorAlways, PTL

(***************************************************************************)
(* In every class of node, a restart that is cut short anywhere leaves no  *)
(* timer running in a node that is not active, and a running timer finds   *)
(* the publisher and the sensor its callback uses.                         *)
(***************************************************************************)
THEOREM MonitorTimers == Spec => []TimersOnlyWhileActive
<1>1. MonitorInv => TimersOnlyWhileActive
  <2> SUFFICES ASSUME MonitorInv, NEW n \in Node, NEW t \in Timers \cap has[n]
               PROVE  /\ lc[n] = "active"
                      /\ Up(class[n]) \subseteq has[n]
    BY DEF TimersOnlyWhileActive, Timers
  <2>1. Holds(class[n], has[n], lc[n])
    BY DEF MonitorInv, HoldsByState
  <2>2. lc[n] = "active"
    BY <2>1 DEF Holds
  <2> QED
    BY <2>1, <2>2 DEF Holds
<1> QED
  BY <1>1, MonitorAlways, PTL

\* A node is recovered only with attempts left and never while it is OK.
LEMMA RecoveringHasBudget ==
    ASSUME MonitorInv, NEW n \in Node, n \in Recovering
    PROVE  attempts[n] < kMaxRetries /\ StatusNow(n) # "OK"
<1>1. StatusNow(n) = "ERROR"
  BY DEF Recovering
<1>2. ~(attempts[n] >= kMaxRetries)
  BY <1>1 DEF StatusNow, Escalate, Evaluate
<1>3. attempts[n] \in Nat /\ kMaxRetries \in Nat
  BY ConstantTypes DEF MonitorInv, MonitorTyped
<1> QED
  BY <1>1, <1>2, <1>3

(***************************************************************************)
(* The watchdog begins at most kMaxRetries restarts of a node between two  *)
(* checks that find it OK.  An attempt is used up by every check that      *)
(* finds the node in ERROR, whether or not the restart could begin, so the *)
(* budget bounds the restarts from above.                                  *)
(***************************************************************************)
THEOREM MonitorBudget == Spec => []RestartsWithinBudget
<1>1. Init => RestartsWithinBudget
  BY ConstantTypes DEF Init, RestartsWithinBudget
<1>2. MonitorInv /\ RestartsWithinBudget /\ [Next]_vars => RestartsWithinBudget'
  <2> SUFFICES ASSUME MonitorInv, RestartsWithinBudget, [Next]_vars
               PROVE  RestartsWithinBudget'
    OBVIOUS
  <2>1. CASE CheckHealth
    <3> SUFFICES ASSUME NEW n \in Node
                 PROVE  tried'[n] <= attempts'[n] /\ attempts'[n] <= kMaxRetries
      BY DEF RestartsWithinBudget
    <3>1. /\ attempts[n] \in Nat /\ tried[n] \in Nat /\ kMaxRetries \in Nat
          /\ tried[n] <= attempts[n] /\ attempts[n] <= kMaxRetries
      BY ConstantTypes DEF MonitorInv, MonitorTyped, RestartsWithinBudget
    <3>2. /\ attempts'[n] = CASE n \in Recovering -> attempts[n] + 1
                              [] StatusNow(n) = "OK" -> 0
                              [] OTHER -> attempts[n]
          /\ tried'[n] = CASE n \in Starters -> tried[n] + 1
                           [] StatusNow(n) = "OK" -> 0
                           [] OTHER -> tried[n]
      BY <2>1 DEF CheckHealth
    <3>3. n \in Starters => n \in Recovering
      BY DEF Starters, Begins
    <3>4. CASE n \in Recovering
      <4>1. attempts[n] < kMaxRetries /\ StatusNow(n) # "OK"
        BY <3>4, RecoveringHasBudget
      <4>2. attempts'[n] = attempts[n] + 1 /\ tried'[n] \in {tried[n], tried[n] + 1}
        BY <3>2, <3>4, <4>1
      <4> QED
        BY <3>1, <4>1, <4>2
    <3>5. CASE n \notin Recovering /\ StatusNow(n) = "OK"
      <4>1. attempts'[n] = 0 /\ tried'[n] = 0
        BY <3>2, <3>3, <3>5
      <4> QED
        BY <3>1, <4>1
    <3>6. CASE n \notin Recovering /\ StatusNow(n) # "OK"
      <4>1. attempts'[n] = attempts[n] /\ tried'[n] = tried[n]
        BY <3>2, <3>3, <3>6
      <4> QED
        BY <3>1, <4>1
    <3> QED
      BY <3>4, <3>5, <3>6
  <2>2. CASE UNCHANGED <<attempts, tried>>
    BY <2>2 DEF RestartsWithinBudget
  <2>3. CheckHealth \/ UNCHANGED <<attempts, tried>>
    BY DEF Next, vars, monitor, HandleTransitionResponse, Accept,
           ThrowInConfigure, Refuse, HeartbeatReceived, FallSick, DriveStarts,
           DriveEnds, Hang, Die, Respawn
  <2> QED
    BY <2>1, <2>2, <2>3
<1> QED
  BY <1>1, <1>2, MonitorAlways, PTL DEF Spec

(***************************************************************************)
(* The thresholds of the /health/check service are a second copy of the    *)
(* analyzer's; the two judge every age under every timeout alike, "never"  *)
(* and FATAL excepted.                                                     *)
(***************************************************************************)
THEOREM MonitorServiceAgrees == Spec => []ServiceAgrees
<1>1. MonitorInv => ServiceAgrees
  <2> SUFFICES ASSUME MonitorInv, NEW n \in Node
               PROVE  CheckReply(n) =
                        IF Evaluate(last_seen[n], Timeout[n]) = "STALE"
                        THEN "Unknown" ELSE Evaluate(last_seen[n], Timeout[n])
    BY DEF ServiceAgrees
  <2>1. last_seen[n] \in Int /\ Timeout[n] \in Nat
    BY ConstantTypes DEF MonitorInv, MonitorTyped
  <2> QED
    BY <2>1 DEF CheckReply, Evaluate
<1> QED
  BY <1>1, MonitorAlways, PTL
=============================================================================
