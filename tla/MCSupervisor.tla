----------------------------- MODULE MCSupervisor -----------------------------
(***************************************************************************)
(* A small instance of the supervisor: a simulator, a gated stack on top   *)
(* of it, and a oneshot job on top of that (the shape of                   *)
(* launch/supervised_sim.launch.py with the gate of supervised_nav2).      *)
(***************************************************************************)
EXTENDS Supervisor

CONSTANTS gz, nav, job, ctl, amcl

Loading == INSTANCE TopoOrder

MCDeps == [c \in Child |-> CASE c = gz  -> {}
                             [] c = nav -> {gz}
                             [] c = job -> {nav}]
MCParameters ==
    [i \in 1..3 |-> LET c == <<job, gz, nav>>[i]
                    IN  [name |-> c, depends_on |-> MCDeps[c], cmd |-> TRUE]]
MCTopo == <<gz, nav, job>>
MCMapOrder == <<gz, job, nav>>
MCHealthNodes == [c \in Child |-> IF c = nav THEN HealthNode ELSE {}]

AllOne == [c \in Child |-> 1]
AllTwo == [c \in Child |-> 2]
AllZero == [c \in Child |-> 0]

\* Lists of up to three children over three names, one of which may be
\* unknown, with every choice of dependencies.
MCLists ==
    LET spec == [name : {gz, nav, job}, depends_on : SUBSET {gz, nav, job},
                 cmd : {TRUE}]
    IN  UNION {[1..n -> spec] : n \in 0..2}
            \cup {<<a, b, c>> : a \in {s \in spec : s.name = gz},
                                b \in {s \in spec : s.name = nav},
                                c \in {s \in spec : s.name = job}}

ASSUME TopoOrderAssumption ==
    /\ \A specs \in MCLists : Loading!OrdersOrRefuses(specs)
    /\ Loading!Loads(MCParameters) /\ Loading!topo_order(MCParameters) = MCTopo
=============================================================================
