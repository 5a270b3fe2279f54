------------------------------- MODULE TopoOrder -------------------------------
(***************************************************************************)
(* How the supervisor arrives at its bring-up order: the child list of the *)
(* parameters (load_children_from_params() in supervisor_node.cpp) and     *)
(* topo_order() of supervisor_policy.hpp.  A child is a record of its      *)
(* name, the names it depends on and whether it has a command.             *)
(***************************************************************************)
EXTENDS Integers, SequencesExt

\* The turn of a pass for one child: whoever has its dependencies in the
\* order, earlier members of the same pass included, is appended.
Turn(order, s) ==
    IF s.name \notin ToSet(order) /\ s.depends_on \subseteq ToSet(order)
    THEN Append(order, s.name) ELSE order

\* One pass over the list.
Pass(specs, order) ==
    LET turn[i \in 0..Len(specs)] ==
            IF i = 0 THEN order ELSE Turn(turn[i - 1], specs[i])
    IN  turn[Len(specs)]

Names(specs) == {specs[i].name : i \in DOMAIN specs}

\* topo_order(): empty for a duplicate name, an unknown dependency, a cycle.
\* Passes beyond the last that makes progress change nothing.
topo_order(specs) ==
    LET pass[n \in 0..Len(specs)] ==
            IF n = 0 THEN <<>> ELSE Pass(specs, pass[n - 1])
        order == pass[Len(specs)]
    IN  IF /\ Cardinality(Names(specs)) = Len(specs)
           /\ \A i \in DOMAIN specs : specs[i].depends_on \subseteq Names(specs)
           /\ Len(order) = Len(specs)
        THEN order ELSE <<>>

\* load_children_from_params() succeeds.
Loads(specs) ==
    /\ \A i \in DOMAIN specs : specs[i].cmd
    /\ specs # <<>> => topo_order(specs) # <<>>
-----------------------------------------------------------------------------
(***************************************************************************)
(* The reference.  A list can be brought up if its names are distinct and  *)
(* known and no set of its children waits for itself.                      *)
(***************************************************************************)
WellFormed(specs) ==
    /\ \A i, j \in DOMAIN specs : specs[i].name = specs[j].name => i = j
    /\ \A i \in DOMAIN specs : specs[i].depends_on \subseteq Names(specs)
    /\ \A waiting \in (SUBSET DOMAIN specs) \ {{}} :
          \E i \in waiting :
              specs[i].depends_on \cap {specs[j].name : j \in waiting} = {}

\* Every child once, each after what it depends on.
InOrder(specs, order) ==
    /\ Len(order) = Len(specs) /\ ToSet(order) = Names(specs)
    /\ \A i \in DOMAIN specs, k \in DOMAIN order :
          order[k] = specs[i].name =>
              specs[i].depends_on \subseteq {order[j] : j \in 1..(k - 1)}

(***************************************************************************)
(* topo_order() refuses exactly the lists that cannot be brought up and    *)
(* puts the others in order: the assumption the supervisor makes of Topo.  *)
(***************************************************************************)
OrdersOrRefuses(specs) ==
    IF WellFormed(specs) THEN InOrder(specs, topo_order(specs))
                         ELSE topo_order(specs) = <<>>
=============================================================================
