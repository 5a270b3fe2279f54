------------------------------ MODULE HealthFeed ------------------------------
(***************************************************************************)
(* The consumer of /health/report (infrastructure/health_feed.hpp): it     *)
(* keeps the last decisive status of every health node and the verdict it  *)
(* last announced for every supervised child, and calls the supervisor     *)
(* back only when a verdict flips.                                         *)
(***************************************************************************)
CONSTANTS
    HealthNode,      \* node names that appear in /health/report
    HealthNodes,     \* per child: the health nodes mapped to it
    GatedChild       \* the children with a non-empty mapping

Status == {"OK", "WARN", "ERROR", "STALE", "FATAL"}

NodeView == {"UNKNOWN", "OK", "BAD"}

Report == [HealthNode -> Status]

\* WARN and STALE leave the view of a node as it was.
ViewAfter(old, status) ==
    CASE status = "OK" -> "OK"
      [] status \in {"ERROR", "FATAL"} -> "BAD"
      [] OTHER -> old

ViewsAfter(views, report) ==
    [n \in HealthNode |-> ViewAfter(views[n], report[n])]

\* dispatch(): the children some node view of which changed.
Touched(views, report) ==
    {c \in GatedChild :
        \E n \in HealthNodes[c] : ViewsAfter(views, report)[n] # views[n]}

\* evaluate(): a child is alive when every one of its nodes is OK.
AllOk(views, c) == \A n \in HealthNodes[c] : views[n] = "OK"
=============================================================================
