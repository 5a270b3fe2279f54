----------------------------- MODULE NodeClasses ------------------------------
(***************************************************************************)
(* The lifecycle callbacks of the node classes the health monitor may      *)
(* restart: what on_configure() and on_activate() make, what               *)
(* on_deactivate() and on_cleanup() drop, and whether on_configure()       *)
(* declares a parameter, which throws the second time in a process.        *)
(* "publishing" is the state of the node's LifecyclePublishers.            *)
(*                                                                         *)
(* on_shutdown() ends the process and is left out.                         *)
(***************************************************************************)

\* AmrNode::start_heartbeat() makes both, stop_heartbeat() drops both.
ManagedHeartbeat == {"heartbeat_pub", "heartbeat_timer"}

\* Mutant: on_deactivate() forgets the heartbeat timer.
LidarNodeKeepsBeating ==
    [on_configure |-> {"publisher", "heartbeat_pub"},
     on_activate |-> {"timer", "heartbeat_timer", "publishing"},
     on_deactivate |-> {"timer", "publishing"},
     on_cleanup |-> {"publisher", "heartbeat_pub"},
     redeclares |-> FALSE, made_first |-> {}]

LidarNode ==
    [on_configure |-> {"publisher", "heartbeat_pub"},
     on_activate |-> {"timer", "heartbeat_timer", "publishing"},
     on_deactivate |-> {"timer", "heartbeat_timer", "publishing"},
     on_cleanup |-> {"publisher", "heartbeat_pub"},
     redeclares |-> FALSE, made_first |-> {}]

CameraNode ==
    [on_configure |-> {"publisher", "heartbeat_pub"},
     on_activate |-> {"timer", "heartbeat_timer", "publishing"},
     on_deactivate |-> {"timer", "heartbeat_timer", "publishing"},
     on_cleanup |-> {"publisher", "heartbeat_pub"},
     redeclares |-> FALSE, made_first |-> {}]

ImuNode ==
    [on_configure |-> {"publisher"},
     on_activate |-> {"timer", "publishing"} \cup ManagedHeartbeat,
     on_deactivate |-> {"timer", "publishing"} \cup ManagedHeartbeat,
     on_cleanup |-> {"publisher"},
     redeclares |-> FALSE, made_first |-> {}]

\* scan_sub_ and tf2_ outlive on_cleanup().
FusionNode ==
    [on_configure |-> {"sensor", "scan_sub", "tf", "perception", "publisher",
                       "heartbeat_pub"},
     on_activate |-> {"timer", "heartbeat_timer", "publishing"},
     on_deactivate |-> {"timer", "heartbeat_timer", "publishing"},
     on_cleanup |-> {"publisher", "heartbeat_pub", "perception", "sensor"},
     redeclares |-> FALSE, made_first |-> {}]

\* static_obstacles is declared last; goal_sub_ and scan_sub_ outlive
\* on_cleanup().
DecisionNode ==
    LET subs == {"decision_sub", "amcl_pose_sub", "fusion_hb_sub"}
        made == subs \cup {"goal_sub", "scan_sub", "tf", "client", "publisher"}
    IN  [on_configure |-> made,
         on_activate |-> {"publishing"} \cup ManagedHeartbeat,
         on_deactivate |-> {"publishing"} \cup ManagedHeartbeat,
         on_cleanup |-> subs \cup {"client", "publisher", "tf"},
         redeclares |-> TRUE, made_first |-> made]

\* vfh_enabled is declared first; path_sub_ outlives on_cleanup().
MotorCtrlNode ==
    [on_configure |-> {"action_server", "service_server", "heartbeat_pub",
                       "publisher", "odom_sub", "scan_sub", "path_sub"},
     on_activate |-> {"heartbeat_timer", "publishing"},
     on_deactivate |-> {"heartbeat_timer", "publishing"},
     on_cleanup |-> {"action_server", "service_server", "heartbeat_pub",
                     "publisher", "odom_sub", "scan_sub"},
     redeclares |-> TRUE, made_first |-> {}]

TemperatureNode ==
    [on_configure |-> {"sensor", "publisher"},
     on_activate |-> {"timer", "publishing"} \cup ManagedHeartbeat,
     on_deactivate |-> {"timer", "publishing"} \cup ManagedHeartbeat,
     on_cleanup |-> {"publisher", "sensor"},
     redeclares |-> TRUE, made_first |-> {}]

UltrasonicNode ==
    [on_configure |-> {"sensor", "publisher"},
     on_activate |-> {"timer", "publishing"} \cup ManagedHeartbeat,
     on_deactivate |-> {"timer", "publishing"} \cup ManagedHeartbeat,
     on_cleanup |-> {"publisher", "sensor"},
     redeclares |-> TRUE, made_first |-> {}]

TemperatureMonitorNode ==
    [on_configure |-> {"subscription", "publisher"},
     on_activate |-> {"publishing"} \cup ManagedHeartbeat,
     on_deactivate |-> {"publishing"} \cup ManagedHeartbeat,
     on_cleanup |-> {"subscription", "publisher"},
     redeclares |-> TRUE, made_first |-> {}]

FleetManagerNode ==
    [on_configure |-> {"subs", "publisher", "heartbeat_pub"},
     on_activate |-> {"timer", "heartbeat_timer", "publishing"},
     on_deactivate |-> {"timer", "heartbeat_timer", "publishing"},
     on_cleanup |-> {"subs", "publisher", "heartbeat_pub"},
     redeclares |-> FALSE, made_first |-> {}]

\* A NAV2 server: probed by get_state, without a heartbeat of its own.
Nav2Server ==
    [on_configure |-> {}, on_activate |-> {"publishing"},
     on_deactivate |-> {"publishing"}, on_cleanup |-> {},
     redeclares |-> FALSE, made_first |-> {}]

OwnClasses == {LidarNode, CameraNode, ImuNode, FusionNode, DecisionNode,
               MotorCtrlNode, TemperatureNode, UltrasonicNode,
               TemperatureMonitorNode, FleetManagerNode}
-----------------------------------------------------------------------------
\* What a node of class c has when it is active for the first time.
Up(c) == c.on_configure \cup c.on_activate

\* What it has after the callback of a transition, having held `held`.
After(c, held, transition) ==
    CASE transition = "deactivate" -> held \ c.on_deactivate
      [] transition = "cleanup" -> held \ c.on_cleanup
      [] transition = "configure" -> held \cup c.on_configure
      [] transition = "activate" -> held \cup c.on_activate
=============================================================================
