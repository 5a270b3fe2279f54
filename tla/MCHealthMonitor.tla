---------------------------- MODULE MCHealthMonitor ----------------------------
(***************************************************************************)
(* Watched nodes: two or three that beat on a topic, and one, like a NAV2  *)
(* server, that is only probed and has no restart client.  mover is the    *)
(* motor controller; any may be a node of any class.                       *)
(***************************************************************************)
EXTENDS HealthMonitor

CONSTANTS lidar, mover, any, amcl

OneTopic == <<lidar>>
TwoTopics == <<lidar, mover>>
TopicsAndProbe == <<lidar, any, amcl>>
AllOne == [n \in Node |-> 1]
Classes ==
    [n \in Node |-> CASE n = lidar -> {LidarNode}
                     [] n = mover -> {MotorCtrlNode}
                     [] n = any -> OwnClasses
                     [] n = amcl -> {Nav2Server}]
=============================================================================
