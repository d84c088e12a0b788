-------------------------- MODULE MCSensorArmNode --------------------------
(* SensorArmNode for TLC: /command and a second command topic, and the two *)
(* parameters of BaseNode with one that stands for those of the joints.    *)
EXTENDS SensorArmNode

CONSTANTS command, other, verbosity_level, require_pps_to_start, joint_angles

MCTopics     == {command, other}
MCParameters == {verbosity_level, require_pps_to_start, joint_angles}
============================================================================
