--------------------------- MODULE MCRobotPlugin ---------------------------
(* RobotPlugin for TLC: truth_imu, two IMUs and one sonar, one actuator with *)
(* its position joint, one side of the drivetrain.                           *)
EXTENDS RobotPlugin

CONSTANTS truth_imu, left_imu, right_imu, sonar, base, camera, assembly,
          lift, liftSensor, left

MCSensorOrder   == <<truth_imu, left_imu, right_imu, sonar>>
MCImus          == {left_imu, right_imu}
MCActuators     == {lift}
MCPositionJoint == [a \in {lift} |-> liftSensor]
MCSides         == {left}

\* The complete model, and those that lack up to three of its parts.
MostlyComplete == {m \in SUBSET Parts : Cardinality(Parts \ m) <= 3}
\* No truth_imu: LoadSensors gives up at its first look-up.
WithoutTruth  == {Parts \ {truth_imu}}

MCCommands == {-1, 1}
============================================================================
