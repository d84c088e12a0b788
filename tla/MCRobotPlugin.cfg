\* Models that lack up to three parts, both builds, commands at any moment.
SPECIFICATION Spec
CONSTANTS
  truth_imu = truth_imu
  left_imu = left_imu
  right_imu = right_imu
  sonar = sonar
  base = base
  camera = camera
  assembly = assembly
  lift = lift
  liftSensor = liftSensor
  left = left
  SensorOrder <- MCSensorOrder
  Imus <- MCImus
  Truth = truth_imu
  BaseLink = base
  CameraJoints = camera
  CameraAssembly = assembly
  Actuators <- MCActuators
  PositionJoint <- MCPositionJoint
  Sides <- MCSides
  Commands <- MCCommands
  Installations <- MostlyComplete
  Builds = {TRUE, FALSE}
  InitializationTime = 2
  Deltas = {1, 2}
  Undefined = Undefined
  None = None
INVARIANTS CrashExplained StrictBuildHolds ForceAwaitsRobot
PROPERTIES DriveStaysDefined WarmUpEnds CommandsAreHandled ForcesAreApplied
\* A crash, or a strict build that gave up loading, ends the program.
CHECK_DEADLOCK FALSE
