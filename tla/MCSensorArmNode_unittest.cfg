\* Two unit tests, the first with a result that cannot be parsed.
SPECIFICATION Spec
CONSTANTS
  command = command
  other = other
  verbosity_level = verbosity_level
  require_pps_to_start = require_pps_to_start
  joint_angles = joint_angles
  CommandTopics <- MCTopics
  MainTopic = command
  Parameters <- MCParameters
  Verbosity = verbosity_level
  RequirePps = require_pps_to_start
  MaxRescans = 1
INVARIANT InProgressIsTrue
\* The node may finish, crash or be terminated.
CHECK_DEADLOCK FALSE
