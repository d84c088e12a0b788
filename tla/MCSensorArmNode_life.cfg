\* One rescan is enough for a command that is delivered twice.
SPECIFICATION Spec
CONSTANTS
  command = command
  other = other
  verbosity_level = verbosity_level
  require_pps_to_start = require_pps_to_start
  joint_angles = joint_angles
  CommandTopics <- MCTopics
  MainTopic = command
  Parameters <- MCParameters
  Verbosity = verbosity_level
  RequirePps = require_pps_to_start
  MaxRescans = 1
INVARIANTS RunningIsGated FinishedMeansFailedStart CrashNeedsNoLogger
PROPERTIES InterruptEnds BecomesReady CallbacksRun
\* The node may finish, crash or be terminated.
CHECK_DEADLOCK FALSE
