SPECIFICATION Spec
CONSTANTS
  Commands <- MCCommands
  Scale = 4
  Cells = 3
  Capacity <- MCCapacity
  Breaker = 2688
  BaseCurrent = 29
  Undefined = Undefined
  Idle = Idle
  Joints = {pan}
  Pan = pan
  Limit = 1
  NoPress = NoPress
  Unit = 100
  FastRate = 50
  MediumRate = 10
  Delays <- MCDelays
INVARIANTS NoConsumerSeesDepletion NoTornVelocity ForceIsOfFullVoltage SetpointsWithinLimits
PROPERTIES NothingAccumulates DepletionNeedsPause DepletionPasses
