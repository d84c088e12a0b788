\* A loop of 100 that the world asks for at any pace.
SPECIFICATION Spec
CONSTANTS
  Unit = 200
  MaxRate = 100
  Rate = 150
  WarmUpRuns = 1
  Delays = {1, 3}
  ReadDelays = {0, 1}
  MaxTime = 8
  MaxJumps = 1
INVARIANTS SetRateNearTarget RunsAreBounded
PROPERTY ImplementsLoopTimer
\* The clock stops at MaxTime.
CHECK_DEADLOCK FALSE
