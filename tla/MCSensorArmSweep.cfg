\* Ranges that start at 0, and ranges that do not.
SPECIFICATION SweepSpec
CONSTANTS
  JointCount = 3
  Launches <- MCLaunches
  HoldTime = 3
  Period = 2
  MaxReset = 2
  MaxResets = 2
  Unpublished = Unpublished
INVARIANT PublishedInRange
PROPERTY ImplementsCounter
