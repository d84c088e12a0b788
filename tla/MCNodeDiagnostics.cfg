\* The three loops, late sleeps and one reset.
SPECIFICATION Spec
CONSTANTS
  Period10 = 2
  Period1 = 4
  PeriodNoisy = 8
  Jitters <- MCJitters
  Delays = {1, 3}
  MaxReset = 3
  MaxResets = 1
  Verbosities = {"NOTICE", "DEBUG"}
INVARIANT InitializingMeansLate
PROPERTIES LoopReportsNoFailure FailuresAreForgotten
