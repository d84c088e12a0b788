\* main's loop and interrupts at any line; flags that wrap at 4.
SPECIFICATION Spec
CONSTANTS
  NUMST = 3
  FIRST_TID = 0
  CounterLimit <- MCCounterLimit
  FlagSpan = 4
  MaxCalls = 3
INVARIANT ReinterruptIsOkay
\* main returns in the end.
CHECK_DEADLOCK FALSE
