------------------------------ MODULE LoopBand ------------------------------
(***************************************************************************)
(* When a loop paced by a SimpleTimer may run and when it must, whatever   *)
(* its rate controller does: never at more than 1.2 times its target rate, *)
(* never refused when it is slower than 0.8 times it.  Rates times ticks   *)
(* are compared with Unit, so that nothing is divided.                     *)
(***************************************************************************)
EXTENDS Integers

CONSTANTS
  Unit,    \* rate times ticks that make one period
  Target   \* the target rate

MayRun(ticks)  == 6 * Target * ticks > 5 * Unit
MustRun(ticks) == 4 * Target * ticks >= 5 * Unit
============================================================================
