--------------------------- MODULE MCSimpleTimer ---------------------------
(* SimpleTimer for TLC: a period is 2 ticks, so that the loop is at its      *)
(* target rate when it runs every 2 ticks and too slow when every 3.         *)
EXTENDS SimpleTimer
============================================================================
