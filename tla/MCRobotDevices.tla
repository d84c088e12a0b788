--------------------------- MODULE MCRobotDevices ---------------------------
(* RobotDevices for TLC, with the plugin's numbers: ticks of 10 ms, loops of *)
(* 50 and 10 Hz, 3 cells, 4 Ah, a breaker of 30 A at 0.112 Ohm, so that an   *)
(* ampere is 90 (a hundredth of a volt, times 2 * Scale, over 0.112).        *)
EXTENDS RobotDevices

\* Full ahead, and a slow reverse within the breaker.
MCCommands == {-1, 4}

\* 20 ms, and a pause that empties the battery at the greatest current.
MCDelays == {2, 22800}
MCCapacity == 4 * 3600 * 100 * 90
============================================================================
