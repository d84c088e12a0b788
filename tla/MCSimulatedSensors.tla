------------------------- MODULE MCSimulatedSensors -------------------------
(* SimulatedSensors for TLC: a value at rest and one in motion, enough calls *)
(* for a mean of four squares.                                               *)
EXTENDS SimulatedSensors

MCValues == {0, 2}
============================================================================
