------------------------- MODULE MCNodeDiagnostics -------------------------
(* NodeDiagnostics for TLC: the periods are 2, 4 and 8 ticks, so that a sleep *)
(* of 3 ticks can make the 1 Hz loop due together with the 10 Hz loop.        *)
EXTENDS NodeDiagnostics

MCJitters == {-1, 1}
============================================================================
