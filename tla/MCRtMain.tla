------------------------------ MODULE MCRtMain ------------------------------
(* RtMain for TLC: two slower rates whose periods are no multiples of each    *)
(* other, so that each can be due alone, with the other and while one runs.   *)
EXTENDS RtMain

MCCounterLimit == (1 :> 2) @@ (2 :> 3)
============================================================================
