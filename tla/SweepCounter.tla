---------------------------- MODULE SweepCounter ----------------------------
(***************************************************************************)
(* What the sensor arm's sweep promises the joint controllers: once the    *)
(* joints have settled on their combinations, the controllers see these    *)
(* one after the other, in a fixed order that starts again after the last  *)
(* one, and never stop.                                                    *)
(***************************************************************************)
EXTENDS Naturals

VARIABLES
  total,    \* how many combinations there are
  settled,  \* the controllers hold one of them
  count     \* its number

vars == <<total, settled, count>>

Init == total \in Nat \ {0} /\ settled = FALSE /\ count = 0

Settle == ~ settled /\ settled' = TRUE /\ count' \in 0 .. total - 1 /\ UNCHANGED total

Advance == settled /\ count' = (count + 1) % total /\ UNCHANGED <<total, settled>>

Next == Settle \/ Advance

Safety == Init /\ [][Next]_vars

Spec == Safety /\ WF_vars(Next)
============================================================================
