----------------------------- MODULE LoopTimer -----------------------------
(***************************************************************************)
(* What a SimpleTimer promises the loop it paces: every poll runs it or    *)
(* refuses it within the band, and tells it how long it has not run.       *)
(***************************************************************************)
EXTENDS LoopBand

VARIABLES
  since,   \* ticks since the loop last ran
  delta,   \* what it is told when it is polled: the ticks there were
  runs     \* how often it ran

loopVars == <<since, delta, runs>>

Init == since = 0 /\ delta = 0 /\ runs = 0

\* The two answers of a poll.
Run  == MayRun(since) /\ since' = 0 /\ delta' = since /\ runs' = runs + 1
Skip == ~ MustRun(since) /\ UNCHANGED since /\ delta' = since /\ UNCHANGED runs

\* The wall clock moves on, or is set back.
Pass == since' \in Int /\ UNCHANGED <<delta, runs>>

Restart == since' = 0 /\ UNCHANGED delta /\ runs' = 0

Next == Run \/ Skip \/ Pass \/ Restart

Spec == Init /\ [][Next]_loopVars
============================================================================
