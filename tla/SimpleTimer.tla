---------------------------- MODULE SimpleTimer ----------------------------
(***************************************************************************)
(* The timer of one loop of the plugin.  It is polled by every update of   *)
(* the world, says when the loop is due, and adjusts the rate it does so   *)
(* at with a controller that the medium loop calls.                        *)
(*                                                                         *)
(* Time is the wall clock, in ticks; rates are integers in units fine      *)
(* enough for Unit = ticks per second times units per Hz.  The clock can   *)
(* be set back; the world can be paused, which delays the next poll.       *)
(***************************************************************************)
EXTENDS Integers

CONSTANTS
  Unit,         \* rate times ticks that make one period
  MaxRate,      \* MAX_LOOPRATE
  Rate,         \* argument of set_targetrate
  WarmUpRuns,   \* runs before the rate is controlled: 10
  Delays,       \* ticks that pass between two updates of the world
  ReadDelays,   \* ticks between the two readings of the clock in run_loop
  MaxTime,      \* bound: the ticks after which nothing is polled any more
  MaxJumps      \* bound: how often the clock is set back or the timer reset

ASSUME RatesAssumption ==
  /\ Unit \in Nat \ {0} /\ WarmUpRuns \in Nat \ {0}
  /\ MaxRate \in Nat \ {0} /\ MaxRate % 10 = 0
  /\ Rate \in Int /\ Rate % 10 = 0
ASSUME TimeAssumption ==
  Delays \subseteq Nat /\ ReadDelays \subseteq Nat /\ MaxTime \in Nat /\ MaxJumps \in Nat

VARIABLES
  elapsed,      \* time since m_startTime
  since,        \* time since m_lastTime
  dt, counter,
  enabled, targetRate, setRate,
  cumError, lastError,
  checked,      \* check_looprate was called since the clock last moved
  jumps         \* how often the clock was set back or the timer reset

rateVars  == <<enabled, targetRate>>
errorVars == <<setRate, cumError, lastError, checked>>
vars == <<elapsed, since, dt, counter, rateVars, errorVars, jumps>>

Init ==
  /\ elapsed = 0 /\ since = 0 /\ dt = 0 /\ counter = 0
  /\ enabled = FALSE /\ targetRate = -1 /\ setRate = -1
  /\ cumError = 0 /\ lastError = 0
  /\ checked = FALSE /\ jumps = 0

----------------------------------------------------------------------------
(* The clock *)

TimePasses ==
  /\ elapsed < MaxTime
  /\ \E d \in Delays : elapsed' = elapsed + d /\ since' = since + d
  /\ checked' = FALSE
  /\ UNCHANGED <<dt, counter, rateVars, setRate, cumError, lastError, jumps>>

\* Not back beyond the start of the process, where no loop has run yet.
ClockSetBack ==
  /\ jumps < MaxJumps
  /\ jumps' = jumps + 1
  /\ \E d \in Delays : elapsed > d /\ elapsed' = elapsed - d /\ since' = since - d
  /\ UNCHANGED <<dt, counter, rateVars, errorVars>>

----------------------------------------------------------------------------
(* The operations *)

Reduced == IF Rate > MaxRate THEN MaxRate ELSE Rate

\* set_targetrate, called once for each timer, at the end of Load.
SetTargetRate ==
  /\ targetRate = -1
  /\ targetRate' = Reduced
  /\ setRate' = (11 * Reduced) \div 10
  /\ enabled' = (Reduced > 0)
  /\ UNCHANGED <<elapsed, since, dt, counter, cumError, lastError, checked, jumps>>

\* Mutant of Due: the delta of the last poll is compared.
DueBefore == dt * setRate > Unit

\* dt > 1.0 / set_rate
Due == since * setRate > Unit

\* Mutant of RunLoop: m_lastTime is not read again.
RunLoopKeepsLast ==
  /\ IF ~ enabled THEN UNCHANGED <<elapsed, since, dt, counter>>
     ELSE /\ dt' = since
          /\ IF Due THEN counter' = counter + 1 /\ UNCHANGED <<elapsed, since>>
                    ELSE UNCHANGED <<elapsed, since, counter>>
  /\ UNCHANGED <<rateVars, errorVars, jumps>>

\* run_loop.  The clock is read again for m_lastTime, some time later.
RunLoop ==
  /\ IF ~ enabled THEN UNCHANGED <<elapsed, since, dt, counter>>
     ELSE /\ dt' = since
          /\ IF Due
             THEN /\ counter' = counter + 1
                  /\ \E d \in ReadDelays : elapsed' = elapsed + d
                  /\ since' = 0
             ELSE UNCHANGED <<elapsed, since, counter>>
  /\ UNCHANGED <<rateVars, errorVars, jumps>>

Abs(x) == IF x < 0 THEN -x ELSE x

ActualRate == (counter * Unit) \div elapsed

\* Mutant of Accepted: a correction of any size is accepted.
AcceptedAlways(rate) == TRUE

\* A correction of 20 percent or more is not made.
Accepted(rate) == 5 * Abs(targetRate - rate) < Abs(targetRate)

\* check_looprate.  Its proportional, integral and derivative parts; the
\* integral grows also while the corrections are refused, and is never reset.
CheckLoopRate ==
  /\ ~ checked /\ checked' = TRUE
  /\ IF counter < WarmUpRuns THEN UNCHANGED <<setRate, cumError, lastError>>
     ELSE LET error == targetRate - ActualRate
              rate  == targetRate + 5 * error + cumError' - (error - lastError)
          IN  /\ cumError' = cumError + error
              /\ lastError' = error
              /\ setRate' = IF Accepted(rate) THEN rate ELSE setRate
  /\ UNCHANGED <<elapsed, since, dt, counter, rateVars, jumps>>

\* reset.  The plugin does not call it.
Reset ==
  /\ jumps < MaxJumps /\ jumps' = jumps + 1
  /\ counter' = 0 /\ elapsed' = 0 /\ since' = 0
  /\ UNCHANGED <<dt, rateVars, errorVars>>

Next == \/ TimePasses \/ ClockSetBack
        \/ SetTargetRate \/ RunLoop \/ CheckLoopRate \/ Reset

Spec == Init /\ [][Next]_vars

----------------------------------------------------------------------------
(* Properties *)

TypeOK ==
  /\ elapsed \in Nat /\ since \in Int /\ dt \in Int /\ counter \in Nat
  /\ enabled \in BOOLEAN /\ targetRate \in {-1, Reduced}
  /\ setRate \in Int /\ (enabled => setRate > 0)
  /\ cumError \in Int /\ lastError \in Int
  /\ checked \in BOOLEAN /\ jumps \in 0 .. MaxJumps

\* However long the loop was late and however far its integral has wound up,
\* the rate it is run at stays within 20 percent of the one asked for.
SetRateNearTarget == enabled => 5 * Abs(targetRate - setRate) < targetRate

\* A loop has not run more often than 1.2 times its target rate allows for the
\* time up to its last run: pauses are not made up for by a burst of runs, and a
\* clock that is set back does not make the loop run faster.
RunsAreBounded == enabled => 5 * Unit * counter <= 6 * targetRate * (elapsed - since)

(* Refinement *)

Loop == INSTANCE LoopTimer
          WITH Target <- Reduced, delta <- dt, runs <- counter

\* Every poll answers as LoopTimer allows: no run before 1/1.2 of a period, no
\* refusal after 1/0.8 of one, whatever the controller made of the rate.
ImplementsLoopTimer == Loop!Spec
============================================================================
