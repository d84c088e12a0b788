------------------------- MODULE SimpleTimer_proofs -------------------------
(* Proofs about SimpleTimer, for every rate, every pace of the world and     *)
(* every behaviour of the rate controller.                                   *)
EXTENDS SimpleTimer, TLAPS

\* What the invariants rest on: the time of the last run is not before the start
\* of the timer, a timer that has run is not at its start, and a disabled one has
\* not run.
Started ==
  /\ since <= elapsed
  /\ counter > 0 => elapsed > 0
  /\ enabled => targetRate > 0
  /\ ~ enabled => counter = 0

IInv == TypeOK /\ Started /\ SetRateNearTarget /\ RunsAreBounded

\* The integers a rate stays between when it is within 20 percent of the target.
LEMMA BandBounds ==
  ASSUME NEW t \in Int, NEW r \in Int, 5 * Abs(t - r) < t
  PROVE  4 * t < 5 * r /\ 5 * r < 6 * t /\ r > 0
<1>1. CASE t - r < 0
  BY <1>1 DEF Abs
<1>2. CASE ~ (t - r < 0)
  BY <1>2 DEF Abs
<1> QED BY <1>1, <1>2

\* The rate set_targetrate starts with, 1.1 times the target, is in the band.
LEMMA FirstRateInBand ==
  ASSUME NEW t \in Int, t % 10 = 0, t > 0
  PROVE  (11 * t) \div 10 \in Int /\ 5 * Abs(t - (11 * t) \div 10) < t
<1> DEFINE k == t \div 10
           r == (11 * t) \div 10
<1>1. k \in Int /\ t = 10 * k /\ k > 0
  OBVIOUS
<1>2. r \in Int /\ r = 11 * k
  BY <1>1
<1>3. t - r < 0 /\ Abs(t - r) = k
  BY <1>1, <1>2 DEF Abs
<1> QED BY <1>1, <1>2, <1>3

\* A loop that is due has waited for more than 1/1.2 of a period.
LEMMA DueIsLongEnough ==
  ASSUME NEW t \in Int, NEW r \in Int, NEW s \in Int,
         r > 0, 5 * r < 6 * t, s * r > Unit
  PROVE  s > 0 /\ 6 * t * s > 5 * Unit
<1>0. Unit \in Nat
  BY RatesAssumption
<1>1. s > 0
  <2>1. SUFFICES ASSUME s <= 0 PROVE FALSE
    OBVIOUS
  <2>2. (0 - s) * r >= 0
    BY <2>1
  <2>3. (0 - s) * r = 0 - s * r
    OBVIOUS
  <2> QED BY <1>0, <2>2, <2>3
<1>2. (6 * t - 5 * r) * s >= 0
  BY <1>1
<1>3. (6 * t - 5 * r) * s = 6 * t * s - 5 * (s * r)
  OBVIOUS
<1> QED BY <1>0, <1>1, <1>2, <1>3

\* A loop that is not due has waited for less than 1/0.8 of a period.
LEMMA NotDueIsShortEnough ==
  ASSUME NEW t \in Int, NEW r \in Int, NEW s \in Int,
         t > 0, 4 * t < 5 * r, ~ (s * r > Unit)
  PROVE  4 * t * s < 5 * Unit
<1>0. Unit \in Nat /\ Unit > 0
  BY RatesAssumption
<1>1. CASE s <= 0
  <2>1. 4 * t * (0 - s) >= 0
    BY <1>1
  <2>2. 4 * t * (0 - s) = 0 - 4 * t * s
    OBVIOUS
  <2> QED BY <1>0, <2>1, <2>2
<1>2. CASE s > 0
  <2>1. (5 * r - 4 * t) * s > 0
    BY <1>2
  <2>2. (5 * r - 4 * t) * s = 5 * (s * r) - 4 * t * s
    OBVIOUS
  <2> QED BY <1>0, <2>1, <2>2
<1> QED BY <1>1, <1>2

\* The rate the timers are given is a multiple of 10 units.
LEMMA ReducedType == Reduced \in Int /\ Reduced % 10 = 0
BY RatesAssumption DEF Reduced

\* The invariant holds when the timer is constructed.
LEMMA InitIInv == Init => IInv
<1> SUFFICES ASSUME Init PROVE IInv
  OBVIOUS
<1>1. elapsed \in Nat /\ since \in Int /\ dt \in Int /\ counter \in Nat
      /\ setRate \in Int /\ cumError \in Int /\ lastError \in Int /\ jumps \in 0 .. MaxJumps
  BY TimeAssumption DEF Init
<1>2. enabled \in BOOLEAN /\ targetRate \in {-1, Reduced} /\ checked \in BOOLEAN /\ ~ enabled
  BY DEF Init
<1> QED BY <1>1, <1>2 DEF Init, IInv, TypeOK, Started, SetRateNearTarget, RunsAreBounded

\* The clock moves on by any of the delays.
LEMMA TimePassesIInv == IInv /\ TimePasses => IInv'
<1> SUFFICES ASSUME IInv, TimePasses PROVE IInv'
  OBVIOUS
<1>1. PICK d \in Delays : elapsed' = elapsed + d /\ since' = since + d
  BY DEF TimePasses
<1>2. d \in Nat /\ elapsed \in Nat /\ since \in Int
  BY TimeAssumption DEF IInv, TypeOK
<1>3. elapsed' - since' = elapsed - since
  BY <1>1, <1>2
<1>4. RunsAreBounded'
  BY <1>3 DEF IInv, RunsAreBounded, TimePasses, rateVars
<1>5. SetRateNearTarget'
  BY DEF IInv, SetRateNearTarget, TimePasses, rateVars, Abs
<1>6. TypeOK'
  <2>1. elapsed' \in Nat /\ since' \in Int
    BY <1>1, <1>2
  <2> QED BY <2>1 DEF IInv, TypeOK, TimePasses, rateVars
<1>7. Started'
  BY <1>1, <1>2 DEF IInv, Started, TimePasses, rateVars
<1> QED BY <1>4, <1>5, <1>6, <1>7 DEF IInv

\* The clock is set back: the time of the last run moves with it.
LEMMA ClockSetBackIInv == IInv /\ ClockSetBack => IInv'
BY TimeAssumption
DEF IInv, TypeOK, Started, SetRateNearTarget, RunsAreBounded, ClockSetBack,
    rateVars, errorVars, Abs

\* The target rate is set before the loop has run.
LEMMA SetTargetRateIInv == IInv /\ SetTargetRate => IInv'
<1> SUFFICES ASSUME IInv, SetTargetRate PROVE IInv'
  OBVIOUS
<1>1. ~ enabled /\ counter = 0
  BY DEF IInv, TypeOK, Started, SetTargetRate
<1>2. setRate' \in Int
  BY ReducedType DEF SetTargetRate
<1>3. CASE Reduced > 0
  <2>1. 5 * Abs(Reduced - setRate') < Reduced
    BY <1>3, ReducedType, FirstRateInBand DEF SetTargetRate
  <2>2. setRate' > 0
    BY <1>2, <2>1, ReducedType, BandBounds
  <2>3. SetRateNearTarget'
    BY <2>1 DEF SetRateNearTarget, SetTargetRate, Abs
  <2>4. RunsAreBounded'
    <3>1. elapsed - since \in Nat
      BY DEF IInv, TypeOK, Started
    <3>2. 6 * Reduced * (elapsed - since) >= 0
      BY <1>3, <3>1, ReducedType
    <3> QED BY <1>1, <3>2, RatesAssumption DEF RunsAreBounded, SetTargetRate
  <2> QED BY <1>1, <1>2, <1>3, <2>2, <2>3, <2>4, ReducedType
          DEF IInv, TypeOK, Started, SetTargetRate
<1>4. CASE ~ (Reduced > 0)
  BY <1>1, <1>2, <1>4, ReducedType
  DEF IInv, TypeOK, Started, SetRateNearTarget, RunsAreBounded, SetTargetRate
<1> QED BY <1>3, <1>4

\* A loop that is due, by the band of its rate, has waited long enough for one
\* more run.
LEMMA RunLoopIInv == IInv /\ RunLoop => IInv'
<1> SUFFICES ASSUME IInv, RunLoop PROVE IInv'
  OBVIOUS
<1>1. CASE ~ enabled
  BY <1>1 DEF IInv, TypeOK, Started, SetRateNearTarget, RunsAreBounded, RunLoop,
              rateVars, errorVars, Abs
<1>2. CASE enabled /\ ~ Due
  BY <1>2 DEF IInv, TypeOK, Started, SetRateNearTarget, RunsAreBounded, RunLoop,
              rateVars, errorVars, Abs
<1>3. CASE enabled /\ Due
  <2>1. PICK d \in ReadDelays : elapsed' = elapsed + d
    BY <1>3 DEF RunLoop
  <2>2. d \in Nat /\ elapsed \in Nat /\ since \in Int /\ counter \in Nat /\ since <= elapsed
        /\ targetRate \in Int /\ setRate \in Int /\ targetRate > 0
    BY <1>3, TimeAssumption DEF IInv, TypeOK, Started
  <2>3. counter' = counter + 1 /\ since' = 0 /\ dt' = since
        /\ UNCHANGED <<rateVars, errorVars, jumps>>
    BY <1>3 DEF RunLoop
  <2>4. since > 0 /\ 6 * targetRate * since > 5 * Unit
    BY <1>3, <2>2, BandBounds, DueIsLongEnough DEF IInv, SetRateNearTarget, Due
  <2>5. RunsAreBounded'
    <3> DEFINE before == elapsed - since
    <3>1. 5 * Unit * counter <= 6 * targetRate * before
      BY <1>3 DEF IInv, RunsAreBounded
    <3>2. 5 * Unit * (counter + 1) = 5 * Unit * counter + 5 * Unit
      BY <2>2, RatesAssumption
    <3>3. 6 * targetRate * (elapsed + d) =
            6 * targetRate * before + 6 * targetRate * since + 6 * targetRate * d
      BY <2>2
    <3>4. 6 * targetRate * d >= 0
      BY <2>2
    <3>5. 5 * Unit * (counter + 1) <= 6 * targetRate * (elapsed + d)
      <4> HIDE DEF before
      <4>1. before \in Int
        BY <2>2 DEF before
      <4>2. /\ 5 * Unit * counter \in Int /\ 6 * targetRate * before \in Int
            /\ 6 * targetRate * since \in Int /\ 6 * targetRate * d \in Int /\ 5 * Unit \in Int
        BY <2>2, <4>1, RatesAssumption
      <4> QED BY <2>4, <3>1, <3>2, <3>3, <3>4, <4>2
    <3> QED BY <2>1, <2>2, <2>3, <3>5 DEF RunsAreBounded, rateVars
  <2>6. TypeOK' /\ Started'
    BY <1>3, <2>1, <2>2, <2>3, <2>4 DEF IInv, TypeOK, Started, rateVars, errorVars
  <2>7. SetRateNearTarget'
    BY <2>3 DEF IInv, SetRateNearTarget, rateVars, errorVars, Abs
  <2> QED BY <2>5, <2>6, <2>7 DEF IInv
<1> QED BY <1>1, <1>2, <1>3

\* The controller changes the rate only into one of the band.
LEMMA CheckLoopRateIInv == IInv /\ CheckLoopRate => IInv'
<1> SUFFICES ASSUME IInv, CheckLoopRate PROVE IInv'
  OBVIOUS
<1>0. UNCHANGED <<elapsed, since, dt, counter, enabled, targetRate, jumps>> /\ checked' = TRUE
  BY DEF CheckLoopRate, rateVars
<1>1. CASE counter < WarmUpRuns
  BY <1>0, <1>1 DEF IInv, TypeOK, Started, SetRateNearTarget, RunsAreBounded,
                    CheckLoopRate, Abs
<1>2. CASE ~ (counter < WarmUpRuns)
  <2> DEFINE error == targetRate - ActualRate
             rate  == targetRate + 5 * error + cumError' - (error - lastError)
  <2>1. enabled /\ elapsed > 0
    BY <1>2, RatesAssumption DEF IInv, TypeOK, Started
  <2>2. error \in Int
    BY <2>1, RatesAssumption DEF IInv, TypeOK, ActualRate
  <2>3. cumError' = cumError + error /\ lastError' = error
        /\ setRate' = IF Accepted(rate) THEN rate ELSE setRate
    BY <1>2 DEF CheckLoopRate
  <2>4. rate \in Int
    BY <2>2, <2>3 DEF IInv, TypeOK
  <2> HIDE DEF error, rate
  <2>5. 5 * Abs(targetRate - setRate') < targetRate /\ setRate' \in Int
    <3>1. CASE Accepted(rate)
      <4>1. targetRate \in Int /\ targetRate > 0 /\ setRate' = rate
        BY <2>1, <2>3, <3>1 DEF IInv, TypeOK, Started
      <4> QED BY <2>4, <3>1, <4>1 DEF Accepted, Abs
    <3>2. CASE ~ Accepted(rate)
      BY <2>1, <2>3, <3>2 DEF IInv, TypeOK, SetRateNearTarget
    <3> QED BY <3>1, <3>2
  <2>6. setRate' > 0
    BY <2>5, BandBounds DEF IInv, TypeOK
  <2>7. TypeOK' /\ Started'
    BY <1>0, <2>1, <2>2, <2>3, <2>5, <2>6 DEF IInv, TypeOK, Started
  <2>8. SetRateNearTarget'
    BY <1>0, <2>5 DEF SetRateNearTarget, Abs
  <2>9. RunsAreBounded'
    BY <1>0 DEF IInv, RunsAreBounded
  <2> QED BY <2>7, <2>8, <2>9 DEF IInv
<1> QED BY <1>1, <1>2

\* reset starts the count and the time anew.
LEMMA ResetIInv == IInv /\ Reset => IInv'
<1> SUFFICES ASSUME IInv, Reset PROVE IInv'
  OBVIOUS
<1>1. RunsAreBounded'
  BY RatesAssumption DEF RunsAreBounded, Reset, rateVars, IInv, TypeOK
<1>2. SetRateNearTarget'
  BY DEF IInv, SetRateNearTarget, Reset, rateVars, errorVars, Abs
<1>3. TypeOK' /\ Started'
  BY TimeAssumption DEF IInv, TypeOK, Started, Reset, rateVars, errorVars
<1> QED BY <1>1, <1>2, <1>3 DEF IInv

\* The invariant is inductive.
LEMMA NextIInv == IInv /\ [Next]_vars => IInv'
<1> SUFFICES ASSUME IInv, [Next]_vars PROVE IInv'
  OBVIOUS
<1>1. CASE UNCHANGED vars
  BY <1>1 DEF IInv, TypeOK, Started, SetRateNearTarget, RunsAreBounded, vars,
              rateVars, errorVars, Abs
<1> QED BY <1>1, TimePassesIInv, ClockSetBackIInv, SetTargetRateIInv, RunLoopIInv,
           CheckLoopRateIInv, ResetIInv DEF Next

\* The invariant holds in every reachable state.
LEMMA Invariance == Spec => []IInv
BY InitIInv, NextIInv, PTL DEF Spec

\* The timer's variables have their types, and a rate in use is positive, so that
\* no loop is paced by a negative or infinite period.
THEOREM TypeCorrect == Spec => []TypeOK
BY Invariance, PTL DEF IInv

\* Whatever integral the controller has wound up, the rate in use is within 20
\* percent of the target.
THEOREM RateStaysNearTarget == Spec => []SetRateNearTarget
BY Invariance, PTL DEF IInv

\* A loop has never run more often than 1.2 times its target rate allows.
THEOREM RunsStayBounded == Spec => []RunsAreBounded
BY Invariance, PTL DEF IInv

\* A step of the timer is one that LoopTimer allows.
LEMMA StepImplements == IInv /\ [Next]_vars => [Loop!Next]_(Loop!loopVars)
<1> SUFFICES ASSUME IInv, [Next]_vars PROVE [Loop!Next]_(Loop!loopVars)
  OBVIOUS
<1>0. USE DEF Loop!loopVars
<1>1. CASE TimePasses \/ ClockSetBack
  BY <1>1, TimeAssumption
  DEF TimePasses, ClockSetBack, IInv, TypeOK, Loop!Next, Loop!Pass
<1>2. CASE SetTargetRate \/ CheckLoopRate \/ UNCHANGED vars
  BY <1>2 DEF SetTargetRate, CheckLoopRate, vars
<1>3. CASE Reset
  BY <1>3 DEF Reset, Loop!Next, Loop!Restart
<1>4. CASE RunLoop
  <2>1. CASE ~ enabled
    BY <1>4, <2>1 DEF RunLoop
  <2>2. ASSUME enabled
        PROVE  /\ Reduced \in Int /\ Reduced > 0 /\ setRate \in Int /\ since \in Int
               /\ 4 * Reduced < 5 * setRate /\ 5 * setRate < 6 * Reduced /\ setRate > 0
    <3>1. targetRate = Reduced /\ targetRate > 0 /\ setRate \in Int /\ since \in Int
      BY <2>2 DEF IInv, TypeOK, Started
    <3>2. 5 * Abs(Reduced - setRate) < Reduced
      BY <2>2, <3>1 DEF IInv, SetRateNearTarget
    <3> QED BY <3>1, <3>2, ReducedType, BandBounds
  <2>3. CASE enabled /\ Due
    <3>1. Loop!MayRun(since)
      BY <2>2, <2>3, DueIsLongEnough DEF Due, Loop!MayRun
    <3> QED BY <1>4, <2>3, <3>1 DEF RunLoop, Loop!Next, Loop!Run
  <2>4. CASE enabled /\ ~ Due
    <3>1. ~ Loop!MustRun(since)
      <4>1. 4 * Reduced * since < 5 * Unit
        BY <2>2, <2>4, NotDueIsShortEnough DEF Due
      <4>2. 4 * Reduced * since \in Int /\ 5 * Unit \in Int
        BY <2>2, <2>4, RatesAssumption
      <4> QED BY <4>1, <4>2 DEF Loop!MustRun
    <3> QED BY <1>4, <2>4, <3>1 DEF RunLoop, Loop!Next, Loop!Skip
  <2> QED BY <2>1, <2>3, <2>4
<1> QED BY <1>1, <1>2, <1>3, <1>4 DEF Next

\* SimpleTimer implements LoopTimer: no poll runs the loop too soon or refuses it
\* too late, for every rate and every behaviour of the clock.
THEOREM Implementation == Spec => ImplementsLoopTimer
<1>1. Init => Loop!Init
  BY DEF Init, Loop!Init
<1> QED BY <1>1, StepImplements, Invariance, PTL DEF Spec, ImplementsLoopTimer, Loop!Spec
=============================================================================
