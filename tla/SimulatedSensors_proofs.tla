----------------------- MODULE SimulatedSensors_proofs -----------------------
(***************************************************************************)
(* What the published means of the sensors are, however many calls are     *)
(* made and held, however far times go apart and are reset.                *)
(***************************************************************************)
EXTENDS SimulatedSensors, TLAPS

\* The first call of a sensor that counts from 0 measures every signal: no time an
\* IMU has seen is as late as the first that Gazebo measured.
FirstCallMeasures ==
  device # "truth" =>
    \A s \in DOMAIN signals :
      /\ signals[s].mean = Undefined => signals[s].status = "INITIALIZING"
      /\ signals[s].status = "INITIALIZING" => count = 0
      /\ signals[s].status = "INITIALIZING" /\ device = "imu" => lead[s] > 0

\* A signal has no more values than there were calls.
ValuesAreCounted == \A s \in DOMAIN signals : signals[s].used <= count

IInv == TypeOK /\ FirstCallMeasures /\ ValuesAreCounted /\ MeanIsBounded

----------------------------------------------------------------------------
(* Arithmetic *)

\* Squares are natural.
LEMMA SquareIsNatural ==
  ASSUME NEW v \in Int
  PROVE  v * v \in Nat /\ Scale * v * v \in Nat
<1>1. v * v \in Nat
  OBVIOUS
<1>2. Scale * v * v = Scale * (v * v)
  BY SensorsAssumption
<1> QED BY <1>1, <1>2, SensorsAssumption

\* Scaling keeps the order of squares.
LEMMA ScaleIsMonotonic ==
  ASSUME NEW v \in Int, NEW w \in Int, v * v <= w * w
  PROVE  Scale * v * v <= Scale * w * w
<1>1. Scale * v * v = Scale * (v * v) /\ Scale * w * w = Scale * (w * w)
  BY SensorsAssumption
<1>2. ASSUME NEW a \in Nat, NEW b \in Nat, NEW s \in Nat, a <= b PROVE s * a <= s * b
  BY <1>2
<1> QED BY <1>1, <1>2, SquareIsNatural, SensorsAssumption

\* A weighted average of two numbers is not above both of them.
LEMMA AverageIsBetween ==
  ASSUME NEW m \in Nat, NEW x \in Nat, NEW n \in Nat
  PROVE  LET r == (n * m + x) \div (n + 1)
         IN  r \in Nat /\ (r <= m \/ r <= x)
<1>1. n * m + x \in Nat /\ n + 1 \in Nat \ {0}
  OBVIOUS
<1>2. ASSUME NEW a \in Nat, NEW d \in Nat \ {0}
      PROVE  a \div d \in Nat /\ d * (a \div d) <= a
  BY <1>2
<1> DEFINE r == (n * m + x) \div (n + 1)
<1>3. r \in Nat /\ (n + 1) * r <= n * m + x
  BY <1>1, <1>2
<1> HIDE DEF r
<1>4. ASSUME r > m, r > x PROVE FALSE
  <2>1. n * r >= n * m
    BY <1>3, <1>4
  <2>2. (n + 1) * r = n * r + r
    BY <1>3
  <2>3. n * r \in Int /\ n * m \in Int
    BY <1>3
  <2> QED BY <1>3, <1>4, <2>1, <2>2, <2>3
<1>5. r <= m \/ r <= x
  BY <1>3, <1>4
<1> QED BY <1>3, <1>5 DEF r

----------------------------------------------------------------------------
(* A signal *)

\* A mean lies between nothing and a square that went into it.
Bounded(signal) ==
  signal.mean # Undefined =>
    /\ signal.mean >= 0
    /\ \E v \in Values : v * v <= signal.total /\ signal.mean <= Scale * v * v

\* A value that is measured leaves a bounded mean, which is defined if the one
\* before was, or if it is the first.
LEMMA SampleIsBounded ==
  ASSUME NEW signal \in Signals, Bounded(signal), count \in 0 .. MaxCount,
         signal.used <= count, NEW v \in Values
  PROVE  /\ Sampled(signal, v) \in Signals /\ Bounded(Sampled(signal, v))
         /\ Sampled(signal, v).status = "UPDATED"
         /\ Sampled(signal, v).used <= count + 1
         /\ count = MaxCount => Sampled(signal, v).used <= count
         /\ count = 0 \/ signal.mean # Undefined => Sampled(signal, v).mean # Undefined
<1> DEFINE new == Sampled(signal, v)
<1>0. /\ v \in Int /\ v * v \in Nat /\ Scale * v * v \in Nat /\ Undefined \notin Int
      /\ MaxCount \in Nat \ {0} /\ count \in Nat
  BY SquareIsNatural, SensorsAssumption
<1>1. CASE count = MaxCount
  BY <1>0, <1>1 DEF Sampled, Signals, Bounded
<1>2. CASE count # MaxCount
  <2>1. /\ new = [status |-> "UPDATED", mean |-> Averaged(signal.mean, v, count),
                  used |-> signal.used + 1, total |-> signal.total + v * v]
        /\ signal.used + 1 \in 0 .. MaxCount /\ signal.total + v * v \in Nat
    BY <1>0, <1>2 DEF Sampled, Signals
  <2>2. new.status = "UPDATED" /\ new.used <= count + 1
    BY <1>0, <2>1 DEF Signals
  <2>3. CASE count # 0 /\ signal.mean = Undefined
    <3>1. new.mean = Undefined
      BY <2>1, <2>3 DEF Averaged
    <3> QED BY <1>0, <1>2, <2>1, <2>3, <3>1 DEF Signals, Bounded, Averaged
  <2>4. CASE count = 0
    <3>1. new.mean = Scale * v * v /\ new.mean # Undefined
      BY <1>0, <2>1, <2>4 DEF Averaged
    <3>2. v * v <= new.total
      BY <1>0, <2>1 DEF Signals
    <3>3. Bounded(new)
      BY <1>0, <3>1, <3>2 DEF Bounded
    <3> HIDE DEF new
    <3>4. new \in Signals
      BY <1>0, <2>1, <3>1 DEF Signals
    <3> QED BY <1>2, <2>2, <3>1, <3>3, <3>4 DEF new
  <2>5. CASE count # 0 /\ signal.mean # Undefined
    <3>1. signal.mean \in Nat
      BY <2>5 DEF Signals
    <3>2. PICK w \in Values : w * w <= signal.total /\ signal.mean <= Scale * w * w
      BY <2>5 DEF Bounded
    <3>3. w \in Int /\ w * w \in Nat /\ Scale * w * w \in Nat
      BY SquareIsNatural, SensorsAssumption
    <3>4. new.mean = (count * signal.mean + Scale * v * v) \div (count + 1)
      BY <2>1, <2>5 DEF Averaged
    <3>5. new.mean \in Nat /\ (new.mean <= signal.mean \/ new.mean <= Scale * v * v)
      BY <1>0, <3>1, <3>4, AverageIsBetween
    <3>6. v * v <= new.total /\ w * w <= new.total
      BY <1>0, <2>1, <3>2, <3>3 DEF Signals
    <3> HIDE DEF new
    <3>7. new.mean <= Scale * v * v \/ new.mean <= Scale * w * w
      BY <1>0, <3>1, <3>2, <3>3, <3>5
    <3>8. Bounded(new)
      BY <1>0, <3>3, <3>5, <3>6, <3>7 DEF Bounded
    <3>9. new \in Signals
      BY <1>0, <2>1, <3>5 DEF Signals
    <3>10. new.mean # Undefined
      BY <1>0, <3>5
    <3> QED BY <1>2, <2>2, <3>8, <3>9, <3>10 DEF new
  <2> QED BY <2>3, <2>4, <2>5
<1> QED BY <1>1, <1>2

\* A signal that is held keeps its mean.
LEMMA HoldIsBounded ==
  ASSUME NEW signal \in Signals, Bounded(signal)
  PROVE  /\ Held(signal) \in Signals /\ Bounded(Held(signal))
         /\ Held(signal).status = "HOLD" /\ Held(signal).used = signal.used
         /\ Held(signal).mean = signal.mean
BY DEF Held, Signals, Bounded

----------------------------------------------------------------------------
(* The steps *)

\* A loaded robot's sensor satisfies the invariant.
LEMMA InitIInv == Init => IInv
<1> SUFFICES ASSUME Init PROVE IInv
  OBVIOUS
<1>0. /\ device \in Devices /\ count \in 0 .. MaxCount
      /\ device # "truth" => count = 0
  BY SensorsAssumption DEF Init, ImuInit, SonarInit, WheelEncoderInit, TruthInit, Devices
<1>1. NoSignal \in Signals
  BY SensorsAssumption DEF NoSignal, Signals
<1>2. TypeOK
  <2>1. signals \in [SignalsOf(device) -> Signals]
    BY <1>1 DEF Init
  <2>2. lead \in [ImuSignals -> (0 - MaxLead) .. MaxLead]
    BY SensorsAssumption DEF Init
  <2>3. resets \in 0 .. MaxResets
    BY SensorsAssumption DEF Init
  <2> QED BY <1>0, <2>1, <2>2, <2>3 DEF TypeOK
<1>3. DOMAIN signals = SignalsOf(device) /\ \A s \in DOMAIN signals : signals[s] = NoSignal
  BY DEF Init
<1>4. FirstCallMeasures
  BY <1>0, <1>3 DEF Init, FirstCallMeasures, NoSignal, SignalsOf
<1>5. ValuesAreCounted
  <2>1. count >= 0
    BY <1>2, SensorsAssumption DEF TypeOK
  <2> QED BY <1>3, <2>1 DEF ValuesAreCounted, NoSignal
<1>6. MeanIsBounded
  BY <1>3 DEF MeanIsBounded, NoSignal
<1> QED BY <1>2, <1>4, <1>5, <1>6 DEF IInv

\* A call that samples the signals of S, which are all of them if it is the first of
\* a sensor that counts from 0.
LEMMA UpdateKeepsSignals ==
  ASSUME IInv, NEW S, Update(S),
         device # "truth" =>
           \A s \in DOMAIN signals : signals[s].status = "INITIALIZING" => s \in S
  PROVE  /\ signals' \in [SignalsOf(device) -> Signals] /\ count' \in 0 .. MaxCount
         /\ ValuesAreCounted' /\ MeanIsBounded'
         /\ \A s \in DOMAIN signals :
              /\ signals'[s].status # "INITIALIZING"
              /\ device # "truth" => signals'[s].mean # Undefined
<1>1. PICK v \in [DOMAIN signals -> Values] :
        signals' = [s \in DOMAIN signals |->
                      IF s \in S THEN Sampled(signals[s], v[s]) ELSE Held(signals[s])]
  BY DEF Update
<1>2. /\ count' = IF count = MaxCount THEN count ELSE count + 1
      /\ count \in 0 .. MaxCount /\ count' \in 0 .. MaxCount
  BY SensorsAssumption DEF Update, IInv, TypeOK
<1>3. DOMAIN signals = SignalsOf(device) /\ DOMAIN signals' = SignalsOf(device)
  BY <1>1 DEF IInv, TypeOK
<1>4. ASSUME NEW s \in DOMAIN signals
      PROVE  /\ signals'[s] \in Signals /\ Bounded(signals'[s])
             /\ signals'[s].used <= count'
             /\ signals'[s].status # "INITIALIZING"
             /\ device # "truth" => signals'[s].mean # Undefined
  <2>1. /\ signals[s] \in Signals /\ Bounded(signals[s]) /\ signals[s].used <= count
        /\ v[s] \in Values
    BY DEF IInv, TypeOK, MeanIsBounded, Bounded, ValuesAreCounted
  <2>2. device # "truth" => (signals[s].mean = Undefined => count = 0 /\ s \in S)
    BY DEF IInv, FirstCallMeasures
  <2>3. CASE s \in S
    <3>1. signals'[s] = Sampled(signals[s], v[s])
      BY <1>1, <2>3
    <3>2. /\ Sampled(signals[s], v[s]) \in Signals /\ Bounded(Sampled(signals[s], v[s]))
          /\ Sampled(signals[s], v[s]).status = "UPDATED"
          /\ Sampled(signals[s], v[s]).used <= count + 1
          /\ count = MaxCount => Sampled(signals[s], v[s]).used <= count
          /\ count = 0 \/ signals[s].mean # Undefined => Sampled(signals[s], v[s]).mean # Undefined
      BY <1>2, <2>1, SampleIsBounded
    <3>3. Sampled(signals[s], v[s]).used <= count'
      BY <1>2, <3>2
    <3> QED BY <2>2, <3>1, <3>2, <3>3
  <2>4. CASE s \notin S
    <3>1. signals'[s] = Held(signals[s])
      BY <1>1, <2>4
    <3>2. /\ Held(signals[s]) \in Signals /\ Bounded(Held(signals[s]))
          /\ Held(signals[s]).status = "HOLD" /\ Held(signals[s]).used = signals[s].used
          /\ Held(signals[s]).mean = signals[s].mean
      BY <2>1, HoldIsBounded
    <3>3. signals[s].used <= count'
      <4>1. signals[s].used \in Int
        BY <2>1 DEF Signals
      <4> QED BY <1>2, <2>1, <4>1, SensorsAssumption
    <3> QED BY <2>2, <2>4, <3>1, <3>2, <3>3
  <2> QED BY <2>3, <2>4
<1>5. signals' \in [SignalsOf(device) -> Signals]
  BY <1>1, <1>3, <1>4
<1>6. MeanIsBounded' /\ ValuesAreCounted'
  BY <1>3, <1>4 DEF MeanIsBounded, Bounded, ValuesAreCounted
<1> QED BY <1>2, <1>4, <1>5, <1>6

\* After such a call the first call is over.
LEMMA UpdateKeepsIInv ==
  ASSUME IInv, NEW S, Update(S),
         device # "truth" =>
           \A s \in DOMAIN signals : signals[s].status = "INITIALIZING" => s \in S,
         lead' \in [ImuSignals -> (0 - MaxLead) .. MaxLead]
  PROVE  IInv'
<1>1. UNCHANGED <<device, resets>>
  BY DEF Update
<1>2. /\ signals' \in [SignalsOf(device) -> Signals] /\ count' \in 0 .. MaxCount
      /\ ValuesAreCounted' /\ MeanIsBounded'
      /\ \A s \in DOMAIN signals :
           /\ signals'[s].status # "INITIALIZING"
           /\ device # "truth" => signals'[s].mean # Undefined
  BY UpdateKeepsSignals
<1>3. TypeOK'
  BY <1>1, <1>2 DEF IInv, TypeOK
<1>4. FirstCallMeasures'
  BY <1>1, <1>2 DEF IInv, TypeOK, FirstCallMeasures
<1> QED BY <1>2, <1>3, <1>4 DEF IInv

\* Every call, measurement and reset keeps the invariant.
LEMMA NextIInv == IInv /\ [Next]_vars => IInv'
<1> SUFFICES ASSUME IInv, [Next]_vars PROVE IInv'
  OBVIOUS
<1>1. CASE UpdateTruth
  <2>1. lead' \in [ImuSignals -> (0 - MaxLead) .. MaxLead]
    BY <1>1 DEF UpdateTruth, IInv, TypeOK
  <2> QED BY <1>1, <2>1, UpdateKeepsIInv DEF UpdateTruth
<1>2. CASE UpdateWheelEncoder \/ UpdateSonar
  <2>1. /\ lead' \in [ImuSignals -> (0 - MaxLead) .. MaxLead]
        /\ Update({"value"}) /\ DOMAIN signals = {"value"}
    BY <1>2 DEF UpdateWheelEncoder, UpdateSonar, IInv, TypeOK, SignalsOf
  <2> QED BY <2>1, UpdateKeepsIInv
<1>3. CASE UpdateImu
  <2>1. lead' \in [ImuSignals -> (0 - MaxLead) .. MaxLead]
    BY <1>3, SensorsAssumption DEF UpdateImu, IInv, TypeOK
  <2>2. /\ Update({s \in ImuSignals : Newer(s)})
        /\ \A s \in DOMAIN signals :
             signals[s].status = "INITIALIZING" => s \in {t \in ImuSignals : Newer(t)}
    BY <1>3 DEF UpdateImu, Newer, IInv, FirstCallMeasures, TypeOK, SignalsOf
  <2> QED BY <2>1, <2>2, UpdateKeepsIInv
<1>4. ASSUME NEW s \in ImuSignals, GazeboMeasures(s) PROVE IInv'
  <2>1. UNCHANGED <<device, signals, count, resets>>
    BY <1>4 DEF GazeboMeasures
  <2>2. /\ lead' \in [ImuSignals -> (0 - MaxLead) .. MaxLead]
        /\ \A t \in ImuSignals : lead[t] > 0 => lead'[t] > 0
    BY <1>4, SensorsAssumption DEF GazeboMeasures, IInv, TypeOK
  <2>3. FirstCallMeasures'
    BY <2>1, <2>2 DEF IInv, TypeOK, FirstCallMeasures, SignalsOf
  <2> QED BY <2>1, <2>2, <2>3 DEF IInv, TypeOK, ValuesAreCounted, MeanIsBounded
<1>5. CASE ClockReset
  <2>1. UNCHANGED <<device, signals, count>> /\ device = "imu"
    BY <1>5 DEF ClockReset
  <2>2. /\ lead' \in [ImuSignals -> (0 - MaxLead) .. 1]
        /\ \A t \in ImuSignals : lead'[t] = 1 <=> signals[t].status = "INITIALIZING"
    BY <1>5 DEF ClockReset
  <2>3. lead' \in [ImuSignals -> (0 - MaxLead) .. MaxLead]
    BY <2>2, SensorsAssumption
  <2>4. FirstCallMeasures'
    BY <2>1, <2>2 DEF IInv, TypeOK, FirstCallMeasures, SignalsOf
  <2>5. resets' \in 0 .. MaxResets
    BY <1>5, SensorsAssumption DEF ClockReset, IInv, TypeOK
  <2> QED BY <2>1, <2>3, <2>4, <2>5 DEF IInv, TypeOK, ValuesAreCounted, MeanIsBounded
<1>6. CASE UNCHANGED vars
  BY <1>6 DEF vars, IInv, TypeOK, FirstCallMeasures, ValuesAreCounted, MeanIsBounded
<1> QED BY <1>1, <1>2, <1>3, <1>4, <1>5, <1>6 DEF Next, FastLoop, TwentyHzLoop

\* The inductive invariant holds of every behaviour.
THEOREM SensorInvariant == Spec => []IInv
BY InitIInv, NextIInv, PTL DEF Spec

----------------------------------------------------------------------------
(* The theorems *)

\* The signals of a sensor keep their types, for any values and number of calls.
THEOREM SensorIsTyped == Spec => []TypeOK
<1>1. IInv => TypeOK
  BY DEF IInv
<1> QED BY <1>1, SensorInvariant, PTL

\* Of all published rms only TruthSensor's can come from memory nobody wrote: the
\* first IMUSensor::update never holds.
THEOREM PublishedMeansAreDefined == Spec => []OnlyTruthIsUndefined
<1>1. IInv => OnlyTruthIsUndefined
  BY DEF IInv, FirstCallMeasures, OnlyTruthIsUndefined
<1> QED BY <1>1, SensorInvariant, PTL

\* What compute_rms corrects stays below a square it has seen, whatever calls an IMU
\* holds that share its update_count.
THEOREM MeansStayBounded == Spec => []MeanIsBounded
<1>1. IInv => MeanIsBounded
  BY DEF IInv
<1> QED BY <1>1, SensorInvariant, PTL
----------------------------------------------------------------------------
(* The mean as an average.  Means are kept in Scale-ths; what is proved of the *)
(* average needs a scale in which every quotient that is taken is exact, for   *)
(* which any common multiple of the counts that are followed will do.          *)

ScaleIsExact == \A n \in 1 .. MaxCount : Scale % n = 0

\* A signal into which nothing went has no squares.
NothingIsNothing == \A s \in DOMAIN signals : signals[s].used = 0 => signals[s].total = 0

\* The mean of a signal that every call sampled, when there were n.
Average(signal, n) ==
  signal.mean # Undefined /\ signal.used = n => signal.mean * n = Scale * signal.total

AverageInv == NothingIsNothing /\ MeanIsAverage

\* Correcting the average of n squares by an (n + 1)-th gives that of n + 1.
LEMMA CorrectionIsExact ==
  ASSUME NEW m \in Nat, NEW t \in Nat, NEW x \in Nat, NEW n \in Nat,
         Scale % (n + 1) = 0, m * n = Scale * t
  PROVE  ((n * m + Scale * x) \div (n + 1)) * (n + 1) = Scale * (t + x)
<1> DEFINE q == Scale \div (n + 1)
<1>1. ASSUME NEW a \in Nat, NEW d \in Nat \ {0}, a % d = 0
      PROVE  a \div d \in Nat /\ a = (a \div d) * d
  BY <1>1
<1>2. q \in Nat /\ Scale = q * (n + 1)
  BY <1>1, SensorsAssumption
<1> HIDE DEF q
<1>3. n * m + Scale * x = Scale * (t + x)
  <2>1. Scale * (t + x) = Scale * t + Scale * x
    BY SensorsAssumption
  <2>2. n * m = m * n
    OBVIOUS
  <2> QED BY <2>1, <2>2
<1>4. Scale * (t + x) = (q * (t + x)) * (n + 1)
  <2>1. Scale * (t + x) = (q * (n + 1)) * (t + x)
    BY <1>2
  <2>2. (q * (n + 1)) * (t + x) = (q * (t + x)) * (n + 1)
    BY <1>2
  <2> QED BY <2>1, <2>2
<1>5. ASSUME NEW p \in Nat, NEW d \in Nat \ {0} PROVE (p * d) \div d = p
  OBVIOUS
<1>6. (Scale * (t + x)) \div (n + 1) = q * (t + x)
  <2>1. q * (t + x) \in Nat /\ n + 1 \in Nat \ {0}
    BY <1>2
  <2> QED BY <1>4, <1>5, <2>1
<1> QED BY <1>3, <1>4, <1>6

\* A value that is measured makes the average of n squares one of n + 1.
LEMMA SampleIsAverage ==
  ASSUME ScaleIsExact, NEW signal \in Signals, NEW v \in Values, count \in 0 .. MaxCount,
         signal.used <= count, signal.used = 0 => signal.total = 0, Average(signal, count)
  PROVE  /\ Average(Sampled(signal, v), IF count = MaxCount THEN count ELSE count + 1)
         /\ Sampled(signal, v).used = 0 => Sampled(signal, v).total = 0
<1> DEFINE new == Sampled(signal, v)
<1>0. /\ v \in Int /\ v * v \in Nat /\ Scale * v * v = Scale * (v * v) /\ Undefined \notin Int
      /\ MaxCount \in Nat \ {0} /\ count \in Nat /\ Scale \in Nat
      /\ signal.used \in Nat /\ signal.total \in Nat
  BY SquareIsNatural, SensorsAssumption DEF Signals
<1>1. CASE count = MaxCount
  <2>1. new.mean = signal.mean /\ new.used = signal.used /\ new.total = signal.total
    BY <1>1 DEF Sampled, Signals
  <2> QED BY <1>1, <2>1 DEF Average
<1>2. CASE count # MaxCount
  <2>1. /\ new.mean = Averaged(signal.mean, v, count)
        /\ new.used = signal.used + 1 /\ new.total = signal.total + v * v
    BY <1>2 DEF Sampled
  <2> HIDE DEF new
  <2>2. ASSUME new.mean # Undefined, new.used = count + 1
        PROVE  new.mean * (count + 1) = Scale * new.total
    <3>1. signal.used = count
      BY <1>0, <2>1, <2>2
    <3>2. CASE count = 0
      <4>1. new.mean = Scale * (v * v) /\ new.total = v * v
        BY <1>0, <2>1, <3>1, <3>2 DEF Averaged
      <4>2. Scale * (v * v) \in Nat
        BY <1>0
      <4> QED BY <3>2, <4>1, <4>2
    <3>3. CASE count # 0
      <4>1. signal.mean # Undefined /\ signal.mean \in Nat
        BY <2>1, <2>2, <3>3 DEF Averaged, Signals
      <4>2. new.mean = (count * signal.mean + Scale * (v * v)) \div (count + 1)
        BY <1>0, <2>1, <3>3, <4>1 DEF Averaged
      <4>3. signal.mean * count = Scale * signal.total
        BY <3>1, <4>1 DEF Average
      <4>4. Scale % (count + 1) = 0
        BY <1>0, <1>2 DEF ScaleIsExact
      <4>5. ((count * signal.mean + Scale * (v * v)) \div (count + 1)) * (count + 1)
              = Scale * (signal.total + v * v)
        <5>1. signal.mean \in Nat /\ signal.total \in Nat /\ v * v \in Nat /\ count \in Nat
          BY <1>0, <4>1
        <5> QED BY <4>3, <4>4, <5>1, CorrectionIsExact, SMTT(30)
      <4> QED BY <2>1, <4>2, <4>5
    <3> QED BY <3>2, <3>3
  <2>3. new.used # 0
    BY <1>0, <2>1
  <2> QED BY <1>2, <2>2, <2>3 DEF Average, new
<1> QED BY <1>1, <1>2

\* A call keeps the averages: a signal that it holds has fewer values than calls.
LEMMA UpdateKeepsAverages ==
  ASSUME ScaleIsExact, IInv, AverageInv, NEW S, Update(S)
  PROVE  AverageInv'
<1>1. PICK v \in [DOMAIN signals -> Values] :
        signals' = [s \in DOMAIN signals |->
                      IF s \in S THEN Sampled(signals[s], v[s]) ELSE Held(signals[s])]
  BY DEF Update
<1>2. /\ count' = IF count = MaxCount THEN count ELSE count + 1
      /\ count \in 0 .. MaxCount /\ MaxCount \in Nat
  BY SensorsAssumption DEF Update, IInv, TypeOK
<1>3. ASSUME NEW s \in DOMAIN signals
      PROVE  /\ Average(signals'[s], count')
             /\ signals'[s].used = 0 => signals'[s].total = 0
  <2>1. /\ signals[s] \in Signals /\ signals[s].used <= count /\ v[s] \in Values
        /\ signals[s].used = 0 => signals[s].total = 0
        /\ Average(signals[s], count)
    BY DEF IInv, TypeOK, ValuesAreCounted, AverageInv, NothingIsNothing, MeanIsAverage, Average
  <2>2. CASE s \in S
    <3>1. signals'[s] = Sampled(signals[s], v[s])
      BY <1>1, <2>2
    <3> QED BY <1>2, <2>1, <3>1, SampleIsAverage
  <2>3. CASE s \notin S
    <3>1. signals'[s] = Held(signals[s])
      BY <1>1, <2>3
    <3>2. /\ signals'[s].mean = signals[s].mean /\ signals'[s].used = signals[s].used
          /\ signals'[s].total = signals[s].total /\ signals[s].used \in Nat
      BY <2>1, <3>1 DEF Held, Signals
    <3>3. signals[s].used = count' => count' = count
      BY <1>2, <2>1, <3>2
    <3> QED BY <2>1, <3>2, <3>3 DEF Average
  <2> QED BY <2>2, <2>3
<1>4. DOMAIN signals' = DOMAIN signals
  BY <1>1
<1> QED BY <1>3, <1>4 DEF AverageInv, NothingIsNothing, MeanIsAverage, Average

\* A sensor of which every call was sampled publishes the root of the average of the
\* squares, in any scale that is exact and for any number of calls it allows for:
\* compute_rms, one value at a time, is the mean of all of them.
THEOREM MeansAreAverages ==
  ASSUME ScaleIsExact
  PROVE  Spec => []MeanIsAverage
<1>1. Init => AverageInv
  BY DEF Init, NoSignal, AverageInv, NothingIsNothing, MeanIsAverage
<1>2. IInv /\ AverageInv /\ [Next]_vars => AverageInv'
  <2> SUFFICES ASSUME IInv, AverageInv, [Next]_vars PROVE AverageInv'
    OBVIOUS
  <2>1. CASE FastLoop \/ TwentyHzLoop
    BY <2>1, UpdateKeepsAverages
    DEF FastLoop, TwentyHzLoop, UpdateTruth, UpdateImu, UpdateWheelEncoder, UpdateSonar
  <2>2. CASE ~ (FastLoop \/ TwentyHzLoop)
    <3>1. UNCHANGED <<signals, count>>
      BY <2>2 DEF Next, ClockReset, GazeboMeasures, vars
    <3> QED BY <3>1 DEF AverageInv, NothingIsNothing, MeanIsAverage
  <2> QED BY <2>1, <2>2
<1>3. AverageInv => MeanIsAverage
  BY DEF AverageInv
<1> QED BY <1>1, <1>2, <1>3, SensorInvariant, PTL DEF Spec
=============================================================================
