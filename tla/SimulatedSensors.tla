-------------------------- MODULE SimulatedSensors --------------------------
(***************************************************************************)
(* One of the simulated sensors of a loaded robot: an IMU with its         *)
(* magnetometer, the truth pose, a wheel encoder or a sonar.  They share   *)
(* nothing, so that one is followed at a time.  Each call of a sensor's    *)
(* update counts; the mean of the squares of what was measured, whose root *)
(* is published as the signal's rms, is corrected by a share of the new    *)
(* square that the count gives.                                            *)
(*                                                                         *)
(* The IMU alone asks whether Gazebo has measured since it last did: it    *)
(* holds a signal that is not newer, but counts the call all the same.     *)
(* Time matters only as the lead of Gazebo's last measurement over the     *)
(* last one the IMU has seen.  Signals with several axes are one.          *)
(***************************************************************************)
EXTENDS Integers

CONSTANTS
  Values,       \* what is measured
  MaxCount,     \* bound: calls after which a mean is not followed any more
  MaxLead,      \* bound: how far times can be apart
  MaxResets,    \* bound: resets of simulated time
  Scale,        \* means are kept in Scale-ths: exactly, where MaxCount! divides it
  Undefined

ASSUME SensorsAssumption ==
  /\ Values \subseteq Int /\ Undefined \notin Int
  /\ MaxCount \in Nat \ {0} /\ MaxLead \in Nat \ {0} /\ MaxResets \in Nat
  /\ Scale \in Nat \ {0}

Devices    == {"imu", "truth", "wheel", "sonar"}
ImuSignals == {"motion", "field"}
SignalsOf(d) == IF d = "imu" THEN ImuSignals ELSE {"value"}

VARIABLES
  device,    \* the sensor that is followed; never changes
  signals,   \* its signals
  count,     \* its update_count
  lead,      \* per signal of an IMU: Gazebo's time minus the time seen
  resets

vars == <<device, signals, count, lead, resets>>

\* A signal: its status, the mean of squares, and, for the properties only, the
\* number of values that went into it and the sum of their squares.
NoSignal == [status |-> "INITIALIZING", mean |-> Undefined, used |-> 0, total |-> 0]

\* The sensors are initialized with a count of 0.  TruthSensor has no init: its
\* update_count is what the memory held.
ImuInit          == device = "imu" /\ count = 0
SonarInit        == device = "sonar" /\ count = 0
WheelEncoderInit == device = "wheel" /\ count = 0
TruthInit        == device = "truth" /\ count \in 0 .. MaxCount

\* Gazebo's times start at 0, those an IMU has seen at -1.
Init ==
  /\ ImuInit \/ SonarInit \/ WheelEncoderInit \/ TruthInit
  /\ signals = [s \in SignalsOf(device) |-> NoSignal]
  /\ lead = [s \in ImuSignals |-> 1]
  /\ resets = 0

----------------------------------------------------------------------------
(* A call of update *)

\* Mutant of Averaged: the correction has the wrong sign.
AveragedAway(mean, v, n) ==
  IF n = 0 THEN Scale * v * v
  ELSE IF mean = Undefined THEN Undefined
  ELSE ((n + 2) * mean - Scale * v * v) \div (n + 1)

\* compute_rms: mean += v^2 / (n + 1) - mean / (n + 1)
Averaged(mean, v, n) ==
  IF n = 0 THEN Scale * v * v
  ELSE IF mean = Undefined THEN Undefined
  ELSE (n * mean + Scale * v * v) \div (n + 1)

Sampled(signal, v) ==
  IF count = MaxCount THEN [signal EXCEPT !.status = "UPDATED"]
  ELSE [status |-> "UPDATED", mean |-> Averaged(signal.mean, v, count),
        used |-> signal.used + 1, total |-> signal.total + v * v]

Held(signal) == [signal EXCEPT !.status = "HOLD"]

\* A call that samples the signals of S and holds the others.
Update(S) ==
  /\ \E v \in [DOMAIN signals -> Values] :
       signals' = [s \in DOMAIN signals |->
                     IF s \in S THEN Sampled(signals[s], v[s]) ELSE Held(signals[s])]
  /\ count' = IF count = MaxCount THEN count ELSE count + 1
  /\ UNCHANGED <<device, resets>>

UpdateTruth        == device = "truth" /\ Update({"value"}) /\ UNCHANGED lead
UpdateWheelEncoder == device = "wheel" /\ Update({"value"}) /\ UNCHANGED lead
UpdateSonar        == device = "sonar" /\ Update({"value"}) /\ UNCHANGED lead

\* Mutants of Newer: the times seen start at 0; a hold is for ever.
NewerThanZero(s) == lead[s] > 1
NewerUnheld(s)   == lead[s] > 0 /\ signals[s].status # "HOLD"

Newer(s) == lead[s] > 0

\* The two signals share the count, which goes up for one that is held, too.
UpdateImu ==
  /\ device = "imu"
  /\ Update({s \in ImuSignals : Newer(s)})
  /\ lead' = [s \in ImuSignals |-> IF Newer(s) THEN 0 ELSE lead[s]]

FastLoop     == UpdateTruth \/ UpdateImu \/ UpdateWheelEncoder
TwentyHzLoop == UpdateSonar

----------------------------------------------------------------------------
(* Gazebo *)

\* A sensor of Gazebo measures.
GazeboMeasures(s) ==
  /\ device = "imu"
  /\ lead[s] < MaxLead /\ lead' = [lead EXCEPT ![s] = @ + 1]
  /\ UNCHANGED <<device, signals, count, resets>>

\* Simulated time starts again at 0; the IMU keeps the times it has seen.
ClockReset ==
  /\ device = "imu"
  /\ resets < MaxResets /\ resets' = resets + 1
  /\ lead' \in {l \in [ImuSignals -> (0 - MaxLead) .. 1] :
                  \A s \in ImuSignals : l[s] = 1 <=> signals[s].status = "INITIALIZING"}
  /\ UNCHANGED <<device, signals, count>>

Next ==
  \/ FastLoop \/ TwentyHzLoop
  \/ ClockReset \/ \E s \in ImuSignals : GazeboMeasures(s)

\* The fast loop goes on running, and Gazebo's sensors go on measuring.
Fairness == WF_vars(FastLoop) /\ \A s \in ImuSignals : WF_vars(GazeboMeasures(s))

Spec == Init /\ [][Next]_vars /\ Fairness

----------------------------------------------------------------------------
(* Properties *)

Signals == [status : {"INITIALIZING", "UPDATED", "HOLD"}, mean : Nat \union {Undefined},
            used : 0 .. MaxCount, total : Nat]

TypeOK ==
  /\ device \in Devices /\ signals \in [SignalsOf(device) -> Signals]
  /\ count \in 0 .. MaxCount
  /\ lead \in [ImuSignals -> (0 - MaxLead) .. MaxLead]
  /\ resets \in 0 .. MaxResets

\* No signal that was published has an rms computed from memory nobody wrote, the
\* truth pose excepted: however the calls, the measurements and the resets
\* interleave, the first call of an IMU never holds.
OnlyTruthIsUndefined ==
  \A s \in DOMAIN signals :
    signals[s].status # "INITIALIZING" /\ signals[s].mean = Undefined => device = "truth"

\* As long as no call was held, the mean is the average of the squares.
MeanIsAverage ==
  \A s \in DOMAIN signals :
    /\ signals[s].mean # Undefined /\ signals[s].used = count
    => signals[s].mean * count = Scale * signals[s].total

\* With calls held, when the weights are no longer equal, the mean still lies
\* between nothing and a square that was measured.
MeanIsBounded ==
  \A s \in DOMAIN signals :
    signals[s].mean # Undefined =>
      /\ signals[s].mean >= 0
      /\ \E v \in Values : v * v <= signals[s].total /\ signals[s].mean <= Scale * v * v

\* A signal is not held for ever, after a reset of simulated time either.
HoldEnds ==
  LET Is(s, status) == s \in DOMAIN signals /\ signals[s].status = status
  IN  \A s \in ImuSignals : Is(s, "HOLD") ~> Is(s, "UPDATED")
============================================================================
