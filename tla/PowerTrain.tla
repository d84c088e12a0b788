----------------------------- MODULE PowerTrain -----------------------------
(***************************************************************************)
(* The simulated power train: the battery, the motor controllers and       *)
(* motors of the drivetrain, and the linear actuators.                     *)
(*                                                                         *)
(* The world thread recharges, measures and discharges the battery in its  *)
(* fast and medium loops; the queue thread turns commands into motor       *)
(* velocities and actuator forces.  They share the members below without a *)
(* lock: a conversion reads a voltage three times while it may be written. *)
(*                                                                         *)
(* A command is -Scale .. Scale, the pulse width between its two ends.     *)
(* Voltages behind a motor controller count in 2 * Scale-ths of those      *)
(* before it, and the resistance of a motor is 1, so that currents and     *)
(* velocities are integers.  Undefined is a double nobody wrote.           *)
(***************************************************************************)
EXTENDS Integers, Sequences

CONSTANTS
  Commands,       \* pulse widths the drivetrain and the actuators are sent
  Scale,          \* the widest pulse
  Cells,          \* series_count of the battery
  Capacity,       \* capacity_rated, as current times ticks
  Breaker,        \* the motor voltage at which the circuit breaker limits
  BaseCurrent,    \* of the controllers, the IMUs, the encoders and the sonars
  Undefined, Idle

Sides == {"left", "right"}

ASSUME CommandsAssumption ==
  Scale \in Nat \ {0} /\ Commands \subseteq (0 - Scale) .. Scale
ASSUME PowerAssumption ==
  /\ Cells \in Nat \ {0} /\ Capacity \in Nat /\ Capacity >= 100
  /\ Breaker \in Nat /\ BaseCurrent \in Nat
  /\ Undefined \notin Int

VARIABLES
  charge,            \* capacity_remaining
  depleted,          \* battery_depleted
  controllerVoltage, \* battery_voltage of each side's motor controller
  actuatorVoltage,   \* current_voltage of the linear actuators
  targetForce,       \* target_force of the linear actuators
  motorCurrent,      \* current_consumed of each side's motor
  velocity,          \* what the joints of a side were set to
  drive              \* the drive command being converted, or Idle

batteryVars == <<charge, depleted>>
motorVars   == <<motorCurrent, velocity>>
powerVars   == <<batteryVars, motorVars, controllerVoltage, actuatorVoltage, targetForce, drive>>

\* Nothing gives a motor controller a voltage or a motor a current until they are
\* used; an actuator's are set to 0.
BatteryInit     == charge = Capacity /\ depleted = FALSE
ControllersInit == controllerVoltage = [s \in Sides |-> Undefined]
MotorsInit      == /\ motorCurrent = [s \in Sides |-> Undefined]
                   /\ velocity = [s \in Sides |-> 0]
ActuatorsInit   == actuatorVoltage = 0 /\ targetForce = 0

PowerInit ==
  BatteryInit /\ ControllersInit /\ MotorsInit /\ ActuatorsInit /\ drive = Idle

----------------------------------------------------------------------------
(* The battery, on the world thread *)

\* compute_voltage_from_stageofcharge, in hundredths of a volt: 3.9 V when full,
\* 3.5 V at 20 percent, 3.0 V when empty, and straight lines between them.
CellVoltage(c) ==
  IF c >= Capacity THEN 390
  ELSE LET percent == c \div (Capacity \div 100) IN
       IF percent >= 20 THEN 350 + (percent - 20) \div 2
       ELSE IF percent > 0 THEN 300 + (5 * percent) \div 2
       ELSE 300

FullVoltage == Cells * 390

\* get_voltage
Voltage(c, isDepleted) ==
  IF isDepleted THEN 0
  ELSE IF c = Undefined THEN Undefined ELSE Cells * CellVoltage(c)

\* Mutants of FastLoopPower: the battery is not recharged, or only after its
\* voltage was passed on.
FastLoopPowerNoRecharge(measured) ==
  /\ UNCHANGED batteryVars
  /\ controllerVoltage' = [s \in Sides |-> Voltage(charge, depleted)]
  /\ actuatorVoltage' = IF measured THEN Voltage(charge, depleted) ELSE actuatorVoltage
  /\ UNCHANGED <<motorVars, targetForce, drive>>
FastLoopPowerMeasuresFirst(measured) ==
  /\ charge' = Capacity /\ depleted' = FALSE
  /\ controllerVoltage' = [s \in Sides |-> Voltage(charge, depleted)]
  /\ actuatorVoltage' = IF measured THEN Voltage(charge, depleted) ELSE actuatorVoltage
  /\ UNCHANGED <<motorVars, targetForce, drive>>

\* The fast loop's part: recharge_complete, then the voltage is passed on; the
\* actuators are measured once the robot is initialized.
FastLoopPower(measured) ==
  /\ charge' = Capacity /\ depleted' = FALSE
  /\ controllerVoltage' = [s \in Sides |-> Voltage(charge', depleted')]
  /\ actuatorVoltage' = IF measured THEN Voltage(charge', depleted') ELSE actuatorVoltage
  /\ UNCHANGED <<motorVars, targetForce, drive>>

\* DEPLETED_THRESHOLD is 5 percent.
Threshold == Capacity \div 20

Drawn == BaseCurrent + motorCurrent["left"] + motorCurrent["right"]

\* A motor that never had a command draws a current nobody wrote.
DrawnIsDefined == \A s \in Sides : motorCurrent[s] # Undefined

\* The medium loop's part: update with what is drawn now, for dt ticks.
MediumLoopPower(dt) ==
  /\ \/ /\ ~ DrawnIsDefined \/ charge = Undefined
        /\ \/ charge' = Undefined /\ UNCHANGED depleted
           \/ charge' = Threshold /\ depleted' = TRUE
     \/ /\ DrawnIsDefined /\ charge # Undefined
        /\ LET left == charge - Drawn * dt IN
           \/ left >= Threshold /\ charge' = left /\ UNCHANGED depleted
           \/ left < Threshold /\ charge' = Threshold /\ depleted' = TRUE
  /\ UNCHANGED <<motorVars, controllerVoltage, actuatorVoltage, targetForce, drive>>

----------------------------------------------------------------------------
(* Commands, on the queue thread *)

\* MotorControllerModel::set_input reads battery_voltage twice for the slope and
\* once for the offset; a step ends with one reading.
ReceiveDrive(s, c) ==
  /\ drive = Idle
  /\ drive' = [side |-> s, command |-> c, read |-> <<controllerVoltage[s]>>]
  /\ UNCHANGED <<batteryVars, motorVars, controllerVoltage, actuatorVoltage, targetForce>>

ReadVoltage ==
  /\ drive # Idle /\ Len(drive.read) = 1
  /\ drive' = [drive EXCEPT !.read = Append(@, controllerVoltage[drive.side])]
  /\ UNCHANGED <<batteryVars, motorVars, controllerVoltage, actuatorVoltage, targetForce>>

Converted(b, c) == (b[1] + b[2]) * (c + Scale) - 2 * Scale * b[3]

\* MotorModel::set_input: the breaker limits the velocity both ways, and a motor
\* that is braked within the limit gives current back.
Limited(v) == IF v > Breaker THEN Breaker ELSE IF v < 0 - Breaker THEN 0 - Breaker ELSE v

Current(v) == IF v > Breaker \/ v < 0 - Breaker THEN Breaker ELSE v

\* The last reading, and the rest of drivetrain_left_cmd and drivetrain_right_cmd.
FinishDrive ==
  /\ drive # Idle /\ Len(drive.read) = 2
  /\ LET read == Append(drive.read, controllerVoltage[drive.side])
         v    == Converted(read, drive.command)
     IN  IF \E i \in 1 .. 3 : read[i] = Undefined
         THEN /\ velocity' = [velocity EXCEPT ![drive.side] = Undefined]
              /\ motorCurrent' = [motorCurrent EXCEPT ![drive.side] = Undefined]
         ELSE /\ velocity' = [velocity EXCEPT ![drive.side] = Limited(v)]
              /\ motorCurrent' = [motorCurrent EXCEPT ![drive.side] = Current(v)]
  /\ drive' = Idle
  /\ UNCHANGED <<batteryVars, controllerVoltage, actuatorVoltage, targetForce>>

\* set_targetpinvalue: the force is scaled by the voltage last measured.
ActuatorCommand(c) ==
  /\ drive = Idle
  /\ targetForce' = IF actuatorVoltage = Undefined THEN Undefined ELSE c * actuatorVoltage
  /\ UNCHANGED <<batteryVars, motorVars, controllerVoltage, actuatorVoltage, drive>>

----------------------------------------------------------------------------
(* Properties *)

Known(S) == S \union {Undefined}

PowerTypeOK ==
  /\ charge \in Known(Int) /\ depleted \in BOOLEAN
  /\ controllerVoltage \in [Sides -> Known(Int)]
  /\ actuatorVoltage \in Known(Int) /\ targetForce \in Known(Int)
  /\ motorCurrent \in [Sides -> Known(Int)] /\ velocity \in [Sides -> Known(Int)]
  /\ drive # Idle => /\ drive \in [side : Sides, command : Commands, read : Seq(Known(Int))]
                     /\ Len(drive.read) \in {1, 2}

\* Whatever the motors draw, no consumer ever sees anything but a full battery:
\* the fast loop recharges it before each time it is read.
NoConsumerSeesDepletion ==
  /\ \A s \in Sides : controllerVoltage[s] \in {Undefined, FullVoltage}
  /\ actuatorVoltage \in {0, FullVoltage}

\* The three readings of a conversion, between which the voltage can be written,
\* make a velocity that belongs to the command, or one nobody wrote; never a mix.
NoTornVelocity ==
  \A s \in Sides :
    velocity[s] \in {0, Undefined} \union {Limited(2 * c * FullVoltage) : c \in Commands}

\* A motor never draws more than its breaker lets through, or gives back more.
CurrentWithinBreaker ==
  \A s \in Sides :
    motorCurrent[s] = Undefined \/ (0 - Breaker <= motorCurrent[s] /\ motorCurrent[s] <= Breaker)
============================================================================
