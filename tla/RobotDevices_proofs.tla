------------------------ MODULE RobotDevices_proofs ------------------------
(***************************************************************************)
(* Theorems about RobotDevices.  The argument: a battery that is not full  *)
(* was not recharged since the medium loop last ran, so that the fast loop *)
(* has waited at least as long as the medium one (FreshBeforeMedium); the  *)
(* band of its timer does not allow that when the medium loop is due.      *)
(***************************************************************************)
EXTENDS RobotDevices, TLAPS

\* What a conversion has read so far.
ReadsAreFull ==
  drive # Idle => \A i \in 1 .. Len(drive.read) : drive.read[i] \in {Undefined, FullVoltage}

\* A battery that is not full has not been recharged since the medium loop ran.
FreshBeforeMedium ==
  /\ charge # Capacity => fastSince >= mediumSince
  /\ worldPc = "medium" => ~ Fast!MustRun(fastSince)

\* Only the joint that is being pressed has a command its control group lacks.
OthersAreHandedOn == \A j \in Joints : press # j => input[j] = command[j]

PowerInv  == /\ PowerTypeOK /\ NoConsumerSeesDepletion /\ NoTornVelocity
             /\ CurrentWithinBreaker /\ ForceIsOfFullVoltage /\ ReadsAreFull
CameraInv == CameraTypeOK /\ SetpointsWithinLimits /\ OthersAreHandedOn
ClockInv  == /\ worldPc \in {"pass", "fast", "medium"}
             /\ fastSince \in Nat /\ mediumSince \in Nat /\ robotInitialized \in BOOLEAN
             /\ FreshBeforeMedium

IInv == PowerInv /\ CameraInv /\ ClockInv

----------------------------------------------------------------------------
(* Arithmetic *)

\* The line through the two ends of the pulse width, at a voltage that does not
\* change, is proportional to the command.
LEMMA ConvertedIsProportional ==
  ASSUME NEW f \in Int, NEW c \in Int, NEW s \in Int
  PROVE  (f + f) * (c + s) - 2 * s * f = 2 * c * f
<1>1. (f + f) * (c + s) = 2 * (f * c) + 2 * (f * s)
  OBVIOUS
<1>2. 2 * s * f = 2 * (f * s) /\ 2 * c * f = 2 * (f * c)
  OBVIOUS
<1>3. f * c \in Int /\ f * s \in Int
  OBVIOUS
<1> QED BY <1>1, <1>2, <1>3

\* What is drawn in a time grows with the current.
LEMMA MoreIsDrawn ==
  ASSUME NEW a \in Int, NEW b \in Int, NEW t \in Nat, a <= b
  PROVE  a * t <= b * t
OBVIOUS

\* The bands of the two timers: a medium loop that may run has waited too long
\* for a fast loop that has waited as long to be refused.
LEMMA FastComesFirst ==
  ASSUME NEW f \in Nat, NEW m \in Nat, Medium!MayRun(m), f >= m
  PROVE  Fast!MustRun(f)
<1>1. 2 * FastRate * f >= 2 * FastRate * m
  BY MoreIsDrawn, RatesAssumption
<1>2. 2 * FastRate * m >= 3 * MediumRate * m
  BY RatesAssumption
<1>3. 6 * MediumRate * m > 5 * Unit
  BY DEF Medium!MayRun
<1>4. /\ 6 * MediumRate * m = 2 * (3 * MediumRate * m)
      /\ 4 * FastRate * f = 2 * (2 * FastRate * f)
  BY RatesAssumption
<1>5. 3 * MediumRate * m \in Int /\ 2 * FastRate * f \in Int /\ 2 * FastRate * m \in Int /\ Unit \in Int
  BY RatesAssumption
<1>6. 4 * FastRate * f >= 5 * Unit
  BY <1>1, <1>2, <1>3, <1>4, <1>5
<1> QED BY <1>6 DEF Fast!MustRun

\* A battery that was just recharged has its full voltage.
LEMMA FullBattery == Voltage(Capacity, FALSE) = FullVoltage
<1>1. Capacity \in Int /\ Capacity # Undefined
  BY PowerAssumption
<1> QED BY <1>1 DEF Voltage, CellVoltage, FullVoltage

\* The velocity and the current of a motor stay within the breaker's limits.
LEMMA BreakerLimits ==
  ASSUME NEW v \in Int
  PROVE  /\ Limited(v) \in Int /\ Current(v) \in Int
         /\ 0 - Breaker <= Current(v) /\ Current(v) <= Breaker
BY PowerAssumption DEF Limited, Current

----------------------------------------------------------------------------
(* The invariant holds initially *)

\* The loaded robot satisfies the invariant.
LEMMA InitIInv == Init => IInv
<1> SUFFICES ASSUME Init PROVE IInv
  OBVIOUS
<1> USE DEF Init
<1>1. PowerTypeOK
  <2>1. Capacity \in Known(Int) /\ 0 \in Known(Int) /\ Undefined \in Known(Int)
    BY PowerAssumption DEF Known
  <2> QED BY <2>1 DEF PowerInit, BatteryInit, ControllersInit, MotorsInit, ActuatorsInit, PowerTypeOK
<1>2. NoConsumerSeesDepletion /\ CurrentWithinBreaker /\ ForceIsOfFullVoltage /\ ReadsAreFull
  BY DEF PowerInit, BatteryInit, ControllersInit, MotorsInit, ActuatorsInit, NoConsumerSeesDepletion,
         CurrentWithinBreaker, ForceIsOfFullVoltage, ReadsAreFull
<1>3. NoTornVelocity
  BY DEF PowerInit, BatteryInit, ControllersInit, MotorsInit, ActuatorsInit, NoTornVelocity
<1>4. CameraInv
  BY JointsAssumption
  DEF CameraInit, CameraInv, CameraTypeOK, SetpointsWithinLimits, OthersAreHandedOn
<1>5. ClockInv
  BY DEF PowerInit, BatteryInit, ControllersInit, MotorsInit, ActuatorsInit, ClockInv, FreshBeforeMedium
<1> QED BY <1>1, <1>2, <1>3, <1>4, <1>5 DEF IInv, PowerInv

----------------------------------------------------------------------------
(* The power train *)

\* The fast loop passes the voltage of a full battery on.
LEMMA FastLoopPowerInv ==
  ASSUME PowerInv, NEW measured \in BOOLEAN, FastLoopPower(measured)
  PROVE  PowerInv' /\ charge' = Capacity /\ depleted' = FALSE
<1> USE DEF PowerInv, FastLoopPower
<1>1. Voltage(charge', depleted') = FullVoltage
  BY FullBattery
<1>2. FullVoltage \in Int /\ Capacity \in Int
  BY PowerAssumption DEF FullVoltage
<1>3. PowerTypeOK'
  BY <1>1, <1>2 DEF PowerTypeOK, Known, motorVars
<1>4. NoConsumerSeesDepletion'
  BY <1>1 DEF NoConsumerSeesDepletion
<1>5. NoTornVelocity' /\ CurrentWithinBreaker' /\ ForceIsOfFullVoltage'
  BY DEF NoTornVelocity, CurrentWithinBreaker, ForceIsOfFullVoltage, motorVars
<1>6. ReadsAreFull'
  BY DEF ReadsAreFull
<1> QED BY <1>3, <1>4, <1>5, <1>6

\* The medium loop changes the charge only.
LEMMA MediumLoopPowerInv ==
  ASSUME PowerInv, NEW dt \in Nat, MediumLoopPower(dt)
  PROVE  PowerInv'
<1> USE DEF PowerInv, MediumLoopPower
<1>1. UNCHANGED <<motorVars, controllerVoltage, actuatorVoltage, targetForce, drive>>
  OBVIOUS
<1>2. Threshold \in Int
  BY PowerAssumption DEF Threshold
<1>3. charge' \in Known(Int) /\ depleted' \in BOOLEAN
  <2>1. CASE ~ DrawnIsDefined \/ charge = Undefined
    BY <2>1, <1>2 DEF PowerTypeOK, Known
  <2>2. CASE DrawnIsDefined /\ charge # Undefined
    <3>1. charge \in Int /\ Drawn \in Int
      BY <2>2, PowerAssumption DEF PowerTypeOK, Known, DrawnIsDefined, Drawn, Sides
    <3>2. charge - Drawn * dt \in Int
      BY <3>1
    <3> QED BY <2>2, <3>2, <1>2 DEF PowerTypeOK, Known
  <2> QED BY <2>1, <2>2
<1>4. PowerTypeOK'
  BY <1>1, <1>3 DEF PowerTypeOK, motorVars
<1>5. NoConsumerSeesDepletion' /\ NoTornVelocity' /\ CurrentWithinBreaker' /\ ForceIsOfFullVoltage'
  BY <1>1 DEF NoConsumerSeesDepletion, NoTornVelocity, CurrentWithinBreaker,
              ForceIsOfFullVoltage, motorVars
<1>6. ReadsAreFull'
  BY <1>1 DEF ReadsAreFull
<1> QED BY <1>4, <1>5, <1>6

\* A reading of a controller's voltage is of a full battery, or of nothing.
LEMMA ReadingIsFull ==
  ASSUME PowerInv, NEW s \in Sides
  PROVE  controllerVoltage[s] \in {Undefined, FullVoltage} /\ controllerVoltage[s] \in Known(Int)
BY DEF PowerInv, NoConsumerSeesDepletion, PowerTypeOK

\* A drive command starts its reads with what its controller holds.
LEMMA ReceiveDriveInv ==
  ASSUME PowerInv, NEW s \in Sides, NEW c \in Commands, ReceiveDrive(s, c)
  PROVE  PowerInv'
<1> USE DEF PowerInv, ReceiveDrive
<1>1. drive'.read = <<controllerVoltage[s]>> /\ drive'.side = s /\ drive'.command = c
  OBVIOUS
<1>2. PowerTypeOK'
  <2>1. <<controllerVoltage[s]>> \in Seq(Known(Int)) /\ Len(<<controllerVoltage[s]>>) = 1
    BY ReadingIsFull
  <2> QED BY <1>1, <2>1 DEF PowerTypeOK, batteryVars, motorVars
<1>3. ReadsAreFull'
  BY <1>1, ReadingIsFull DEF ReadsAreFull, FullVoltage
<1>4. NoConsumerSeesDepletion' /\ NoTornVelocity' /\ CurrentWithinBreaker' /\ ForceIsOfFullVoltage'
  BY DEF NoConsumerSeesDepletion, NoTornVelocity, CurrentWithinBreaker,
         ForceIsOfFullVoltage, motorVars
<1> QED BY <1>2, <1>3, <1>4

\* Another read adds a voltage of the battery that the fast loop wrote.
LEMMA ReadVoltageInv ==
  ASSUME PowerInv, ReadVoltage
  PROVE  PowerInv'
<1> USE DEF PowerInv, ReadVoltage
<1> DEFINE b == controllerVoltage[drive.side]
<1>1. /\ drive \in [side : Sides, command : Commands, read : Seq(Known(Int))]
      /\ drive' = [drive EXCEPT !.read = Append(@, b)]
      /\ Len(drive.read) = 1
  BY DEF PowerTypeOK
<1>2. b \in {Undefined, FullVoltage} /\ b \in Known(Int)
  BY <1>1, ReadingIsFull
<1>3. drive'.read = Append(drive.read, b)
  BY <1>1
<1>4. Append(drive.read, b) \in Seq(Known(Int)) /\ Len(Append(drive.read, b)) = 2
  BY <1>1, <1>2
<1>5. drive' \in [side : Sides, command : Commands, read : Seq(Known(Int))] /\ Len(drive'.read) = 2
  BY <1>1, <1>3, <1>4
<1>6. PowerTypeOK'
  BY <1>5 DEF PowerTypeOK, batteryVars, motorVars
<1>7. ReadsAreFull'
  <2>1. drive.read[1] \in {Undefined, FullVoltage}
    BY <1>1 DEF ReadsAreFull
  <2>2. Append(drive.read, b)[1] = drive.read[1] /\ Append(drive.read, b)[2] = b
    BY <1>1, <1>2
  <2> QED BY <1>2, <1>3, <1>4, <2>1, <2>2 DEF ReadsAreFull
<1>8. NoConsumerSeesDepletion' /\ NoTornVelocity' /\ CurrentWithinBreaker' /\ ForceIsOfFullVoltage'
  BY DEF NoConsumerSeesDepletion, NoTornVelocity, CurrentWithinBreaker,
         ForceIsOfFullVoltage, motorVars
<1> QED BY <1>6, <1>7, <1>8

\* What a conversion computes from readings that are all of a full battery.
LEMMA FinishDriveInv ==
  ASSUME PowerInv, FinishDrive
  PROVE  PowerInv'
<1> USE DEF PowerInv, FinishDrive
<1> DEFINE s == drive.side
           c == drive.command
           read == Append(drive.read, controllerVoltage[s])
           v == Converted(read, c)
<1>1. /\ drive \in [side : Sides, command : Commands, read : Seq(Known(Int))]
      /\ Len(drive.read) = 2
  BY DEF PowerTypeOK
<1>2. s \in Sides /\ c \in Commands /\ c \in Int /\ Scale \in Int /\ FullVoltage \in Int
  <2>1. s \in Sides /\ c \in Commands
    BY <1>1
  <2> HIDE DEF c
  <2> QED BY <2>1, CommandsAssumption, PowerAssumption DEF FullVoltage
<1>3. \A i \in 1 .. 3 : read[i] \in {Undefined, FullVoltage}
  <2>1. drive.read[1] \in {Undefined, FullVoltage} /\ drive.read[2] \in {Undefined, FullVoltage}
    BY <1>1 DEF ReadsAreFull
  <2>2. controllerVoltage[s] \in {Undefined, FullVoltage} /\ controllerVoltage[s] \in Known(Int)
    BY <1>2, ReadingIsFull
  <2>3. /\ read[1] = drive.read[1] /\ read[2] = drive.read[2]
        /\ read[3] = controllerVoltage[s]
    BY <1>1, <2>2
  <2> QED BY <2>1, <2>2, <2>3
<1>4. UNCHANGED <<batteryVars, controllerVoltage, actuatorVoltage, targetForce>> /\ drive' = Idle
  OBVIOUS
<1>5. CASE \E i \in 1 .. 3 : read[i] = Undefined
  <2>1. /\ velocity' = [velocity EXCEPT ![s] = Undefined]
        /\ motorCurrent' = [motorCurrent EXCEPT ![s] = Undefined]
    BY <1>5
  <2>2. PowerTypeOK'
    BY <1>2, <1>4, <2>1 DEF PowerTypeOK, Known, batteryVars
  <2>3. NoTornVelocity' /\ CurrentWithinBreaker'
    BY <1>2, <2>1 DEF NoTornVelocity, CurrentWithinBreaker, PowerTypeOK
  <2> QED BY <1>4, <2>2, <2>3
          DEF NoConsumerSeesDepletion, ForceIsOfFullVoltage, ReadsAreFull
<1>6. CASE ~ \E i \in 1 .. 3 : read[i] = Undefined
  <2>1. /\ velocity' = [velocity EXCEPT ![s] = Limited(v)]
        /\ motorCurrent' = [motorCurrent EXCEPT ![s] = Current(v)]
    BY <1>6
  <2>2. v = 2 * c * FullVoltage
    <3>1. read[1] = FullVoltage /\ read[2] = FullVoltage /\ read[3] = FullVoltage
      BY <1>3, <1>6
    <3>2. v = (FullVoltage + FullVoltage) * (c + Scale) - 2 * Scale * FullVoltage
      BY <3>1 DEF Converted
    <3> HIDE DEF v, c
    <3> QED BY <1>2, <3>2, ConvertedIsProportional
  <2>3. v \in Int
    BY <1>2, <2>2
  <2>4. /\ Limited(v) \in Int /\ Current(v) \in Int
        /\ 0 - Breaker <= Current(v) /\ Current(v) <= Breaker
    BY <2>3, BreakerLimits
  <2>5. PowerTypeOK'
    BY <1>2, <1>4, <2>1, <2>4 DEF PowerTypeOK, Known, batteryVars
  <2>6. NoTornVelocity'
    BY <1>2, <2>1, <2>2 DEF NoTornVelocity, PowerTypeOK
  <2>7. CurrentWithinBreaker'
    BY <1>2, <2>1, <2>4 DEF CurrentWithinBreaker, PowerTypeOK
  <2> QED BY <1>4, <2>5, <2>6, <2>7
          DEF NoConsumerSeesDepletion, ForceIsOfFullVoltage, ReadsAreFull
<1> QED BY <1>5, <1>6

\* A command makes a force of the voltage that the actuator holds.
LEMMA ActuatorCommandInv ==
  ASSUME PowerInv, NEW c \in Commands, ActuatorCommand(c)
  PROVE  PowerInv'
<1> USE DEF PowerInv, ActuatorCommand
<1>1. c \in Int /\ FullVoltage \in Int /\ Undefined \notin Int
  BY CommandsAssumption, PowerAssumption DEF FullVoltage
<1>2. targetForce' = c * actuatorVoltage
  BY <1>1 DEF NoConsumerSeesDepletion
<1>3. targetForce' = 0 \/ targetForce' = c * FullVoltage
  BY <1>1, <1>2 DEF NoConsumerSeesDepletion
<1>4. ForceIsOfFullVoltage'
  BY <1>3 DEF ForceIsOfFullVoltage
<1>5. PowerTypeOK'
  BY <1>1, <1>3 DEF PowerTypeOK, Known, batteryVars, motorVars
<1> QED BY <1>4, <1>5 DEF NoConsumerSeesDepletion, NoTornVelocity, CurrentWithinBreaker,
                          ReadsAreFull, motorVars

----------------------------------------------------------------------------
(* The camera *)

\* A button moves a command beyond its limits by one step at most.
LEMMA BeginPressInv ==
  ASSUME CameraInv, NEW j \in Joints, NEW d \in {-1, 1}, BeginPress(j, d)
  PROVE  CameraInv'
<1> USE DEF CameraInv, BeginPress
<1>1. CameraTypeOK'
  BY DEF CameraTypeOK
<1>2. SetpointsWithinLimits'
  BY DEF SetpointsWithinLimits
<1>3. OthersAreHandedOn'
  BY JointsAssumption DEF OthersAreHandedOn, CameraTypeOK
<1> QED BY <1>1, <1>2, <1>3

\* The end of a button clamps the command it moved.
LEMMA EndPressInv ==
  ASSUME CameraInv, EndPress
  PROVE  CameraInv'
<1> USE DEF CameraInv, EndPress
<1> DEFINE clamped == IF command[press] > Limit THEN Limit
                      ELSE IF command[press] < -Limit THEN -Limit ELSE command[press]
<1>1. /\ press \in Joints /\ command[press] \in Int
      /\ command' = [command EXCEPT ![press] = clamped]
      /\ input' = [input EXCEPT ![press] = command'[press]]
  BY DEF CameraTypeOK
<1>2. clamped \in Int /\ clamped \in (0 - Limit) .. Limit
  BY <1>1, JointsAssumption
<1> HIDE DEF clamped
<1>3. command'[press] = clamped
  BY <1>1 DEF CameraTypeOK
<1>4. CameraTypeOK'
  BY <1>1, <1>2, <1>3 DEF CameraTypeOK
<1>5. SetpointsWithinLimits'
  BY <1>1, <1>2, <1>3 DEF SetpointsWithinLimits, CameraTypeOK
<1>6. OthersAreHandedOn'
  BY <1>1, <1>3 DEF OthersAreHandedOn, CameraTypeOK
<1> QED BY <1>4, <1>5, <1>6

\* The camera hands on what is commanded of the joint that is not pressed.
LEMMA UpdateCameraInv ==
  ASSUME CameraInv, UpdateCamera
  PROVE  CameraInv'
BY DEF CameraInv, CameraTypeOK, SetpointsWithinLimits, OthersAreHandedOn, UpdateCamera

\* Where the camera rests its part of the invariant does.
LEMMA CameraUnchanged ==
  ASSUME CameraInv, UNCHANGED cameraVars
  PROVE  CameraInv'
BY DEF CameraInv, CameraTypeOK, SetpointsWithinLimits, OthersAreHandedOn, cameraVars

\* Where the power train rests its part of the invariant does.
LEMMA PowerUnchanged ==
  ASSUME PowerInv, UNCHANGED powerVars
  PROVE  PowerInv'
<1>1. UNCHANGED <<charge, depleted, motorCurrent, velocity, controllerVoltage, actuatorVoltage,
                  targetForce, drive>>
  BY DEF powerVars, batteryVars, motorVars
<1>2. PowerTypeOK' /\ NoConsumerSeesDepletion' /\ ForceIsOfFullVoltage'
  BY <1>1 DEF PowerInv, PowerTypeOK, NoConsumerSeesDepletion, ForceIsOfFullVoltage
<1>3. NoTornVelocity' /\ CurrentWithinBreaker' /\ ReadsAreFull'
  BY <1>1 DEF PowerInv, NoTornVelocity, CurrentWithinBreaker, ReadsAreFull
<1> QED BY <1>2, <1>3 DEF PowerInv

----------------------------------------------------------------------------
(* The two threads *)

\* A world update of Gazebo, its loops included, keeps the invariant.
LEMMA WorldInv == IInv /\ World => IInv'
<1> SUFFICES ASSUME IInv, World PROVE IInv'
  OBVIOUS
<1> USE DEF IInv
<1>1. CASE WorldUpdate
  <2>1. PowerInv' /\ CameraInv'
    BY <1>1, PowerUnchanged, CameraUnchanged DEF WorldUpdate
  <2>2. PICK d \in Delays : fastSince' = fastSince + d /\ mediumSince' = mediumSince + d
    BY <1>1 DEF WorldUpdate
  <2>3. charge' = charge /\ worldPc' = "fast" /\ robotInitialized' = robotInitialized
    BY <1>1 DEF WorldUpdate, powerVars, batteryVars
  <2>4. d \in Nat
    BY RatesAssumption
  <2>5. ClockInv'
    BY <2>2, <2>3, <2>4 DEF ClockInv, FreshBeforeMedium
  <2> QED BY <2>1, <2>5
<1>2. CASE FastLoop
  <2>1. PowerInv' /\ charge' = Capacity
    BY <1>2, FastLoopPowerInv DEF FastLoop, ClockInv
  <2>2. CameraInv'
    BY <1>2, CameraUnchanged DEF FastLoop
  <2>3. /\ worldPc' = "medium" /\ fastSince' = 0 /\ mediumSince' = mediumSince
        /\ robotInitialized' \in BOOLEAN
    BY <1>2 DEF FastLoop, ClockInv
  <2>4. ~ Fast!MustRun(0)
    BY RatesAssumption DEF Fast!MustRun
  <2>5. ClockInv'
    BY <2>1, <2>3, <2>4 DEF ClockInv, FreshBeforeMedium
  <2> QED BY <2>1, <2>2, <2>5
<1>3. CASE SkipFastLoop
  <2>1. PowerInv' /\ CameraInv'
    BY <1>3, PowerUnchanged, CameraUnchanged DEF SkipFastLoop
  <2>2. /\ worldPc' = "medium" /\ UNCHANGED <<clockVars, robotInitialized, charge>>
        /\ ~ Fast!MustRun(fastSince)
    BY <1>3 DEF SkipFastLoop, powerVars, batteryVars
  <2>3. ClockInv'
    BY <2>2 DEF ClockInv, FreshBeforeMedium, clockVars
  <2> QED BY <2>1, <2>3
<1>4. CASE MediumLoop
  <2>1. PowerInv' /\ CameraInv'
    BY <1>4, MediumLoopPowerInv, UpdateCameraInv DEF MediumLoop, ClockInv
  <2>2. /\ worldPc' = "pass" /\ mediumSince' = 0
        /\ UNCHANGED <<fastSince, robotInitialized>>
    BY <1>4 DEF MediumLoop
  <2>3. ClockInv'
    BY <2>2 DEF ClockInv, FreshBeforeMedium
  <2> QED BY <2>1, <2>3
<1>5. CASE SkipMediumLoop
  <2>1. PowerInv' /\ CameraInv'
    BY <1>5, PowerUnchanged, CameraUnchanged DEF SkipMediumLoop
  <2>2. worldPc' = "pass" /\ UNCHANGED <<clockVars, robotInitialized, charge>>
    BY <1>5 DEF SkipMediumLoop, powerVars, batteryVars
  <2>3. ClockInv'
    BY <2>2 DEF ClockInv, FreshBeforeMedium, clockVars
  <2> QED BY <2>1, <2>3
<1> QED BY <1>1, <1>2, <1>3, <1>4, <1>5 DEF World

\* The queue thread does not touch the charge.
LEMMA QueueKeepsCharge == Begin \/ Finish => UNCHANGED <<charge, depleted, worldVars>>
BY DEF Begin, Finish, ReceiveDrive, ActuatorCommand, ReadVoltage, FinishDrive,
       powerVars, batteryVars

\* A callback that begins or ends keeps the invariant.
LEMMA QueueInv == IInv /\ (Begin \/ Finish) => IInv'
<1> SUFFICES ASSUME IInv, Begin \/ Finish PROVE IInv'
  OBVIOUS
<1> USE DEF IInv
<1>1. ClockInv'
  BY QueueKeepsCharge DEF ClockInv, FreshBeforeMedium, worldVars, clockVars
<1>2. CASE Begin
  <2>1. CASE \E s \in Sides, c \in Commands : ReceiveDrive(s, c) /\ UNCHANGED cameraVars
    BY <1>1, <2>1, ReceiveDriveInv, CameraUnchanged
  <2>2. CASE \E c \in Commands : ActuatorCommand(c) /\ UNCHANGED cameraVars
    BY <1>1, <2>2, ActuatorCommandInv, CameraUnchanged
  <2>3. CASE \E j \in Joints, d \in {-1, 1} : BeginPress(j, d) /\ UNCHANGED powerVars
    BY <1>1, <2>3, BeginPressInv, PowerUnchanged
  <2> QED BY <1>2, <2>1, <2>2, <2>3 DEF Begin
<1>3. CASE Finish
  BY <1>1, <1>3, ReadVoltageInv, FinishDriveInv, EndPressInv, PowerUnchanged, CameraUnchanged
  DEF Finish
<1> QED BY <1>2, <1>3

\* The invariant is inductive.
LEMMA NextIInv == IInv /\ [Next]_vars => IInv'
<1> SUFFICES ASSUME IInv, [Next]_vars PROVE IInv'
  OBVIOUS
<1>1. CASE UNCHANGED vars
  <2>1. PowerInv' /\ CameraInv'
    BY <1>1, PowerUnchanged, CameraUnchanged DEF IInv, vars
  <2>2. UNCHANGED <<charge, worldVars>>
    BY <1>1 DEF vars, powerVars, batteryVars
  <2> QED BY <2>1, <2>2 DEF IInv, ClockInv, FreshBeforeMedium, worldVars, clockVars
<1> QED BY <1>1, WorldInv, QueueInv DEF Next

\* The inductive invariant holds of every behaviour.
LEMMA Invariance == Spec => []IInv
BY InitIInv, NextIInv, PTL DEF Spec

----------------------------------------------------------------------------
(* Theorems *)

\* The members of the devices keep their types, at any interleaving of the threads.
THEOREM DevicesAreTyped == Spec => []TypeOK
<1>1. IInv => TypeOK
  BY DEF IInv, PowerInv, CameraInv, ClockInv, TypeOK
<1> QED BY <1>1, Invariance, PTL

\* For every battery, breaker and rate: the controllers and actuators never see
\* another voltage than the full battery's.
THEOREM ConsumersSeeFullBattery == Spec => []NoConsumerSeesDepletion
<1>1. IInv => NoConsumerSeesDepletion
  BY DEF IInv, PowerInv
<1> QED BY <1>1, Invariance, PTL

\* No interleaving of a conversion's three readings with the fast loop mixes two
\* states of the battery into a velocity.
THEOREM VelocityIsNotTorn == Spec => []NoTornVelocity
<1>1. IInv => NoTornVelocity
  BY DEF IInv, PowerInv
<1> QED BY <1>1, Invariance, PTL

\* The motors' currents stay within the breaker, braking included.
THEOREM CurrentStaysWithinBreaker == Spec => []CurrentWithinBreaker
<1>1. IInv => CurrentWithinBreaker
  BY DEF IInv, PowerInv
<1> QED BY <1>1, Invariance, PTL

\* Forces are of the full voltage, or of none.
THEOREM ForceStaysOfFullVoltage == Spec => []ForceIsOfFullVoltage
<1>1. IInv => ForceIsOfFullVoltage
  BY DEF IInv, PowerInv
<1> QED BY <1>1, Invariance, PTL

\* However often the buttons are pressed, the camera's setpoints stay in range.
THEOREM SetpointsStayWithinLimits == Spec => []SetpointsWithinLimits
<1>1. IInv => SetpointsWithinLimits
  BY DEF IInv, CameraInv
<1> QED BY <1>1, Invariance, PTL

\* Between two presses every control group has its joint's command.
THEOREM CommandIsHandedOn == Spec => []InputIsCommand
<1>1. IInv => InputIsCommand
  <2> SUFFICES ASSUME IInv, press = NoPress PROVE input = command
    BY DEF InputIsCommand
  <2> QED BY JointsAssumption DEF IInv, CameraInv, OthersAreHandedOn, CameraTypeOK
<1> QED BY <1>1, Invariance, PTL

\* The medium loop is the only step that runs its timer down, and it starts from a
\* full battery.
LEMMA MediumStartsFull ==
  ASSUME IInv, [Next]_vars, mediumSince' < mediumSince
  PROVE  MediumLoop /\ charge = Capacity
<1>1. MediumLoop
  <2>1. mediumSince \in Nat
    BY DEF IInv, ClockInv
  <2>2. ~ (Begin \/ Finish) /\ ~ UNCHANGED vars
    BY <2>1, QueueKeepsCharge DEF worldVars, clockVars, vars
  <2>3. ~ WorldUpdate
    <3>1. \A d \in Delays : ~ mediumSince + d < mediumSince
      BY <2>1, RatesAssumption
    <3> QED BY <3>1 DEF WorldUpdate
  <2>4. mediumSince' # mediumSince
    BY <2>1
  <2>5. ~ FastLoop /\ ~ SkipFastLoop /\ ~ SkipMediumLoop
    BY <2>4 DEF FastLoop, SkipFastLoop, SkipMediumLoop, clockVars
  <2> QED BY <2>2, <2>3, <2>5 DEF Next, World
<1>2. fastSince \in Nat /\ mediumSince \in Nat /\ Medium!MayRun(mediumSince)
      /\ ~ Fast!MustRun(fastSince)
  BY <1>1 DEF MediumLoop, IInv, ClockInv, FreshBeforeMedium
<1>3. ~ fastSince >= mediumSince
  BY <1>2, FastComesFirst
<1> QED BY <1>1, <1>3 DEF IInv, ClockInv, FreshBeforeMedium

\* Nothing that is drawn or given back accumulates over two medium loops, for all
\* rates of which the fast one is at least 1.5 times the medium one.
THEOREM NothingEverAccumulates == Spec => NothingAccumulates
<1>1. IInv /\ [Next]_vars => [mediumSince' < mediumSince => charge = Capacity]_vars
  BY MediumStartsFull
<1> QED BY <1>1, Invariance, PTL DEF Spec, NothingAccumulates

\* The depletion warning takes one long pause, whatever the rover did before.
THEOREM DepletionAlwaysNeedsPause == Spec => DepletionNeedsPause
<1>1. ASSUME IInv, [Next]_vars, DrawnIsDefined, depleted', ~ depleted
      PROVE  MaxCurrent * mediumSince > Capacity - Threshold
  <2>1. MediumLoop
    <3>1. ~ (Begin \/ Finish) /\ ~ UNCHANGED vars
      BY <1>1, QueueKeepsCharge DEF vars, powerVars, batteryVars
    <3>2. ~ WorldUpdate /\ ~ SkipFastLoop /\ ~ SkipMediumLoop
      BY <1>1 DEF WorldUpdate, SkipFastLoop, SkipMediumLoop, powerVars, batteryVars
    <3>3. ~ FastLoop
      BY <1>1 DEF FastLoop, FastLoopPower
    <3> QED BY <1>1, <3>1, <3>2, <3>3 DEF Next, World
  <2>2. mediumSince \in Nat /\ Medium!MayRun(mediumSince) /\ mediumSince' = 0
    BY <1>1, <2>1 DEF MediumLoop, IInv, ClockInv
  <2>3. mediumSince > 0
    BY <2>2, RatesAssumption DEF Medium!MayRun
  <2>4. charge = Capacity /\ Capacity \in Int /\ Threshold \in Int /\ charge # Undefined
    BY <1>1, <2>2, <2>3, MediumStartsFull, PowerAssumption DEF Threshold
  <2>5. charge - Drawn * mediumSince < Threshold
    BY <1>1, <2>1, <2>4 DEF MediumLoop, MediumLoopPower
  <2>6. Drawn \in Int /\ MaxCurrent \in Int /\ Drawn <= MaxCurrent
    <3>1. \A s \in Sides : motorCurrent[s] \in Int /\ motorCurrent[s] <= Breaker
      BY <1>1 DEF IInv, PowerInv, PowerTypeOK, CurrentWithinBreaker, DrawnIsDefined, Known
    <3>2. motorCurrent["left"] \in Int /\ motorCurrent["left"] <= Breaker
      BY <3>1 DEF Sides
    <3>3. motorCurrent["right"] \in Int /\ motorCurrent["right"] <= Breaker
      BY <3>1 DEF Sides
    <3> QED BY <3>2, <3>3, PowerAssumption DEF Drawn, MaxCurrent
  <2>7. Drawn * mediumSince <= MaxCurrent * mediumSince
    BY <2>2, <2>6, MoreIsDrawn
  <2>8. Drawn * mediumSince \in Int /\ MaxCurrent * mediumSince \in Int
    BY <2>2, <2>6
  <2> QED BY <2>4, <2>5, <2>7, <2>8
<1>2. IInv /\ [Next]_vars =>
        [DrawnIsDefined /\ depleted' /\ ~ depleted
           => MaxCurrent * mediumSince > Capacity - Threshold]_vars
  BY <1>1
<1> QED BY <1>2, Invariance, PTL DEF Spec, DepletionNeedsPause
============================================================================
