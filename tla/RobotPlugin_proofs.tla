------------------------- MODULE RobotPlugin_proofs -------------------------
(***************************************************************************)
(* What the plugin promises of every model description, any number of      *)
(* sensors, actuators and drivetrain sides, and every interleaving of its  *)
(* two threads.                                                            *)
(***************************************************************************)
EXTENDS RobotPlugin, TLAPS

Loading == worldPc \in {"LoadSensors", "LoadModel"}
Updating == worldPc \in {"InitializeSubscriptions", "InitializePublications",
                         "fast", "actuators", "medium"}

\* Nothing runs before the model is loaded.
NothingRunsYet ==
  Loading => /\ runTime = 0 /\ ~ robotInitialized /\ ~ queueRunning
             /\ sensorsReport = "INITIALIZING"
             /\ actuatorPc = [a \in Actuators |-> "rest"]
             /\ actuatorVoltage = [a \in Actuators |-> 0]

\* Once LoadSensors ran, the pointers and the IMUs tell which look-ups succeeded.
SensorsAccountedFor ==
  worldPc # "LoadSensors" =>
    /\ held = {s \in Sensors : Loaded(s)}
    /\ \A i \in Imus : Reached(i) => imuReady[i] = Loaded(i)

\* Once LoadModel ran, only a model without camera joints has no battery.
PowerAccountedFor == Updating => powerLoaded \/ ~ CameraReady

\* A strict build that goes on found every sensor, and then base and camera.
StrictBuildChecked ==
  ~ allowIncomplete =>
    /\ worldPc \notin {"LoadSensors", "inert"} => held = Sensors
    /\ Updating => {BaseLink, CameraJoints} \subseteq installed
    /\ StrictReportIsTrue

\* An actuator is measured only after the warm-up, and only if the model has it.
MeasuredAfterWarmUp ==
  \A a \in Actuators :
    actuatorPc[a] # "rest" => robotInitialized /\ a \in LinearActuators

\* What an actuator has measured is the voltage of the battery, which is constant.
VoltageIsTheBatterys ==
  \A a \in Actuators :
    actuatorVoltage[a] # 0 => robotInitialized /\ actuatorVoltage[a] = BatteryVoltage

\* The motor controllers have a voltage once the fast loop ran.
ControllersArePowered == powerLoaded /\ runTime > 0 => controllerVoltage = 1

LoadInv == /\ NothingRunsYet /\ SensorsAccountedFor /\ PowerAccountedFor
           /\ StrictBuildChecked
RunInv  == MeasuredAfterWarmUp /\ VoltageIsTheBatterys /\ ControllersArePowered

IInv == /\ TypeOK /\ LoadInv /\ RunInv
        /\ CrashExplained /\ StrictBuildCrash /\ ForceAwaitsRobot

----------------------------------------------------------------------------
(* Steps by thread.  The queue thread leaves alone what the world thread     *)
(* keeps, and the two share nothing but voltages, forces and messages.       *)

QueueStep == \E t \in Topics : Handle(t) \/ \E c \in Commands : SendCommand(t, c)

\* The callbacks of the queue thread change nothing the world thread keeps.
LEMMA QueueStepFrame == QueueStep => UNCHANGED threadVars
BY DEF QueueStep, Handle, SendCommand, DrivetrainCommand, ImplementCommand

\* A step is one of either thread, or a stutter.
LEMMA StepCases ==
  ASSUME [Next]_vars
  PROVE  \/ LoadSensors \/ LoadModel \/ InitializeSubscriptions \/ InitializePublications
         \/ FastLoop \/ SkipFastLoop \/ MediumLoop \/ SkipMediumLoop
         \/ (\E a \in Actuators : UpdateActuator(a)) \/ (\E a \in Actuators : ApplyForce(a))
         \/ QueueStep \/ UNCHANGED vars
BY DEF Next, Load, OnUpdate, QueueStep

\* Nothing takes the robot's initialization back.
LEMMA RobotStaysInitialized ==
  ASSUME [Next]_vars, robotInitialized
  PROVE  robotInitialized'
BY StepCases, QueueStepFrame
   DEF buildVars, LoadSensors, LoadModel, InitializeSubscriptions, InitializePublications,
       FastLoop, SkipFastLoop, MediumLoop, SkipMediumLoop, UpdateActuator, ApplyForce,
       threadVars, clockVars, vars

----------------------------------------------------------------------------
(* Types *)

\* A scaled command is a voltage or undefined.
LEMMA TimesIsTyped ==
  ASSUME NEW x \in Int, NEW v \in Values
  PROVE  Times(x, v) \in Values /\ (v = 0 => Times(x, v) = 0)
<1>1. CASE v = Undefined
  BY <1>1, ValuesAssumption DEF Times, Values
<1>2. CASE v \in Int
  <2>1. x * v \in Int /\ (v = 0 => x * v = 0)
    BY <1>2
  <2>2. Undefined \notin {x, v}
    BY <1>2, ValuesAssumption
  <2> QED BY <2>1, <2>2 DEF Times, Values
<1> QED BY <1>1, <1>2 DEF Values

\* The battery has no voltage but these.
LEMMA BatteryVoltageIsTyped == BatteryVoltage \in {0, 1, Undefined}
BY DEF BatteryVoltage

\* A time delta always makes run_time positive.
LEMMA ElapsedIsTyped ==
  ASSUME runTime \in 0 .. InitializationTime + 1, NEW dt \in Deltas
  PROVE  Elapsed(dt) \in 1 .. InitializationTime + 1
BY TimeAssumption DEF Elapsed

\* A message that waits is a command.
LEMMA PendingIsInt ==
  ASSUME TypeOK, NEW t \in Topics, pending[t] # None
  PROVE  pending[t] \in Int
BY ValuesAssumption DEF TypeOK

\* Init is well typed: the constructor and the reset values.
LEMMA InitTypeOK == Init => TypeOK
<1> SUFFICES ASSUME Init PROVE TypeOK
  OBVIOUS
<1>1. 0 \in Values /\ Undefined \in Values
  BY DEF Values
<1>2. /\ actuatorVoltage \in [Actuators -> Values] /\ targetForce \in [Actuators -> Values]
      /\ jointForce \in [Actuators -> Values] /\ velocity \in [Sides -> Values]
  BY <1>1 DEF Init
<1>3. runTime \in 0 .. InitializationTime + 1
  BY TimeAssumption DEF Init
<1> QED BY <1>1, <1>2, <1>3 DEF Init, TypeOK

\* Every step of either thread keeps the types.
LEMMA NextTypeOK ==
  ASSUME TypeOK, [Next]_vars
  PROVE  TypeOK'
<1> USE DEF TypeOK, modelVars, buildVars, clockVars, commandVars
<1>1. CASE LoadSensors
  BY <1>1 DEF buildVars, LoadSensors, AfterSensors
<1>2. CASE LoadModel
  BY <1>2 DEF buildVars, LoadModel
<1>3. CASE InitializeSubscriptions
  BY <1>3 DEF InitializeSubscriptions
<1>4. CASE InitializePublications
  BY <1>4 DEF InitializePublications
<1>5. CASE FastLoop
  <2>1. controllerVoltage' \in Values
    BY <1>5, BatteryVoltageIsTyped DEF FastLoop, Values
  <2>2. runTime' \in 0 .. InitializationTime + 1
    BY <1>5, ElapsedIsTyped, TimeAssumption DEF FastLoop
  <2>3. robotInitialized' \in BOOLEAN
    BY <1>5 DEF FastLoop
  <2>4. actuatorPc' \in [Actuators -> {"rest", "measure", "apply"}]
    BY <1>5 DEF FastLoop
  <2>5. worldPc' \in {"crashed", "actuators", "medium"} /\ queueRunning' \in BOOLEAN
    BY <1>5 DEF FastLoop, Crash
  <2> QED BY <1>5, <2>1, <2>2, <2>3, <2>4, <2>5 DEF FastLoop
<1>6. CASE SkipFastLoop
  BY <1>6 DEF SkipFastLoop
<1>7. CASE MediumLoop
  BY <1>7 DEF MediumLoop, Crash
<1>8. CASE SkipMediumLoop
  BY <1>8 DEF SkipMediumLoop
<1>9. ASSUME NEW a \in Actuators, UpdateActuator(a) PROVE TypeOK'
  <2>1. BatteryVoltage \in Values
    BY BatteryVoltageIsTyped DEF Values
  <2> QED BY <1>9, <2>1 DEF UpdateActuator, Crash
<1>10. ASSUME NEW a \in Actuators, ApplyForce(a) PROVE TypeOK'
  BY <1>10 DEF ApplyForce
<1>11. ASSUME NEW t \in Topics, NEW c \in Commands, SendCommand(t, c) PROVE TypeOK'
  BY <1>11 DEF SendCommand, threadVars
<1>12. ASSUME NEW s \in Sides, DrivetrainCommand(s) PROVE TypeOK'
  <2>1. s \in Topics
    BY DEF Topics
  <2>2. Times(pending[s], controllerVoltage) \in Values
    BY <1>12, <2>1, PendingIsInt, TimesIsTyped DEF DrivetrainCommand
  <2>3. velocity' \in [Sides -> Values]
    BY <1>12, <2>2 DEF DrivetrainCommand, Values
  <2> QED BY <1>12, <2>1, <2>3 DEF DrivetrainCommand, threadVars
<1>13. ASSUME NEW a \in Actuators, ImplementCommand(a) PROVE TypeOK'
  <2>1. a \in Topics
    BY DEF Topics
  <2>2. Times(pending[a], actuatorVoltage[a]) \in Values
    BY <1>13, <2>1, PendingIsInt, TimesIsTyped DEF ImplementCommand
  <2> QED BY <1>13, <2>1, <2>2 DEF ImplementCommand, threadVars
<1>14. CASE QueueStep
  BY <1>14, <1>11, <1>12, <1>13 DEF QueueStep, Handle
<1>15. CASE UNCHANGED vars
  BY <1>15 DEF vars
<1> QED BY StepCases, <1>1, <1>2, <1>3, <1>4, <1>5, <1>6, <1>7, <1>8, <1>9, <1>10,
           <1>14, <1>15

----------------------------------------------------------------------------
(* Loading *)

\* What loading found stays as it is, in every step but those of Load.
LEMMA ModelIsKept ==
  ASSUME [Next]_vars, ~ LoadSensors, ~ LoadModel
  PROVE  UNCHANGED modelVars
BY StepCases, QueueStepFrame
   DEF InitializeSubscriptions, InitializePublications, FastLoop, SkipFastLoop,
       MediumLoop, SkipMediumLoop, UpdateActuator, ApplyForce, threadVars, vars

\* The world thread leaves loading for good.
LEMMA LoadingEnds ==
  ASSUME [Next]_vars, ~ LoadSensors, ~ LoadModel
  PROVE  /\ Loading' => UNCHANGED threadVars
         /\ worldPc = "LoadSensors" <=> worldPc' = "LoadSensors"
         /\ worldPc = "inert" <=> worldPc' = "inert"
         /\ Updating' => Updating
BY StepCases, QueueStepFrame
   DEF InitializeSubscriptions, InitializePublications, FastLoop, SkipFastLoop,
       MediumLoop, SkipMediumLoop, UpdateActuator, ApplyForce, Turn, Crash, threadVars,
       vars, Loading, Updating, commandVars

\* Nothing is loaded and nothing runs yet.
LEMMA InitLoadInv == Init => LoadInv
BY DEF Init, LoadInv, NothingRunsYet, SensorsAccountedFor, PowerAccountedFor,
       StrictBuildChecked, StrictReportIsTrue, Loading, Updating

\* Load establishes what is known of the model, and nothing disturbs it later.
LEMMA NextLoadInv ==
  ASSUME TypeOK, LoadInv, [Next]_vars
  PROVE  LoadInv'
<1>1. CASE LoadSensors
  <2>1. /\ installed' = installed /\ allowIncomplete' = allowIncomplete
        /\ worldPc = "LoadSensors" /\ worldPc' \in {"LoadModel", "inert"}
    BY <1>1 DEF buildVars, LoadSensors, AfterSensors
  <2>2. NothingRunsYet'
    BY <1>1, <2>1
       DEF buildVars, LoadSensors, LoadInv, NothingRunsYet, Loading, clockVars, commandVars
  <2>3. SensorsAccountedFor'
    BY <1>1, <2>1 DEF buildVars, LoadSensors, SensorsAccountedFor, Loaded, Reached
  <2>4. PowerAccountedFor'
    BY <2>1 DEF PowerAccountedFor, Updating
  <2>5. StrictBuildChecked'
    BY <1>1, <2>1 DEF buildVars, LoadSensors, AfterSensors, LoadInv, NothingRunsYet,
                      StrictBuildChecked, StrictReportIsTrue, Loading, Updating
  <2> QED BY <2>2, <2>3, <2>4, <2>5 DEF LoadInv
<1>2. CASE LoadModel
  <2>1. /\ installed' = installed /\ allowIncomplete' = allowIncomplete
        /\ held' = held /\ imuReady' = imuReady
        /\ worldPc = "LoadModel" /\ worldPc' \in {"InitializeSubscriptions", "inert"}
    BY <1>2 DEF buildVars, LoadModel
  <2>2. NothingRunsYet'
    BY <2>1 DEF NothingRunsYet, Loading
  <2>3. SensorsAccountedFor'
    BY <2>1 DEF LoadInv, SensorsAccountedFor, Loaded, Reached
  <2>4. PowerAccountedFor'
    BY <1>2, <2>1 DEF buildVars, LoadModel, PowerAccountedFor, Updating, CameraReady
  <2>5. StrictBuildChecked'
    BY <1>2, <2>1 DEF buildVars, LoadModel, LoadInv, StrictBuildChecked, StrictReportIsTrue, Updating, CameraReady
  <2> QED BY <2>2, <2>3, <2>4, <2>5 DEF LoadInv
<1>3. CASE ~ LoadSensors /\ ~ LoadModel
  <2>1. UNCHANGED <<installed, allowIncomplete, held, imuReady, powerLoaded, sensorsReport>>
    BY <1>3, ModelIsKept DEF modelVars, buildVars
  <2>2. NothingRunsYet'
    BY <1>3, LoadingEnds DEF LoadInv, NothingRunsYet, Loading, threadVars, clockVars, modelVars
  <2>3. SensorsAccountedFor'
    BY <1>3, <2>1, LoadingEnds DEF LoadInv, SensorsAccountedFor, Loaded, Reached
  <2>4. PowerAccountedFor'
    BY <1>3, <2>1, LoadingEnds DEF LoadInv, PowerAccountedFor, CameraReady
  <2>5. StrictBuildChecked'
    BY <1>3, <2>1, LoadingEnds DEF LoadInv, StrictBuildChecked, StrictReportIsTrue
  <2> QED BY <2>2, <2>3, <2>4, <2>5 DEF LoadInv
<1> QED BY <1>1, <1>2, <1>3

----------------------------------------------------------------------------
(* Running *)

\* No voltage was read yet.
LEMMA InitRunInv == Init => RunInv
BY DEF Init, RunInv, MeasuredAfterWarmUp, VoltageIsTheBatterys, ControllersArePowered

\* Either thread keeps the voltages and the warm-up in step.
LEMMA NextRunInv ==
  ASSUME TypeOK, LoadInv, RunInv, [Next]_vars
  PROVE  RunInv'
<1>1. CASE LoadSensors \/ LoadModel
  <2>1. Loading /\ UNCHANGED <<clockVars, commandVars, actuatorPc, controllerVoltage>>
    BY <1>1 DEF buildVars, LoadSensors, LoadModel, Loading
  <2>2. /\ runTime' = 0 /\ actuatorPc' = [a \in Actuators |-> "rest"]
        /\ actuatorVoltage' = [a \in Actuators |-> 0]
    BY <2>1 DEF LoadInv, NothingRunsYet, clockVars, commandVars
  <2> QED
    BY <2>2 DEF RunInv, MeasuredAfterWarmUp, VoltageIsTheBatterys, ControllersArePowered
<1>2. CASE ~ LoadSensors /\ ~ LoadModel
  <2>1. /\ installed' = installed /\ powerLoaded' = powerLoaded
        /\ BatteryVoltage' = BatteryVoltage
    <3>1. UNCHANGED <<installed, powerLoaded, batteryMode>>
      BY <1>2, ModelIsKept DEF modelVars, buildVars
    <3>2. BatteryVoltage' = BatteryVoltage
      BY <3>1 DEF BatteryVoltage
    <3> QED BY <3>1, <3>2
  <2>2. CASE FastLoop
    <3>1. actuatorVoltage' = actuatorVoltage /\ (robotInitialized => robotInitialized')
      BY <2>2 DEF FastLoop, clockVars, commandVars
    <3>2. VoltageIsTheBatterys'
      BY <2>1, <3>1 DEF RunInv, VoltageIsTheBatterys
    <3>3. MeasuredAfterWarmUp'
      BY <2>1, <2>2, <3>1
         DEF FastLoop, RunInv, MeasuredAfterWarmUp, LinearActuators
    <3>4. ControllersArePowered'
      BY <2>1, <2>2
         DEF FastLoop, BatteryVoltage, BatteryThrows, RunInv, ControllersArePowered,
             clockVars
    <3> QED BY <3>2, <3>3, <3>4 DEF RunInv
  <2>3. ASSUME NEW a \in Actuators, UpdateActuator(a) PROVE RunInv'
    <3>1. robotInitialized /\ a \in LinearActuators
      BY <2>3 DEF UpdateActuator, Turn, RunInv, MeasuredAfterWarmUp
    <3>2. UNCHANGED <<runTime, robotInitialized, controllerVoltage>>
      BY <2>3 DEF UpdateActuator, clockVars
    <3>3. VoltageIsTheBatterys'
      BY <2>1, <2>3, <3>1, <3>2
         DEF UpdateActuator, TypeOK, RunInv, VoltageIsTheBatterys
    <3>4. MeasuredAfterWarmUp'
      BY <2>1, <2>3, <3>1, <3>2
         DEF UpdateActuator, TypeOK, RunInv, MeasuredAfterWarmUp, LinearActuators
    <3>5. ControllersArePowered'
      BY <2>1, <3>2 DEF RunInv, ControllersArePowered
    <3> QED BY <3>3, <3>4, <3>5 DEF RunInv
  <2>4. ASSUME NEW a \in Actuators, ApplyForce(a) PROVE RunInv'
    BY <2>1, <2>4
       DEF ApplyForce, RunInv, MeasuredAfterWarmUp, VoltageIsTheBatterys,
           ControllersArePowered, LinearActuators, clockVars, commandVars, TypeOK
  <2>5. CASE UNCHANGED <<clockVars, actuatorPc, actuatorVoltage, controllerVoltage>>
    BY <2>1, <2>5
       DEF RunInv, MeasuredAfterWarmUp, VoltageIsTheBatterys, ControllersArePowered,
           LinearActuators, clockVars
  <2>6. \/ FastLoop \/ (\E a \in Actuators : UpdateActuator(a) \/ ApplyForce(a))
        \/ UNCHANGED <<clockVars, actuatorPc, actuatorVoltage, controllerVoltage>>
    BY <1>2, StepCases, QueueStepFrame
       DEF InitializeSubscriptions, InitializePublications, SkipFastLoop, MediumLoop,
           SkipMediumLoop, threadVars, commandVars, vars
  <2> QED BY <2>2, <2>3, <2>4, <2>5, <2>6
<1> QED BY <1>1, <1>2

----------------------------------------------------------------------------
(* Crashes *)

\* Each of the three ways to crash needs a part the model lacks.
LEMMA FastLoopCrash ==
  ASSUME TypeOK, LoadInv, FastLoop, worldPc' = "crashed"
  PROVE  LacksCamera \/ (robotInitialized' /\ (LacksBody \/ LacksImu))
<1>1. CASE BatteryThrows
  BY <1>1 DEF FastLoop, BatteryThrows, LoadInv, PowerAccountedFor, Updating, CameraReady,
              LacksCamera
<1>2. CASE ~ BatteryThrows
  <2>1. robotInitialized' /\ NullDereference
    BY <1>2 DEF FastLoop
  <2>2. /\ held = {s \in Sensors : Loaded(s)}
        /\ \A i \in Imus : Reached(i) => imuReady[i] = Loaded(i)
    BY DEF FastLoop, LoadInv, SensorsAccountedFor
  <2>3. Truth \in Sensors /\ Reached(Truth)
    BY PartsAssumption DEF Sensors, Reached
  <2>4. CASE Truth \notin held \/ BaseLink \notin installed
    BY <2>1, <2>2, <2>3, <2>4 DEF Loaded, LacksBody
  <2>5. ASSUME NEW i \in Imus, imuReady[i], i \notin held PROVE LacksImu
    BY <2>2, <2>5, PartsAssumption DEF LacksImu
  <2> QED BY <2>1, <2>4, <2>5 DEF NullDereference
<1> QED BY <1>1, <1>2

\* An actuator crashes on the joint that should measure it.
LEMMA ActuatorCrash ==
  ASSUME RunInv, NEW a \in Actuators, UpdateActuator(a), worldPc' = "crashed"
  PROVE  robotInitialized' /\ LacksJoint
<1>1. PositionJoint[a] \notin installed /\ UNCHANGED robotInitialized
  BY DEF UpdateActuator, Turn, clockVars
<1>2. robotInitialized /\ a \in LinearActuators
  BY DEF UpdateActuator, Turn, RunInv, MeasuredAfterWarmUp
<1> QED BY <1>1, <1>2 DEF LacksJoint

\* The medium loop crashes on a camera that failed to initialize.
LEMMA MediumLoopCrash ==
  ASSUME MediumLoop, worldPc' = "crashed"
  PROVE  CameraAssembly \notin installed
BY DEF MediumLoop

\* No other step crashes the plugin.
LEMMA CrashCases ==
  ASSUME [Next]_vars, worldPc' = "crashed"
  PROVE  /\ UNCHANGED buildVars /\ (robotInitialized => robotInitialized')
         /\ \/ worldPc = "crashed" \/ FastLoop \/ MediumLoop
            \/ \E a \in Actuators : UpdateActuator(a)
<1>1. UNCHANGED buildVars
  BY StepCases, QueueStepFrame
     DEF buildVars, LoadSensors, LoadModel, InitializeSubscriptions, InitializePublications,
         FastLoop, SkipFastLoop, MediumLoop, SkipMediumLoop, UpdateActuator, ApplyForce,
         threadVars, modelVars, buildVars, vars
<1>2. robotInitialized => robotInitialized'
  BY RobotStaysInitialized
<1>3. \/ worldPc = "crashed" \/ FastLoop \/ MediumLoop
      \/ \E a \in Actuators : UpdateActuator(a)
  BY StepCases, QueueStepFrame
     DEF buildVars, LoadSensors, AfterSensors, LoadModel, InitializeSubscriptions,
         InitializePublications, SkipFastLoop, SkipMediumLoop, ApplyForce, Turn,
         threadVars, vars
<1> QED BY <1>1, <1>2, <1>3

\* A crash is explained when it happens and stays explained.
LEMMA NextCrashExplained ==
  ASSUME TypeOK, LoadInv, RunInv, CrashExplained, [Next]_vars
  PROVE  CrashExplained'
<1> SUFFICES ASSUME worldPc' = "crashed" PROVE CrashExplained'
  BY DEF CrashExplained
<1>1. installed' = installed /\ (robotInitialized => robotInitialized')
  BY CrashCases DEF buildVars
<1>2. /\ LacksCamera' <=> LacksCamera
      /\ LacksBody' <=> LacksBody
      /\ LacksImu' <=> LacksImu
      /\ LacksJoint' <=> LacksJoint
  BY <1>1 DEF LacksCamera, LacksBody, LacksImu, Reached, LacksJoint, LinearActuators
<1>3. CASE worldPc = "crashed"
  BY <1>1, <1>2, <1>3 DEF CrashExplained
<1>4. CASE FastLoop
  BY <1>2, <1>4, FastLoopCrash DEF CrashExplained
<1>5. CASE MediumLoop
  BY <1>2, <1>5, MediumLoopCrash DEF CrashExplained, LacksCamera
<1>6. ASSUME NEW a \in Actuators, UpdateActuator(a) PROVE CrashExplained'
  BY <1>2, <1>6, ActuatorCrash DEF CrashExplained
<1> QED BY <1>3, <1>4, <1>5, <1>6, CrashCases

\* A strict build that runs has every sensor, hence reached every one.
LEMMA StrictBuildHasSensors ==
  ASSUME LoadInv, ~ allowIncomplete, Updating
  PROVE  ~ LacksBody /\ ~ LacksImu /\ CameraJoints \in installed
<1>1. held = Sensors /\ {BaseLink, CameraJoints} \subseteq installed
  BY DEF LoadInv, StrictBuildChecked, StrictReportIsTrue, Updating
<1>2. \A s \in Sensors : Loaded(s)
  BY <1>1 DEF LoadInv, SensorsAccountedFor, Updating
<1>3. Truth \in Sensors
  BY PartsAssumption DEF Sensors
<1> QED BY <1>1, <1>2, <1>3, PartsAssumption DEF LacksBody, LacksImu, Loaded

\* The same in a build that does not allow incomplete models.
LEMMA NextStrictBuildCrash ==
  ASSUME TypeOK, LoadInv, RunInv, StrictBuildCrash, [Next]_vars
  PROVE  StrictBuildCrash'
<1> SUFFICES ASSUME worldPc' = "crashed", ~ allowIncomplete' PROVE StrictBuildCrash'
  BY DEF StrictBuildCrash
<1>1. installed' = installed /\ allowIncomplete' = allowIncomplete
  BY CrashCases DEF buildVars
<1>2. LacksJoint' <=> LacksJoint
  BY <1>1 DEF LacksJoint, LinearActuators
<1>3. CASE worldPc = "crashed"
  BY <1>1, <1>2, <1>3 DEF StrictBuildCrash
<1>4. CASE FastLoop
  <2>1. Updating
    BY <1>4 DEF FastLoop, Updating
  <2> QED BY <1>1, <1>4, <2>1, StrictBuildHasSensors, FastLoopCrash
          DEF StrictBuildCrash, LacksCamera
<1>5. CASE MediumLoop
  BY <1>1, <1>5, MediumLoopCrash DEF StrictBuildCrash
<1>6. ASSUME NEW a \in Actuators, UpdateActuator(a) PROVE StrictBuildCrash'
  BY <1>2, <1>6, ActuatorCrash DEF StrictBuildCrash
<1> QED BY <1>3, <1>4, <1>5, <1>6, CrashCases

----------------------------------------------------------------------------
(* Forces *)

\* Commands from before the warm-up are scaled to nothing.
LEMMA NextForceAwaitsRobot ==
  ASSUME TypeOK, LoadInv, RunInv, ForceAwaitsRobot, [Next]_vars
  PROVE  ForceAwaitsRobot'
<1>1. robotInitialized => robotInitialized'
  BY RobotStaysInitialized
<1>2. ASSUME NEW a \in Actuators, UpdateActuator(a) PROVE ForceAwaitsRobot'
  <2>1. UNCHANGED <<targetForce, jointForce>>
    BY <1>2 DEF UpdateActuator
  <2>2. \A b \in Actuators : actuatorVoltage[b] # 0 => actuatorVoltage'[b] # 0
    BY <1>2 DEF UpdateActuator, RunInv, VoltageIsTheBatterys, TypeOK
  <2> QED BY <1>1, <2>1, <2>2 DEF ForceAwaitsRobot
<1>3. ASSUME NEW a \in Actuators, ApplyForce(a) PROVE ForceAwaitsRobot'
  BY <1>1, <1>3 DEF ApplyForce, commandVars, ForceAwaitsRobot, TypeOK
<1>4. ASSUME NEW a \in Actuators, ImplementCommand(a) PROVE ForceAwaitsRobot'
  <2>1. UNCHANGED <<actuatorVoltage, jointForce, robotInitialized>>
    BY <1>4 DEF ImplementCommand, threadVars, clockVars
  <2>2. a \in Topics /\ pending[a] \in Int
    BY <1>4, PendingIsInt DEF ImplementCommand, Topics
  <2>3. actuatorVoltage[a] = 0 => targetForce'[a] = 0
    BY <1>4, <2>2, TimesIsTyped DEF ImplementCommand, TypeOK
  <2>4. \A b \in Actuators \ {a} : targetForce'[b] = targetForce[b]
    BY <1>4 DEF ImplementCommand, TypeOK
  <2> QED BY <2>1, <2>3, <2>4 DEF ForceAwaitsRobot, RunInv, VoltageIsTheBatterys
<1>5. CASE UNCHANGED <<actuatorVoltage, targetForce, jointForce>>
  BY <1>1, <1>5 DEF ForceAwaitsRobot
<1>6. \/ \E a \in Actuators : UpdateActuator(a) \/ ApplyForce(a) \/ ImplementCommand(a)
      \/ UNCHANGED <<actuatorVoltage, targetForce, jointForce>>
  BY StepCases
     DEF buildVars, LoadSensors, LoadModel, InitializeSubscriptions, InitializePublications,
         FastLoop, SkipFastLoop, MediumLoop, SkipMediumLoop, QueueStep, Handle,
         SendCommand, DrivetrainCommand, threadVars, commandVars, vars
<1> QED BY <1>2, <1>3, <1>4, <1>5, <1>6

----------------------------------------------------------------------------
\* The invariant the theorems rest on.
THEOREM PluginInvariant == Spec => []IInv
<1>1. Init => IInv
  <2>1. Init => CrashExplained /\ StrictBuildCrash /\ ForceAwaitsRobot
    BY DEF Init, CrashExplained, StrictBuildCrash, ForceAwaitsRobot
  <2> QED BY <2>1, InitTypeOK, InitLoadInv, InitRunInv DEF IInv
<1>2. IInv /\ [Next]_vars => IInv'
  BY NextTypeOK, NextLoadInv, NextRunInv, NextCrashExplained, NextStrictBuildCrash,
     NextForceAwaitsRobot DEF IInv
<1> QED BY <1>1, <1>2, PTL DEF Spec

\* Load and OnUpdate keep every member of the plugin within its type.
THEOREM PluginIsTyped == Spec => []TypeOK
<1>1. IInv => TypeOK
  BY DEF IInv
<1> QED BY <1>1, PluginInvariant, PTL

\* A model that has its sensors, base, camera and position joints never crashes
\* the plugin, whatever else its description lacks and whenever commands come.
THEOREM PluginCrashExplained == Spec => []CrashExplained
<1>1. IInv => CrashExplained
  BY DEF IInv
<1> QED BY <1>1, PluginInvariant, PTL

\* Without ALLOW_INCOMPLETEMODEL_INITIALIZATION only what Load never checks can
\* crash the plugin, and the sensors are reported as loaded only when LoadSensors
\* found all.
THEOREM PluginStrictBuildHolds == Spec => []StrictBuildHolds
<1>1. IInv => StrictBuildCrash
  BY DEF IInv
<1>2. IInv => StrictReportIsTrue
  BY DEF IInv, LoadInv, StrictBuildChecked, StrictReportIsTrue
<1>3. IInv => StrictBuildHolds
  BY <1>1, <1>2 DEF StrictBuildHolds
<1> QED BY <1>3, PluginInvariant, PTL

\* implement_cmd and the fast loop never push a joint before the warm-up is over.
THEOREM PluginForceAwaitsRobot == Spec => []ForceAwaitsRobot
<1>1. IInv => ForceAwaitsRobot
  BY DEF IInv
<1> QED BY <1>1, PluginInvariant, PTL

\* A drive command that follows a fast loop never uses an unwritten voltage.
THEOREM PluginDriveStaysDefined == Spec => DriveStaysDefined
<1>1. ASSUME IInv, [Next]_vars, NEW s \in Sides,
             powerLoaded, runTime > 0, velocity[s] # Undefined
      PROVE  velocity'[s] # Undefined
  <2>1. controllerVoltage = 1
    BY <1>1 DEF IInv, RunInv, ControllersArePowered
  <2>2. ASSUME NEW r \in Sides, DrivetrainCommand(r) PROVE velocity'[s] # Undefined
    <3>1. r \in Topics /\ pending[r] \in Int
      BY <1>1, <2>2, PendingIsInt DEF DrivetrainCommand, Topics, IInv
    <3>2. Times(pending[r], controllerVoltage) \in Int
      BY <2>1, <3>1, ValuesAssumption DEF Times
    <3> QED BY <1>1, <2>2, <3>2, ValuesAssumption DEF DrivetrainCommand, IInv, TypeOK
  <2>3. (\E r \in Sides : DrivetrainCommand(r)) \/ UNCHANGED velocity
    BY <1>1, StepCases
       DEF buildVars, LoadSensors, LoadModel, InitializeSubscriptions, InitializePublications,
           FastLoop, SkipFastLoop, MediumLoop, SkipMediumLoop, UpdateActuator,
           ApplyForce, QueueStep, Handle, SendCommand, ImplementCommand, commandVars, vars
  <2> QED BY <1>1, <2>2, <2>3
<1>2. IInv /\ [Next]_vars =>
        [\A s \in Sides : /\ powerLoaded /\ runTime > 0
                          /\ velocity[s] # Undefined
                          => velocity'[s] # Undefined]_vars
  BY <1>1
<1> QED BY <1>2, PluginInvariant, PTL DEF Spec, DriveStaysDefined
==============================================================================
