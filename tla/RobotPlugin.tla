---------------------------- MODULE RobotPlugin ----------------------------
(***************************************************************************)
(* The Gazebo model plugin: how it loads a model that may lack parts, and  *)
(* how its two threads run afterwards.                                     *)
(*                                                                         *)
(* The world thread runs Load and then OnUpdate, over and over; OnUpdate   *)
(* asks one SimpleTimer per loop whether the loop is due.  The queue       *)
(* thread, started in the middle of Load, runs the command callbacks, and  *)
(* shares the plugin's members with the world thread without a lock.       *)
(* Subscriptions have a queue of one message: a newer command replaces one *)
(* that was not handled yet.                                               *)
(*                                                                         *)
(* A voltage is 0, 1 (the battery is always recharged before it is read)   *)
(* or Undefined, a double that nobody wrote.  A command is a fraction of   *)
(* full scale, which a force or a velocity scales by the voltage.          *)
(***************************************************************************)
EXTENDS Integers, FiniteSets, Sequences

CONSTANTS
  SensorOrder,      \* the sensors in the order LoadSensors looks them up
  Imus, Truth,      \* the two IMUs and truth_imu, which are among them
  BaseLink,         \* the link whose name has "base"
  CameraJoints,     \* the pan and tilt joints of the camera
  CameraAssembly,   \* CameraPanTilt::init, which eROS control groups can fail
  Actuators,        \* the joints with "actuator" in their name
  PositionJoint,    \* actuator -> the "sensor" joint that measures it
  Sides,            \* the two sides of the drivetrain
  Commands,         \* values of a pin message, as fractions of full scale
  Installations,    \* the sets of parts a model description may have
  Builds,           \* values ALLOW_INCOMPLETEMODEL_INITIALIZATION is compiled with
  InitializationTime, \* INITIALIZATION_TIME, in units of simulated time deltas
  Deltas,           \* time deltas the fast loop can see
  Undefined, None

Sensors == {SensorOrder[k] : k \in DOMAIN SensorOrder}
PositionJoints == {PositionJoint[a] : a \in Actuators}
Parts == Sensors \union {BaseLink, CameraJoints, CameraAssembly}
           \union Actuators \union PositionJoints
Topics == Actuators \union Sides

ASSUME PartsAssumption ==
  /\ 1 \in DOMAIN SensorOrder /\ SensorOrder[1] = Truth
  /\ Imus \subseteq Sensors
  /\ Installations \subseteq SUBSET Parts
  /\ Actuators \intersect Sides = {}
ASSUME ValuesAssumption ==
  /\ Commands \subseteq Int /\ None \notin Commands /\ Undefined \notin Int
  /\ Builds \subseteq BOOLEAN
ASSUME TimeAssumption == InitializationTime \in Nat /\ Deltas \subseteq Nat \ {0}

VARIABLES
  installed,         \* the parts the model description has; never changes
  allowIncomplete,   \* ALLOW_INCOMPLETEMODEL_INITIALIZATION; never changes
  worldPc,           \* where the world thread is
  held,              \* the sensors whose Gazebo pointer is set
  imuReady,          \* left_imu.initialized, right_imu.initialized
  actuatorPc,        \* per linear actuator, in the fast loop: what is next
  powerLoaded,       \* battery, motor controllers and motors are initialized
  batteryMode,       \* battery.model_mode
  sensorsReport,     \* message of the SENSORS diagnostic
  queueRunning,      \* rosQueueThread runs
  heartbeat,         \* the TaskState last published
  runTime,           \* run_time, not counted beyond InitializationTime + 1
  robotInitialized,
  controllerVoltage, \* battery_voltage of the motor controllers
  actuatorVoltage,   \* current_voltage of each linear actuator
  targetForce,       \* target_force of each linear actuator
  jointForce,        \* what SetForce last gave the actuator's joint
  velocity,          \* what SetVelocity last gave a side's joints
  pending            \* the message waiting on a topic

buildVars   == <<installed, allowIncomplete>>
modelVars   == <<buildVars, held, imuReady, powerLoaded, batteryMode, sensorsReport>>
clockVars   == <<runTime, robotInitialized>>
commandVars == <<actuatorVoltage, targetForce, velocity, pending>>
vars == <<modelVars, clockVars, commandVars, worldPc, actuatorPc, queueRunning,
          heartbeat, controllerVoltage, jointForce>>

Init ==
  /\ installed \in Installations /\ allowIncomplete \in Builds
  /\ worldPc = "LoadSensors" /\ queueRunning = FALSE
  /\ held = {} /\ imuReady = [i \in Imus |-> FALSE]
  /\ powerLoaded = FALSE /\ batteryMode = "UNKNOWN"
  /\ sensorsReport = "INITIALIZING" /\ heartbeat = None
  /\ runTime = 0 /\ robotInitialized = FALSE
  /\ controllerVoltage = Undefined
  /\ actuatorPc = [a \in Actuators |-> "rest"]
  /\ actuatorVoltage = [a \in Actuators |-> 0]
  /\ targetForce = [a \in Actuators |-> 0] /\ jointForce = targetForce
  /\ velocity = [s \in Sides |-> 0]
  /\ pending = [t \in Topics |-> None]

----------------------------------------------------------------------------
(* Load, on the world thread *)

\* The look-up of a sensor is reached when every earlier one succeeded.
Reached(s) == \E k \in DOMAIN SensorOrder :
                /\ SensorOrder[k] = s
                /\ \A j \in 1 .. k - 1 : SensorOrder[j] \in installed
Loaded(s)  == Reached(s) /\ s \in installed

\* Mutant of AfterSensors: the switch is ignored.
AfterSensorsTolerant(found) == "LoadModel"

\* LoadModel logs the failure of LoadSensors, or gives up.
AfterSensors(found) ==
  IF found = Sensors \/ allowIncomplete THEN "LoadModel" ELSE "inert"

\* LoadSensors gives up at the first sensor it does not find, and leaves the
\* IMUs it did not reach as the constructor left them: initialized is not set.
LoadSensors ==
  /\ worldPc = "LoadSensors"
  /\ held' = {s \in Sensors : Loaded(s)}
  /\ imuReady' \in {ready \in [Imus -> BOOLEAN] :
                      \A i \in Imus : Reached(i) => ready[i] = Loaded(i)}
  /\ worldPc' = AfterSensors(held')
  /\ UNCHANGED <<buildVars, powerLoaded, batteryMode, sensorsReport, clockVars, commandVars,
                 actuatorPc, queueRunning, heartbeat, controllerVoltage, jointForce>>

LinearActuators  == Actuators \intersect installed
CameraReady      == CameraJoints \in installed

\* The rest of LoadModel.  Without the camera's joints it returns before the
\* battery, the motor controllers and the motors are initialized.
LoadModel ==
  /\ worldPc = "LoadModel"
  /\ \/ /\ ~ allowIncomplete
        /\ ~ ({BaseLink, CameraJoints} \subseteq installed /\ LinearActuators # {})
        /\ worldPc' = "inert"
        /\ UNCHANGED <<powerLoaded, batteryMode, sensorsReport>>
     \/ /\ allowIncomplete \/ (BaseLink \in installed /\ LinearActuators # {})
        /\ CameraReady
        /\ powerLoaded' = TRUE /\ batteryMode' = "DISCHARGE_CURVE"
        /\ sensorsReport' = "NOERROR"
        /\ worldPc' = "InitializeSubscriptions"
     \/ /\ allowIncomplete /\ ~ CameraReady
        /\ batteryMode' \in {"UNKNOWN", "IDEAL", "DISCHARGE_CURVE"}
        /\ worldPc' = "InitializeSubscriptions"
        /\ UNCHANGED <<powerLoaded, sensorsReport>>
  /\ UNCHANGED <<buildVars, held, imuReady, clockVars, commandVars, actuatorPc,
                 queueRunning, heartbeat, controllerVoltage, jointForce>>

\* From here on the queue thread runs.
InitializeSubscriptions ==
  /\ worldPc = "InitializeSubscriptions"
  /\ queueRunning' = TRUE
  /\ worldPc' = "InitializePublications"
  /\ UNCHANGED <<modelVars, clockVars, commandVars, actuatorPc, heartbeat,
                 controllerVoltage, jointForce>>

\* The last of Load also sets the target rates, which enables the timers.
InitializePublications ==
  /\ worldPc = "InitializePublications"
  /\ heartbeat' = "INITIALIZING"
  /\ worldPc' = "fast"
  /\ UNCHANGED <<modelVars, clockVars, commandVars, actuatorPc, queueRunning,
                 controllerVoltage, jointForce>>

----------------------------------------------------------------------------
(* OnUpdate, on the world thread.  The loops at 20 Hz and below only read   *)
(* what is modelled here, and are left out.                                 *)

Times(x, v) == IF Undefined \in {x, v} THEN Undefined ELSE x * v

\* Mutant of BatteryVoltage: the battery is charged after the warm-up only.
BatteryVoltageLate == IF robotInitialized THEN 1 ELSE Undefined

\* battery.get_voltage() after recharge_complete().  A battery that was not
\* initialized has no rated voltage, and a discharge curve with no points.
BatteryVoltage == IF powerLoaded THEN 1
                  ELSE IF batteryMode = "UNKNOWN" THEN 0 ELSE Undefined
BatteryThrows  == ~ powerLoaded /\ batteryMode = "DISCHARGE_CURVE"

\* Mutant of NullDereference: the IMUs' initialized is not asked.
NullDereferenceUnchecked ==
  Truth \notin held \/ BaseLink \notin installed \/ \E i \in Imus : i \notin held

\* What the fast loop dereferences once the robot is initialized.
NullDereference ==
  \/ Truth \notin held
  \/ BaseLink \notin installed
  \/ \E i \in Imus : imuReady[i] /\ i \notin held

\* An exception or a null pointer takes both threads of the process down.
Crash == worldPc' = "crashed" /\ queueRunning' = FALSE

\* Mutant of Elapsed: the delta replaces the sum.
ElapsedLast(dt) == dt

\* run_time, where it is compared: not counted beyond the end of the warm-up.
Elapsed(dt) ==
  IF runTime + dt > InitializationTime THEN InitializationTime + 1 ELSE runTime + dt

SkipFastLoop ==
  /\ worldPc = "fast"
  /\ worldPc' = "medium"
  /\ UNCHANGED <<modelVars, clockVars, commandVars, actuatorPc, queueRunning,
                 heartbeat, controllerVoltage, jointForce>>

\* Up to the actuators: the clock, the motor controllers' voltage, the sensors.
FastLoop ==
  /\ worldPc = "fast"
  /\ \E dt \in Deltas : runTime' = Elapsed(dt)
  /\ robotInitialized' = (robotInitialized \/ runTime' > InitializationTime)
  /\ \/ /\ BatteryThrows
        /\ Crash /\ UNCHANGED <<controllerVoltage, actuatorPc>>
     \/ /\ ~ BatteryThrows /\ controllerVoltage' = BatteryVoltage
        /\ robotInitialized' /\ NullDereference
        /\ Crash /\ UNCHANGED actuatorPc
     \/ /\ ~ BatteryThrows /\ controllerVoltage' = BatteryVoltage
        /\ ~ (robotInitialized' /\ NullDereference)
        /\ actuatorPc' = [a \in Actuators |->
             IF robotInitialized' /\ a \in LinearActuators THEN "measure" ELSE "rest"]
        /\ worldPc' = IF \E a \in Actuators : actuatorPc'[a] = "measure"
                      THEN "actuators" ELSE "medium"
        /\ UNCHANGED queueRunning
  /\ UNCHANGED <<modelVars, commandVars, heartbeat, jointForce>>

Turn(a, pc) == /\ worldPc = "actuators" /\ actuatorPc[a] = pc
               /\ \A b \in Actuators \ {a} : actuatorPc[b] # "apply"

\* The position joint of an actuator is looked up by sensor_id, which is not set
\* when the model lacks the joint: the look-up fails or finds another joint.
UpdateActuator(a) ==
  /\ Turn(a, "measure")
  /\ \/ /\ actuatorVoltage' = [actuatorVoltage EXCEPT ![a] = BatteryVoltage]
        /\ actuatorPc' = [actuatorPc EXCEPT ![a] = "apply"]
        /\ UNCHANGED <<worldPc, queueRunning>>
     \/ /\ PositionJoint[a] \notin installed
        /\ Crash
        /\ UNCHANGED <<actuatorVoltage, actuatorPc>>
  /\ UNCHANGED <<modelVars, clockVars, targetForce, velocity, pending, heartbeat,
                 controllerVoltage, jointForce>>

\* Mutant of ApplyForce: the joint is given a force at rest only.
ApplyForceAtRest(a) ==
  /\ Turn(a, "apply")
  /\ jointForce' = [jointForce EXCEPT ![a] = IF @ = 0 THEN targetForce[a] ELSE @]
  /\ actuatorPc' = [actuatorPc EXCEPT ![a] = "rest"]
  /\ worldPc' = IF \A b \in Actuators \ {a} : actuatorPc[b] = "rest"
                THEN "medium" ELSE worldPc
  /\ UNCHANGED <<modelVars, clockVars, commandVars, queueRunning, heartbeat,
                 controllerVoltage>>

ApplyForce(a) ==
  /\ Turn(a, "apply")
  /\ jointForce' = [jointForce EXCEPT ![a] = targetForce[a]]
  /\ actuatorPc' = [actuatorPc EXCEPT ![a] = "rest"]
  /\ worldPc' = IF \A b \in Actuators \ {a} : actuatorPc[b] = "rest"
                THEN "medium" ELSE worldPc
  /\ UNCHANGED <<modelVars, clockVars, commandVars, queueRunning, heartbeat,
                 controllerVoltage>>

\* The timers start together, so the medium loop is never due before a fast one ran.
MediumLoop ==
  /\ worldPc = "medium" /\ runTime > 0
  /\ heartbeat' = "RUNNING"
  /\ IF CameraReady /\ CameraAssembly \notin installed
     THEN Crash
     ELSE worldPc' = "fast" /\ UNCHANGED queueRunning
  /\ UNCHANGED <<modelVars, clockVars, commandVars, actuatorPc,
                 controllerVoltage, jointForce>>

SkipMediumLoop ==
  /\ worldPc = "medium"
  /\ worldPc' = "fast"
  /\ UNCHANGED <<modelVars, clockVars, commandVars, actuatorPc, queueRunning,
                 heartbeat, controllerVoltage, jointForce>>

----------------------------------------------------------------------------
(* The queue thread and the publishers of commands *)

threadVars == <<modelVars, clockVars, worldPc, actuatorPc, queueRunning, heartbeat,
                controllerVoltage, jointForce, actuatorVoltage>>

Subscribed(t) == queueRunning /\ (t \in Sides \/ t \in LinearActuators)

SendCommand(t, c) ==
  /\ Subscribed(t)
  /\ pending' = [pending EXCEPT ![t] = c]
  /\ UNCHANGED <<threadVars, targetForce, velocity>>

\* drivetrain_left_cmd, drivetrain_right_cmd: the joints move at once.
DrivetrainCommand(s) ==
  /\ queueRunning /\ pending[s] # None
  /\ velocity' = [velocity EXCEPT ![s] =
                    IF powerLoaded THEN Times(pending[s], controllerVoltage) ELSE Undefined]
  /\ pending' = [pending EXCEPT ![s] = None]
  /\ UNCHANGED <<threadVars, targetForce>>

\* Mutant of ImplementCommand: scaled by the battery's voltage.
ImplementCommandAtOnce(a) ==
  /\ queueRunning /\ pending[a] # None
  /\ targetForce' = [targetForce EXCEPT ![a] = Times(pending[a], BatteryVoltage)]
  /\ pending' = [pending EXCEPT ![a] = None]
  /\ UNCHANGED <<threadVars, velocity>>

\* implement_cmd: scaled by the voltage the actuator has measured so far.
ImplementCommand(a) ==
  /\ queueRunning /\ pending[a] # None
  /\ targetForce' = [targetForce EXCEPT ![a] = Times(pending[a], actuatorVoltage[a])]
  /\ pending' = [pending EXCEPT ![a] = None]
  /\ UNCHANGED <<threadVars, velocity>>

Load == \/ LoadSensors \/ LoadModel
        \/ InitializeSubscriptions \/ InitializePublications

OnUpdate == \/ FastLoop \/ SkipFastLoop
            \/ \E a \in Actuators : UpdateActuator(a) \/ ApplyForce(a)
            \/ MediumLoop \/ SkipMediumLoop

\* Mutant of Handle: the callbacks run between two loops only.
HandleBetweenLoops(t) ==
  /\ worldPc = "medium"
  /\ \/ t \in Sides /\ DrivetrainCommand(t)
     \/ t \in Actuators /\ ImplementCommand(t)

\* A turn of the queue thread: the callback of one topic that has a message.
Handle(t) == (t \in Sides /\ DrivetrainCommand(t)) \/ (t \in Actuators /\ ImplementCommand(t))

Next == \/ Load \/ OnUpdate
        \/ \E t \in Topics : Handle(t) \/ \E c \in Commands : SendCommand(t, c)

\* Gazebo keeps stepping the world, wall-clock time makes each timer due again
\* and again, and callAvailable handles every topic that has a message.
Fairness ==
  /\ WF_vars(Load \/ OnUpdate) /\ SF_vars(FastLoop) /\ SF_vars(MediumLoop)
  /\ \A t \in Topics : WF_vars(Handle(t))

Spec == Init /\ [][Next]_vars /\ Fairness

----------------------------------------------------------------------------
(* Invariants *)

Values == Int \union {Undefined}

TypeOK ==
  /\ installed \in Installations /\ allowIncomplete \in Builds
  /\ held \subseteq Sensors
  /\ worldPc \in {"LoadSensors", "LoadModel", "InitializeSubscriptions",
                  "InitializePublications", "fast", "actuators", "medium",
                  "inert", "crashed"}
  /\ imuReady \in [Imus -> BOOLEAN]
  /\ actuatorPc \in [Actuators -> {"rest", "measure", "apply"}]
  /\ powerLoaded \in BOOLEAN /\ queueRunning \in BOOLEAN /\ robotInitialized \in BOOLEAN
  /\ batteryMode \in {"UNKNOWN", "IDEAL", "DISCHARGE_CURVE"}
  /\ sensorsReport \in {"INITIALIZING", "NOERROR"}
  /\ heartbeat \in {None, "INITIALIZING", "RUNNING"}
  /\ runTime \in 0 .. InitializationTime + 1
  /\ controllerVoltage \in Values
  /\ actuatorVoltage \in [Actuators -> Values]
  /\ targetForce \in [Actuators -> Values] /\ jointForce \in [Actuators -> Values]
  /\ velocity \in [Sides -> Values]
  /\ pending \in [Topics -> Commands \union {None}]

\* What a model can lack that the plugin does not survive.
LacksCamera  == ~ {CameraJoints, CameraAssembly} \subseteq installed
LacksBody    == ~ {Truth, BaseLink} \subseteq installed
LacksImu     == \E i \in Imus : ~ Reached(i)
LacksJoint   == \E a \in LinearActuators : PositionJoint[a] \notin installed

\* The plugin crashes only on a model that lacks a part, and a part that only the
\* initialized robot uses is missed after the whole warm-up, not while loading.
CrashExplained ==
  worldPc = "crashed" =>
    \/ LacksCamera
    \/ robotInitialized /\ (LacksBody \/ LacksImu \/ LacksJoint)

\* Built with ALLOW_INCOMPLETEMODEL_INITIALIZATION false, Load gives up before
\* anything runs, except for the two things it never checks.
StrictBuildCrash ==
  worldPc = "crashed" => allowIncomplete \/ LacksJoint \/ CameraAssembly \notin installed

\* "Sensors Loaded.", without an error, is reported by the same build only when
\* every look-up succeeded; LoadModel reports it whatever LoadSensors answered.
StrictReportIsTrue == ~ allowIncomplete /\ sensorsReport = "NOERROR" => held = Sensors

\* What a strict build is for: it runs only with what it checked, and its
\* diagnostics tell the truth about what was loaded.
StrictBuildHolds == StrictBuildCrash /\ StrictReportIsTrue

\* No command makes an actuator push before the robot is initialized and the
\* actuator was measured: commands that come earlier are scaled to nothing.
ForceAwaitsRobot ==
  \A a \in Actuators :
    /\ targetForce[a] # 0 \/ jointForce[a] # 0 => robotInitialized
    /\ targetForce[a] # 0 => actuatorVoltage[a] # 0

(* Action property *)

\* Once the fast loop has given the motor controllers a voltage, no drive command
\* can turn it into a velocity computed from memory nobody wrote.
DriveStaysDefined ==
  [][\A s \in Sides : /\ powerLoaded /\ runTime > 0
                      /\ velocity[s] # Undefined
                      => velocity'[s] # Undefined]_vars

(* Liveness *)

Down == worldPc \in {"crashed", "inert"}

\* Load and the warm-up end: the robot is initialized or the plugin is down.
WarmUpEnds == <>(robotInitialized \/ Down)

\* A command is handled or replaced, whatever the world thread does meanwhile.
CommandsAreHandled ==
  \A t \in Topics, c \in Commands : pending[t] = c ~> pending[t] # c \/ Down

\* A force the queue thread computed reaches the joint unless a newer one comes.
ForcesAreApplied ==
  \A a \in Actuators, f \in Commands :
    targetForce[a] = f ~> jointForce[a] = f \/ targetForce[a] # f \/ Down

----------------------------------------------------------------------------
(* What the log of the plugin claims *)

\* "ALLOWING MODEL TO INITIALIZE EVEN IF DESCRIPTION FILES ARE
\* INCOMPLETE/INVALID.": a model that lacks parts does not stop the plugin.
SurvivesIncompleteModel == worldPc # "crashed"
============================================================================
