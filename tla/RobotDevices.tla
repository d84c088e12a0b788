---------------------------- MODULE RobotDevices ----------------------------
(***************************************************************************)
(* The power train and the camera of a loaded robot, between the plugin's  *)
(* two threads.  The world thread polls the timers of its fast and medium  *)
(* loops, in this order, each time Gazebo has updated the world; the queue *)
(* thread runs one command's callback at a time, at any moment.  A timer   *)
(* answers as LoopTimer promises, which SimpleTimer implements.            *)
(*                                                                         *)
(* Time is the wall clock in ticks.  It passes between two updates, by any *)
(* of Delays: a paused world is updated late.  An update, and the reading  *)
(* of the clock by its timers, takes less than a tick.                     *)
(***************************************************************************)
EXTENDS PowerTrain, CameraPanTilt

CONSTANTS
  Unit,                   \* rate times ticks that make one period
  FastRate, MediumRate,   \* the target rates of the loops
  Delays                  \* ticks between two updates of the world

ASSUME RatesAssumption ==
  /\ Unit \in Nat \ {0} /\ FastRate \in Nat /\ MediumRate \in Nat \ {0}
  /\ 2 * FastRate >= 3 * MediumRate
  /\ Delays \subseteq Nat \ {0}

VARIABLES
  worldPc,           \* the loop that is polled next, or "pass" between updates
  fastSince,         \* ticks since the fast loop ran
  mediumSince,       \* ticks since the medium loop ran
  robotInitialized

clockVars == <<fastSince, mediumSince>>
worldVars == <<clockVars, worldPc, robotInitialized>>
vars == <<powerVars, cameraVars, worldVars>>

Fast   == INSTANCE LoopBand WITH Target <- FastRate
Medium == INSTANCE LoopBand WITH Target <- MediumRate

\* The timers start together, at the end of Load.
Init ==
  /\ PowerInit /\ CameraInit
  /\ worldPc = "pass" /\ fastSince = 0 /\ mediumSince = 0
  /\ robotInitialized = FALSE

----------------------------------------------------------------------------
(* The world thread *)

WorldUpdate ==
  /\ worldPc = "pass" /\ worldPc' = "fast"
  /\ \E d \in Delays : fastSince' = fastSince + d /\ mediumSince' = mediumSince + d
  /\ UNCHANGED <<powerVars, cameraVars, robotInitialized>>

\* The warm-up ends in one of the fast loops.
FastLoop ==
  /\ worldPc = "fast" /\ worldPc' = "medium"
  /\ Fast!MayRun(fastSince) /\ fastSince' = 0
  /\ robotInitialized' \in {robotInitialized, TRUE}
  /\ FastLoopPower(robotInitialized')
  /\ UNCHANGED <<cameraVars, mediumSince>>

SkipFastLoop ==
  /\ worldPc = "fast" /\ worldPc' = "medium"
  /\ ~ Fast!MustRun(fastSince)
  /\ UNCHANGED <<powerVars, cameraVars, clockVars, robotInitialized>>

\* The order of the code: the battery first, then the camera.
MediumLoop ==
  /\ worldPc = "medium" /\ worldPc' = "pass"
  /\ Medium!MayRun(mediumSince) /\ mediumSince' = 0
  /\ MediumLoopPower(mediumSince)
  /\ UpdateCamera
  /\ UNCHANGED <<fastSince, robotInitialized>>

SkipMediumLoop ==
  /\ worldPc = "medium" /\ worldPc' = "pass"
  /\ ~ Medium!MustRun(mediumSince)
  /\ UNCHANGED <<powerVars, cameraVars, clockVars, robotInitialized>>

World == WorldUpdate \/ FastLoop \/ SkipFastLoop \/ MediumLoop \/ SkipMediumLoop

----------------------------------------------------------------------------
(* The queue thread *)

QueueIdle == drive = Idle /\ press = NoPress

\* A callback is called when a message came, which may be at any time.
Begin ==
  /\ QueueIdle
  /\ \/ \E s \in Sides, c \in Commands : ReceiveDrive(s, c) /\ UNCHANGED cameraVars
     \/ \E c \in Commands : ActuatorCommand(c) /\ UNCHANGED cameraVars
     \/ \E j \in Joints, d \in {-1, 1} : BeginPress(j, d) /\ UNCHANGED powerVars
  /\ UNCHANGED worldVars

Finish ==
  /\ \/ (ReadVoltage \/ FinishDrive) /\ UNCHANGED cameraVars
     \/ EndPress /\ UNCHANGED powerVars
  /\ UNCHANGED worldVars

Next == World \/ Begin \/ Finish

\* Gazebo goes on updating the world, and a callback that began ends.
Spec == Init /\ [][Next]_vars /\ WF_vars(World) /\ WF_vars(Finish)

----------------------------------------------------------------------------
(* Properties *)

TypeOK ==
  /\ PowerTypeOK /\ CameraTypeOK
  /\ worldPc \in {"pass", "fast", "medium"}
  /\ fastSince \in Nat /\ mediumSince \in Nat
  /\ robotInitialized \in BOOLEAN

\* The force on an actuator was scaled by nothing or by the full voltage: a
\* command that came before the warm-up was over pushes nothing, for ever.
ForceIsOfFullVoltage ==
  targetForce \in {0} \union {c * FullVoltage : c \in Commands}

\* A discharge, or what braking motors gave back, never outlives the next run of
\* the fast loop, so that nothing accumulates over two medium loops: each of them
\* starts from a full battery.
NothingAccumulates == [][mediumSince' < mediumSince => charge = Capacity]_vars

\* The most that can be drawn.
MaxCurrent == BaseCurrent + 2 * Breaker

\* "BATTERY DEPLETED" is logged after one gap between two medium loops that would
\* have emptied the battery at the greatest current, and for no other reason once
\* both sides were driven: a rover that keeps driving never depletes its battery.
DepletionNeedsPause ==
  [][DrawnIsDefined /\ depleted' /\ ~ depleted
       => MaxCurrent * mediumSince > Capacity - Threshold]_vars

\* A depleted battery is full again, whether or not anything was done about it.
DepletionPasses == depleted ~> ~ depleted
============================================================================
