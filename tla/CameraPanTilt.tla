--------------------------- MODULE CameraPanTilt ---------------------------
(***************************************************************************)
(* The camera's pan and tilt joints.  A press of a servo button moves the  *)
(* command of its joint by one increment, on the queue thread; the world   *)
(* thread's medium loop computes the joint's force from the command its    *)
(* control group was given last.  The control groups are eROS code: they   *)
(* keep the inputs that the calls below hand them.                         *)
(*                                                                         *)
(* Angles are in increments of a press, a quarter of a degree.             *)
(***************************************************************************)
EXTENDS Integers

CONSTANTS
  Joints, Pan,  \* the joints, and the one whose increments are negated
  Limit,        \* 90 degrees
  NoPress

ASSUME JointsAssumption == Pan \in Joints /\ NoPress \notin Joints /\ Limit \in Nat \ {0}

VARIABLES
  command,   \* command_value of each joint
  input,     \* the input "Command" of its control group
  applied,   \* the command its output was last computed from
  press      \* the joint whose command is being set, or NoPress

cameraVars == <<command, input, applied, press>>

\* The end of init.
CameraInit ==
  /\ command = [j \in Joints |-> 0] /\ input = command /\ applied = command
  /\ press = NoPress

\* panleftservo_cmd, panrightservo_cmd, tiltupservo_cmd and tiltdownservo_cmd call
\* set_jointcommand: first the increment ...
BeginPress(j, direction) ==
  /\ press = NoPress /\ press' = j
  /\ command' = [command EXCEPT ![j] = IF j = Pan THEN @ - direction ELSE @ + direction]
  /\ UNCHANGED <<input, applied>>

\* Mutant of EndPress: the command is clamped after it was handed on.
EndPressUnclamped ==
  /\ press # NoPress /\ press' = NoPress
  /\ command' = [command EXCEPT ![press] =
                   IF @ > Limit THEN Limit ELSE IF @ < -Limit THEN -Limit ELSE @]
  /\ input' = [input EXCEPT ![press] = command[press]]
  /\ UNCHANGED applied

\* ... then the clamping, and the control group's new input.
EndPress ==
  /\ press # NoPress /\ press' = NoPress
  /\ command' = [command EXCEPT ![press] =
                   IF @ > Limit THEN Limit ELSE IF @ < -Limit THEN -Limit ELSE @]
  /\ input' = [input EXCEPT ![press] = command'[press]]
  /\ UNCHANGED applied

\* update, in the medium loop.
UpdateCamera == applied' = input /\ UNCHANGED <<command, input, press>>

----------------------------------------------------------------------------
(* Properties *)

CameraTypeOK ==
  /\ command \in [Joints -> Int] /\ input \in [Joints -> Int] /\ applied \in [Joints -> Int]
  /\ press \in Joints \union {NoPress}

\* A command that is half set may lie outside the limits; what the control groups
\* are given, and compute forces from, never does.
SetpointsWithinLimits ==
  \A j \in Joints : /\ input[j] \in (0 - Limit) .. Limit
                    /\ applied[j] \in (0 - Limit) .. Limit

\* Between two presses the control group has the command the assembly shows.
InputIsCommand == press = NoPress => input = command
============================================================================
