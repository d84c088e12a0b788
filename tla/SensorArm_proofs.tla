-------------------------- MODULE SensorArm_proofs --------------------------
(***************************************************************************)
(* The two components of the sensor arm controller.  What holds of the     *)
(* life of its node for any topics, parameters and number of rescans,      *)
(* wherever it is interrupted; and that its sweep never commands a joint   *)
(* out of its range and, if steps are positive, counts through all         *)
(* combinations in order, whatever the number of joints, their ranges and  *)
(* steps, the rates and the clock resets.                                  *)
(***************************************************************************)
EXTENDS SensorArmNode, SensorArmSweep, WellFoundedInduction, TLAPS

----------------------------------------------------------------------------
(* The life of the node *)

\* Every subscription but the first comes from a rescan, and every subscription
\* brings one copy of a command.
CopiesAreCounted ==
  /\ \A t \in CommandTopics : subs[t] <= rescans + 1
  /\ inbox.copies <= rescans + 1
  /\ "command" \in spinning => inbox.copies > 0

Loops   == {"run", "run_spin", "run_01hz_noisy", "run_1hz", "run_10hz", "end"}
Updates == {"update", "wait", "wait_spin"} \union Loops

\* How far the thread has come tells what start found, and if the gate was open.
StartIsChecked ==
  /\ nodePc = "preinitialize" => heartbeat = "NONE" /\ ~ ready /\ ~ initialized
  /\ nodePc = "start" => loggerMade /\ {Verbosity, RequirePps} \subseteq params
  /\ nodePc \in Updates => params = Parameters /\ loggerMade
  /\ nodePc \in Loops => Gate
  /\ initialized => params = Parameters /\ loggerMade /\ Gate
  /\ nodePc = "cleanup" /\ rosOk => params # Parameters

IInv == /\ TypeOK /\ CopiesAreCounted /\ StartIsChecked
        /\ RunningIsGated /\ FinishedMeansFailedStart /\ CrashNeedsNoLogger

----------------------------------------------------------------------------
(* Types *)

\* A node that was never started has its types.
LEMMA InitTypeOK == Init => TypeOK /\ CopiesAreCounted
<1> SUFFICES ASSUME Init PROVE TypeOK /\ CopiesAreCounted
  OBVIOUS
<1>1. 0 \in 0 .. MaxRescans /\ 0 \in 0 .. MaxRescans + 1 /\ MaxRescans \in Nat
  BY RescansAssumption
<1>2. /\ subs \in [CommandTopics -> 0 .. MaxRescans + 1] /\ rescans \in 0 .. MaxRescans
      /\ inbox \in [level : 0 .. 4, copies : 0 .. MaxRescans + 1]
  BY <1>1 DEF Init, NoCommand
<1>3. CopiesAreCounted
  BY DEF Init, NoCommand, CopiesAreCounted
<1> QED BY <1>2, <1>3 DEF Init, TypeOK

\* Subscriptions stay bounded when the topics are scanned.
LEMMA RescanIsCounted ==
  ASSUME TypeOK, CopiesAreCounted, RescanTopics
  PROVE  /\ subs' \in [CommandTopics -> 0 .. MaxRescans + 1]
         /\ rescans' \in 0 .. MaxRescans /\ CopiesAreCounted'
BY RescansAssumption DEF TypeOK, CopiesAreCounted, RescanTopics, Rescanned

\* A callback takes one copy of the command.
LEMMA CommandIsCounted ==
  ASSUME TypeOK, CopiesAreCounted, CommandCallback
  PROVE  /\ inbox' \in [level : 0 .. 4, copies : 0 .. MaxRescans + 1]
         /\ CopiesAreCounted'
BY RescansAssumption DEF TypeOK, CopiesAreCounted, CommandCallback

\* Every step keeps the types and the counts.
LEMMA NextTypeOK ==
  ASSUME TypeOK, CopiesAreCounted, [Next]_vars
  PROVE  TypeOK' /\ CopiesAreCounted'
<1> USE DEF launchVars, processVars, topicVars
<1>1. CASE Preinitialize
  BY <1>1 DEF Preinitialize, Publish, Found, TypeOK, CopiesAreCounted
<1>2. CASE FinishStart
  <2>1. subs' \in [CommandTopics -> 0 .. MaxRescans + 1]
    <3>1. 1 \in 0 .. MaxRescans + 1
      BY RescansAssumption
    <3> QED BY <1>2, <3>1 DEF FinishStart, TypeOK
  <2>2. CopiesAreCounted'
    BY <1>2, RescansAssumption DEF FinishStart, TypeOK, CopiesAreCounted
  <2> QED BY <1>2, <2>1, <2>2 DEF FinishStart, TypeOK
<1>3. CASE Cleanup
  BY <1>3 DEF Cleanup, Publish, TypeOK, CopiesAreCounted
<1>4. CASE BeginUpdate
  BY <1>4 DEF BeginUpdate, TypeOK, CopiesAreCounted
<1>5. CASE SpinOnce
  BY <1>5 DEF SpinOnce, TypeOK, CopiesAreCounted
<1>6. CASE PpsCallback
  BY <1>6 DEF PpsCallback, TypeOK, CopiesAreCounted
<1>7. CASE CommandCallback
  <2>1. software' \in {"PASSED", "FAILED", "STILL_IN_PROGRESS"} \union {software}
        /\ unittestRunning' \in BOOLEAN
    BY <1>7 DEF CommandCallback, RunUnitTest, TypeOK
  <2> QED BY <1>7, <2>1, CommandIsCounted DEF CommandCallback, TypeOK
<1>8. CASE EndSpin
  BY <1>8 DEF EndSpin, TypeOK, CopiesAreCounted
<1>9. CASE RescanTopics
  BY <1>9, RescanIsCounted DEF RescanTopics, TypeOK
<1>10. CASE DeviceAnswer
  BY <1>10 DEF DeviceAnswer, TypeOK, CopiesAreCounted
<1>11. CASE Run10Hz
  BY <1>11 DEF Run10Hz, Publish, TypeOK, CopiesAreCounted
<1>12. CASE Skip
  BY <1>12 DEF Skip, TypeOK, CopiesAreCounted
<1>13. CASE EndUpdate
  BY <1>13 DEF EndUpdate, TypeOK, CopiesAreCounted
<1>14. ASSUME NEW t \in CommandTopics, Advertise(t) PROVE TypeOK' /\ CopiesAreCounted'
  BY <1>14 DEF Advertise, TypeOK, CopiesAreCounted
<1>15. ASSUME NEW t \in CommandTopics, NEW level \in 1 .. 4, SendCommand(t, level)
       PROVE  TypeOK' /\ CopiesAreCounted'
  BY <1>15 DEF SendCommand, TypeOK, CopiesAreCounted
<1>16. ASSUME NEW value \in {"TRUE", "FALSE"}, SendPps(value)
       PROVE  TypeOK' /\ CopiesAreCounted'
  BY <1>16 DEF SendPps, TypeOK, CopiesAreCounted
<1>17. CASE Interrupt
  <2>1. /\ inbox' \in [level : 0 .. 4, copies : 0 .. MaxRescans + 1]
        /\ CopiesAreCounted'
    BY <1>17, RescansAssumption DEF Interrupt, NoCommand, TypeOK, CopiesAreCounted
  <2>2. /\ rosOk' \in BOOLEAN /\ spinning' \subseteq {"pps", "command"}
        /\ ppsQueue' \in {"NONE", "TRUE", "FALSE"}
    BY <1>17 DEF Interrupt
  <2>3. UNCHANGED <<launchVars, processVars, topics, subs, rescans, nodePc, loggerMade,
                    heartbeat, ppsReceived>>
    BY <1>17 DEF Interrupt
  <2> QED BY <2>1, <2>2, <2>3 DEF TypeOK
<1>18. CASE Terminate
  BY <1>18 DEF Terminate, TypeOK, CopiesAreCounted
<1>19. CASE UNCHANGED vars
  BY <1>19 DEF vars, TypeOK, CopiesAreCounted
<1> QED BY <1>1, <1>2, <1>3, <1>4, <1>5, <1>6, <1>7, <1>8, <1>9, <1>10, <1>11, <1>12,
           <1>13, <1>14, <1>15, <1>16, <1>17, <1>18, <1>19
        DEF Next, Node, Callback, Environment

----------------------------------------------------------------------------
(* What start checks *)

\* The rest of the invariant, which is about the start and its failures.
Checked == /\ StartIsChecked /\ RunningIsGated
           /\ FinishedMeansFailedStart /\ CrashNeedsNoLogger

\* Nothing was published of a node that was never started.
LEMMA InitChecked == Init => Checked
BY DEF Init, Checked, StartIsChecked, RunningIsGated, FinishedMeansFailedStart,
       CrashNeedsNoLogger, Updates, Loops

\* Every step keeps what start checked.
LEMMA NextChecked ==
  ASSUME TypeOK, Checked, [Next]_vars
  PROVE  Checked'
<1> USE DEF launchVars, processVars, topicVars, Checked, StartIsChecked, RunningIsGated,
            FinishedMeansFailedStart, CrashNeedsNoLogger, Updates, Loops, Gate
<1>1. CASE Preinitialize
  BY <1>1, ParametersAssumption DEF Preinitialize, Publish, Found, TypeOK
<1>2. CASE FinishStart
  <2>1. CASE nodePc' = "update"
    <3>1. \A p \in Parameters \ {Verbosity, RequirePps} : Found(p)
      BY <1>2, <2>1 DEF FinishStart
    <3>2. nodePc = "start" /\ loggerMade /\ {Verbosity, RequirePps} \subseteq params
      BY <1>2 DEF FinishStart
    <3>3. params' = Parameters
      BY <1>2, <2>1, <3>1, <3>2, ParametersAssumption DEF FinishStart, Found, TypeOK
    <3> QED BY <1>2, <2>1, <3>2, <3>3 DEF FinishStart, TypeOK
  <2>2. CASE nodePc' = "cleanup"
    <3>1. \E p \in Parameters : ~ Found(p)
      BY <1>2, <2>2 DEF FinishStart
    <3>2. rosOk' => params' # Parameters
      BY <1>2, <3>1 DEF FinishStart, Found, TypeOK
    <3> QED BY <1>2, <2>2, <3>2 DEF FinishStart, TypeOK
  <2> QED BY <1>2, <2>1, <2>2 DEF FinishStart
<1>3. CASE Cleanup
  BY <1>3 DEF Cleanup, Publish, TypeOK
<1>4. CASE BeginUpdate
  BY <1>4 DEF BeginUpdate, TypeOK
<1>5. CASE SpinOnce
  BY <1>5 DEF SpinOnce, TypeOK
<1>6. CASE PpsCallback
  BY <1>6 DEF PpsCallback, TypeOK
<1>7. CASE CommandCallback
  BY <1>7 DEF CommandCallback, TypeOK
<1>8. CASE EndSpin
  BY <1>8 DEF EndSpin, TypeOK
<1>9. CASE RescanTopics
  BY <1>9 DEF RescanTopics, TypeOK
<1>10. CASE DeviceAnswer
  BY <1>10 DEF DeviceAnswer, TypeOK
<1>11. CASE Run10Hz
  BY <1>11 DEF Run10Hz, Publish, TypeOK
<1>12. CASE Skip
  BY <1>12 DEF Skip, TypeOK
<1>13. CASE EndUpdate
  BY <1>13 DEF EndUpdate, TypeOK
<1>14. ASSUME NEW t \in CommandTopics, Advertise(t) PROVE Checked'
  BY <1>14 DEF Advertise, Stopped, TypeOK
<1>15. ASSUME NEW t \in CommandTopics, NEW level \in 1 .. 4, SendCommand(t, level)
       PROVE  Checked'
  BY <1>15 DEF SendCommand, TypeOK
<1>16. ASSUME NEW value \in {"TRUE", "FALSE"}, SendPps(value) PROVE Checked'
  BY <1>16 DEF SendPps, TypeOK
<1>17. CASE Interrupt
  BY <1>17 DEF Interrupt, TypeOK
<1>18. CASE Terminate
  BY <1>18 DEF Terminate, TypeOK
<1>19. CASE UNCHANGED vars
  BY <1>19 DEF vars
<1> QED BY <1>1, <1>2, <1>3, <1>4, <1>5, <1>6, <1>7, <1>8, <1>9, <1>10, <1>11, <1>12,
           <1>13, <1>14, <1>15, <1>16, <1>17, <1>18, <1>19
        DEF Next, Node, Callback, Environment

\* The inductive invariant holds of every behaviour.
THEOREM NodeLifeInvariant == Spec => []IInv
<1>1. Init => IInv
  BY InitTypeOK, InitChecked DEF IInv, Checked
<1>2. IInv /\ [Next]_vars => IInv'
  BY NextTypeOK, NextChecked DEF IInv, Checked
<1> QED BY <1>1, <1>2, PTL DEF Spec

----------------------------------------------------------------------------
(* The theorems *)

\* The state keeps its types, subscriptions and copies of a command their bounds.
THEOREM NodeLifeIsTyped == Spec => []TypeOK
<1>1. IInv => TypeOK
  BY DEF IInv
<1> QED BY <1>1, NodeLifeInvariant, PTL

\* A node that BaseNode::update has let run, or whose process is ready, found all its
\* parameters in start and got the pulse it requires.
THEOREM RunningNodeIsGated == Spec => []RunningIsGated
<1>1. IInv => RunningIsGated
  BY DEF IInv
<1> QED BY <1>1, NodeLifeInvariant, PTL

\* cleanup's heartbeat is published by a node whose start failed, and by no other.
THEOREM FinishedNodeFailedStart == Spec => []FinishedMeansFailedStart
<1>1. IInv => FinishedMeansFailedStart
  BY DEF IInv
<1> QED BY <1>1, NodeLifeInvariant, PTL

\* cleanup dereferences no logger of a node that ran.
THEOREM CrashedNodeHadNoLogger == Spec => []CrashNeedsNoLogger
<1>1. IInv => CrashNeedsNoLogger
  BY DEF IInv
<1> QED BY <1>1, NodeLifeInvariant, PTL

----------------------------------------------------------------------------
(* The end of an interrupted node *)

\* The shutdown empties the queues, and nothing is sent to the node after it.
NothingArrives == ~ rosOk => inbox.copies = 0 /\ ppsQueue = "NONE" /\ spinning = {}

\* It stays like this in every step.
LEMMA NextNothingArrives ==
  ASSUME TypeOK, NothingArrives, [Next]_vars
  PROVE  NothingArrives'
<1> USE DEF NothingArrives, launchVars, processVars, topicVars
<1>1. CASE SpinOnce
  BY <1>1 DEF SpinOnce, TypeOK
<1>2. CASE Callback
  BY <1>2 DEF Callback, PpsCallback, CommandCallback, TypeOK
<1>3. CASE Node /\ ~ SpinOnce /\ ~ Callback
  <2>1. UNCHANGED <<rosOk, inbox, ppsQueue, spinning>>
    BY <1>3 DEF Node, Preinitialize, FinishStart, Cleanup, BeginUpdate, EndSpin,
                RescanTopics, DeviceAnswer, Run10Hz, Skip, EndUpdate
  <2> QED BY <2>1
<1>4. CASE Interrupt
  BY <1>4 DEF Interrupt, NoCommand
<1>5. CASE Environment /\ ~ Interrupt
  <2>1. rosOk' = rosOk
    BY <1>5 DEF Environment, Advertise, SendCommand, SendPps, Terminate
  <2>2. ~ rosOk => UNCHANGED <<inbox, ppsQueue, spinning>>
    BY <1>5 DEF Environment, Advertise, SendCommand, SendPps, Terminate
  <2> QED BY <2>1, <2>2
<1>6. CASE UNCHANGED vars
  BY <1>6 DEF vars
<1> QED BY <1>1, <1>2, <1>3, <1>4, <1>5, <1>6 DEF Next

\* An interrupted node with an open gate is at most ten steps of its thread away from
\* its end, and nobody can take it back: what InterruptEnds needs of the code.
THEOREM InterruptedNodeRunsOut == Spec => InterruptedRunsOut
<1>1. Init => NothingArrives
  BY DEF Init, NothingArrives
<1>2. ASSUME TypeOK, NothingArrives, [Next]_vars, ~ rosOk, Gate
      PROVE  ~ rosOk' /\ Gate'
  BY <1>2 DEF Next, Node, Callback, Environment, Preinitialize, FinishStart, Cleanup, BeginUpdate,
              SpinOnce, PpsCallback, CommandCallback, EndSpin, RescanTopics, DeviceAnswer,
              Run10Hz, Skip, EndUpdate, Advertise, SendCommand, SendPps, Interrupt,
              Terminate, Gate, TypeOK, vars, launchVars
<1>3. ASSUME TypeOK, NothingArrives, Node, ~ rosOk, Gate
      PROVE  StepsLeft' < StepsLeft
  <2>1. ~ Callback
    BY <1>3 DEF NothingArrives, Callback, PpsCallback, CommandCallback
  <2>2. CASE Preinitialize
    BY <1>3, <2>2 DEF Preinitialize, Found, StepsLeft
  <2>3. CASE FinishStart
    BY <1>3, <2>3 DEF FinishStart, StepsLeft
  <2>4. CASE Cleanup
    BY <1>3, <2>4 DEF Cleanup, StepsLeft
  <2>5. CASE BeginUpdate
    BY <1>3, <2>5 DEF BeginUpdate, StepsLeft
  <2>6. CASE SpinOnce
    BY <1>3, <2>6 DEF SpinOnce, StepsLeft
  <2>7. CASE EndSpin
    BY <1>3, <2>7 DEF EndSpin, StepsLeft
  <2>8. CASE RescanTopics \/ DeviceAnswer \/ Run10Hz
    BY <1>3, <2>8 DEF RescanTopics, DeviceAnswer, Run10Hz, StepsLeft
  <2>9. CASE Skip
    BY <1>3, <2>9 DEF Skip, StepsLeft
  <2>10. CASE EndUpdate
    BY <1>3, <2>10 DEF EndUpdate, StepsLeft
  <2> QED BY <1>3, <2>1, <2>2, <2>3, <2>4, <2>5, <2>6, <2>7, <2>8, <2>9, <2>10 DEF Node
<1>4. ASSUME TypeOK, Environment \/ UNCHANGED vars
      PROVE  StepsLeft' <= StepsLeft
  <2>1. TypeOK => StepsLeft \in 0 .. 10
    BY DEF TypeOK, StepsLeft
  <2>2. nodePc' = nodePc \/ nodePc' = "terminated"
    BY <1>4 DEF Environment, Advertise, SendCommand, SendPps, Interrupt, Terminate, vars
  <2>3. nodePc' = nodePc => StepsLeft' = StepsLeft
    BY DEF StepsLeft
  <2>4. nodePc' = "terminated" => StepsLeft' = 0
    BY DEF StepsLeft
  <2> QED BY <1>4, <2>1, <2>2, <2>3, <2>4
<1>5. TypeOK => StepsLeft \in Int
  BY DEF TypeOK, StepsLeft
<1>6. IInv /\ NothingArrives /\ [Next]_vars => NothingArrives'
  BY NextNothingArrives DEF IInv
<1>7. ASSUME IInv, IInv', NothingArrives, [Next]_vars
      PROVE  ~ rosOk /\ Gate => /\ ~ rosOk' /\ Gate' /\ StepsLeft' <= StepsLeft
                               /\ (Node => StepsLeft' < StepsLeft)
  <2>1. TypeOK /\ TypeOK'
    BY <1>7 DEF IInv
  <2>2. StepsLeft \in Int /\ StepsLeft' \in Int
    BY <2>1, <1>5 DEF StepsLeft, TypeOK
  <2>3. CASE Node
    BY <1>2, <1>3, <1>7, <2>1, <2>2, <2>3
  <2>4. CASE ~ Node
    BY <1>2, <1>4, <1>7, <2>1, <2>4 DEF Next
  <2> QED BY <2>3, <2>4
<1> QED BY <1>1, <1>6, <1>7, NodeLifeInvariant, PTL DEF Spec, InterruptedRunsOut

----------------------------------------------------------------------------
(* The sweep *)

\* Inductive: what was published was in range, and so is what will be published
\* next.  The second part needs no more than that every joint starts in range.
SweepIInv ==
  /\ SweepTypeOK
  /\ ZeroInRange => \A i \in Joints : InRange(i)
  /\ PublishedInRange

----------------------------------------------------------------------------
\* The launch parameters, of every joint.
LEMMA LaunchIsTyped ==
  ASSUME launch \in Launches
  PROVE  /\ Start \in [Joints -> Int] /\ Stop \in [Joints -> Int]
         /\ Step \in [Joints -> Nat]
         /\ \A i \in Joints : Start[i] <= Stop[i]
BY JointsAssumption DEF Start, Stop, Step

\* They are those of the launch file for ever.
LEMMA LaunchIsKept ==
  ASSUME [SweepNext]_sweepVars
  PROVE  UNCHANGED <<launch, Start, Stop, Step>>
BY DEF SweepNext, TimePasses, ClockReset, SweepAt10Hz, sweepVars, Start, Stop, Step

\* The odometer keeps every joint an integer, and one that is in range in range.
LEMMA MovedIsTyped ==
  ASSUME launch \in Launches, command \in [Joints -> Int]
  PROVE  Moved \in [Joints -> Int]
BY LaunchIsTyped DEF Moved

\* A joint in its range stays in it, whether it steps, starts again or waits.
LEMMA MovedStaysInRange ==
  ASSUME launch \in Launches, command \in [Joints -> Int], NEW i \in Joints, InRange(i)
  PROVE  Start[i] <= Moved[i] /\ Moved[i] <= Stop[i]
<1>1. /\ command[i] \in Int /\ Start[i] \in Int /\ Stop[i] \in Int /\ Step[i] \in Nat
      /\ Start[i] <= Stop[i]
  BY LaunchIsTyped
<1>2. CASE \A j \in 1 .. i : AtEnd(j)
  BY <1>1, <1>2 DEF Moved
<1>3. CASE ~ (\A j \in 1 .. i : AtEnd(j)) /\ \A j \in 1 .. i - 1 : AtEnd(j)
  <2>1. ~ AtEnd(i)
    <3>1. PICK j \in 1 .. i : ~ AtEnd(j)
      BY <1>3
    <3>2. j = i
      BY <1>3, <3>1 DEF Joints
    <3> QED BY <3>1, <3>2
  <2>2. Moved[i] = command[i] + Step[i]
    BY <1>3 DEF Moved
  <2>3. QED
    BY <1>1, <2>1, <2>2 DEF AtEnd, InRange
<1>4. CASE ~ (\A j \in 1 .. i : AtEnd(j)) /\ ~ \A j \in 1 .. i - 1 : AtEnd(j)
  BY <1>4 DEF Moved, InRange
<1>5. QED
  BY <1>2, <1>3, <1>4

\* A clock that is advanced or set back stays within its bounds.
LEMMA ClocksAreBounded ==
  ASSUME NEW c \in (0 - MaxReset) .. Cap, NEW d \in Nat
  PROVE  /\ Later(c, d) \in (0 - MaxReset) .. Cap
         /\ Earlier(c, d) \in (0 - MaxReset) .. Cap
BY ClockAssumption DEF Later, Earlier, Cap

----------------------------------------------------------------------------
\* Every joint starts at 0.
LEMMA SweepInitIInv == SweepInit => SweepIInv
<1> SUFFICES ASSUME SweepInit PROVE SweepIInv
  OBVIOUS
<1>1. SweepTypeOK
  BY ClockAssumption DEF SweepInit, SweepTypeOK, Cap
<1>2. ZeroInRange => \A i \in Joints : InRange(i)
  BY DEF SweepInit, ZeroInRange, InRange
<1>3. PublishedInRange
  BY DEF SweepInit, PublishedInRange
<1> QED BY <1>1, <1>2, <1>3 DEF SweepIInv

\* A joint in range stays there in every step.
LEMMA StepStaysInRange ==
  ASSUME SweepTypeOK, [SweepNext]_sweepVars, NEW i \in Joints, InRange(i)
  PROVE  InRange(i)'
<1>1. CASE command' = command
  BY <1>1, LaunchIsKept DEF InRange
<1>2. CASE command' = Moved
  BY <1>2, MovedStaysInRange, LaunchIsKept DEF SweepTypeOK, InRange
<1>3. command' = command \/ command' = Moved
  BY DEF SweepNext, TimePasses, ClockReset, SweepAt10Hz, sweepVars
<1> QED BY <1>1, <1>2, <1>3

\* The clocks leave the angles alone, and the 10 Hz loop publishes what was in range.
LEMMA SweepNextIInv == SweepIInv /\ [SweepNext]_sweepVars => SweepIInv'
<1> SUFFICES ASSUME SweepIInv, [SweepNext]_sweepVars PROVE SweepIInv'
  OBVIOUS
<1>1. SweepTypeOK'
  <2> USE ClockAssumption
  <2>1. CASE TimePasses
    BY <2>1, ClocksAreBounded, 1 \in Nat DEF TimePasses, SweepTypeOK, SweepIInv
  <2>2. CASE ClockReset
    <3>1. PICK d \in 1 .. MaxReset :
            sinceMove' = Earlier(sinceMove, d) /\ since10hz' = Earlier(since10hz, d)
      BY <2>2 DEF ClockReset
    <3>2. d \in Nat
      OBVIOUS
    <3>3. /\ sinceMove' \in (0 - MaxReset) .. Cap
          /\ since10hz' \in (0 - MaxReset) .. Cap
      BY <3>1, <3>2, ClocksAreBounded DEF SweepTypeOK, SweepIInv
    <3>4. resets' \in 0 .. MaxResets
      BY <2>2 DEF ClockReset, SweepTypeOK, SweepIInv
    <3> QED BY <2>2, <3>3, <3>4 DEF ClockReset, SweepTypeOK, SweepIInv
  <2>3. CASE SweepAt10Hz
    <3>1. command' \in [Joints -> Int]
      BY <2>3, MovedIsTyped DEF SweepAt10Hz, SweepTypeOK, SweepIInv
    <3>2. 0 \in (0 - MaxReset) .. Cap
      BY DEF Cap
    <3> QED BY <2>3, <3>1, <3>2 DEF SweepAt10Hz, SweepTypeOK, SweepIInv
  <2>4. CASE UNCHANGED sweepVars
    BY <2>4 DEF sweepVars, SweepTypeOK, SweepIInv
  <2> QED BY <2>1, <2>2, <2>3, <2>4 DEF SweepNext
<1>2. ZeroInRange' => \A i \in Joints : InRange(i)'
  BY StepStaysInRange, LaunchIsKept DEF SweepIInv, ZeroInRange
<1>3. PublishedInRange'
  <2>1. CASE published' = published
    BY <2>1, LaunchIsKept DEF PublishedInRange, ZeroInRange, SweepIInv
  <2>2. CASE published' = command
    BY <2>2, LaunchIsKept DEF PublishedInRange, ZeroInRange, InRange, SweepIInv
  <2>3. published' = published \/ published' = command
    BY DEF SweepNext, TimePasses, ClockReset, SweepAt10Hz, sweepVars
  <2> QED BY <2>1, <2>2, <2>3
<1> QED BY <1>1, <1>2, <1>3 DEF SweepIInv

----------------------------------------------------------------------------
\* The invariant the theorems below rest on.
THEOREM SweepInvariant == SweepSpec => []SweepIInv
<1>1. SweepInit => SweepIInv
  BY SweepInitIInv
<1>2. SweepIInv /\ [SweepNext]_sweepVars => SweepIInv'
  BY SweepNextIInv
<1> QED BY <1>1, <1>2, PTL DEF SweepSpec

\* The sweep's clocks and positions stay within their types.
THEOREM SweepIsTyped == SweepSpec => []SweepTypeOK
<1>1. SweepIInv => SweepTypeOK
  BY DEF SweepIInv
<1> QED BY <1>1, SweepInvariant, PTL

\* run_10hz sends the controllers no angle outside [start, stop], for any launch
\* file whose ranges contain 0.
THEOREM SweepPublishesInRange == SweepSpec => []PublishedInRange
<1>1. SweepIInv => PublishedInRange
  BY DEF SweepIInv
<1> QED BY <1>1, SweepInvariant, PTL

\* SensorArmControllerProcess::update never moves a joint out of its range, for
\* any launch file and any clock resets.
THEOREM SweepStaysInRange == SweepSpec => StaysInRange
<1>1. SweepIInv /\ [SweepNext]_sweepVars => [\A i \in Joints : InRange(i) => InRange(i)']_sweepVars
  BY StepStaysInRange DEF SweepIInv
<1> QED BY <1>1, SweepInvariant, PTL DEF SweepSpec, StaysInRange
----------------------------------------------------------------------------
(* The sweep as an odometer.  Recursion over the joints is reasoned about with *)
(* the set of the joints up to which a claim holds: an induction of the first  *)
(* order.                                                                      *)

\* Counting up from 0 to n never leaves a set that each step stays in.
LEMMA CountingUp ==
  ASSUME NEW n \in Nat, NEW S, 0 \in S, \A i \in 1 .. n : i - 1 \in S => i \in S
  PROVE  \A i \in 0 .. n : i \in S
<1> DEFINE T == {i \in 0 .. n : i \notin S}
<1>1. SUFFICES ASSUME T # {} PROVE FALSE
  OBVIOUS
<1>2. T \subseteq Nat
  OBVIOUS
<1>3. PICK m \in T : \A i \in T : ~ (<<i, m>> \in OpToRel(<, Nat))
  BY <1>1, <1>2, NatLessThanWellFounded, WFMin
<1>4. m \in 1 .. n /\ m - 1 \in Nat /\ m - 1 < m
  BY <1>2
<1>5. m - 1 \notin T
  BY <1>2, <1>3, <1>4 DEF OpToRel
<1> QED BY <1>4, <1>5

\* A recursion over 0 .. n that computes integers from integers defines a function.
LEMMA RecursionExists ==
  ASSUME NEW n \in Nat, NEW c \in Int, NEW D \in [1 .. n -> [Int -> Int]]
  PROVE  \E g \in [0 .. n -> Int] :
           g = [i \in 0 .. n |-> IF i = 0 THEN c ELSE D[i][g[i - 1]]]
<1> DEFINE Defined(g, m) == \A i \in 0 .. m : g[i] = IF i = 0 THEN c ELSE D[i][g[i - 1]]
           S == {m \in 0 .. n : \E g \in [0 .. m -> Int] : Defined(g, m)}
<1>1. 0 \in S
  <2> DEFINE g == [i \in 0 .. 0 |-> c]
  <2>1. g \in [0 .. 0 -> Int] /\ Defined(g, 0)
    OBVIOUS
  <2> HIDE DEF g
  <2> QED BY <2>1
<1>2. ASSUME NEW m \in 1 .. n, m - 1 \in S PROVE m \in S
  <2>1. PICK g \in [0 .. m - 1 -> Int] : Defined(g, m - 1)
    BY <1>2
  <2> DEFINE h == [i \in 0 .. m |-> IF i = m THEN D[m][g[m - 1]] ELSE g[i]]
  <2>2. h \in [0 .. m -> Int]
    <3>1. D[m][g[m - 1]] \in Int
      BY <1>2
    <3> QED BY <3>1
  <2>3. \A i \in 0 .. m : h[i] = IF i = m THEN D[m][g[m - 1]] ELSE g[i]
    OBVIOUS
  <2> HIDE DEF h
  <2>4. Defined(h, m)
    <3> SUFFICES ASSUME NEW i \in 0 .. m
                 PROVE  h[i] = IF i = 0 THEN c ELSE D[i][h[i - 1]]
      OBVIOUS
    <3>1. CASE i = m
      <4>1. i # 0 /\ i - 1 \in 0 .. m /\ i - 1 # m
        BY <3>1
      <4> QED BY <2>3, <3>1, <4>1
    <3>2. CASE i # m
      <4>1. i \in 0 .. m - 1 /\ (i # 0 => i - 1 \in 0 .. m /\ i - 1 # m)
        BY <3>2
      <4> QED BY <2>1, <2>3, <3>2, <4>1
    <3> QED BY <3>1, <3>2
  <2>5. \E f \in [0 .. m -> Int] : Defined(f, m)
    BY <2>2, <2>4
  <2> HIDE DEF Defined
  <2>6. m \in 0 .. n
    OBVIOUS
  <2> QED BY <2>5, <2>6
<1> HIDE DEF S
<1>3. n \in S
  <2>1. \A i \in 0 .. n : i \in S
    BY <1>1, <1>2, CountingUp
  <2>2. n \in 0 .. n
    OBVIOUS
  <2> QED BY <2>1, <2>2
<1>4. PICK g \in [0 .. n -> Int] : Defined(g, n)
  BY <1>3 DEF S
<1>5. g = [i \in 0 .. n |-> IF i = 0 THEN c ELSE D[i][g[i - 1]]]
  BY <1>4
<1> QED BY <1>5

\* The number of combinations of the first joints is the product of their sizes.
LEMMA WeightsAreProducts ==
  ASSUME NEW l, \A i \in Joints : Size(l, i) \in Nat \ {0}
  PROVE  /\ Weights(l)[0] = 1
         /\ \A i \in Joints : Weights(l)[i] = Weights(l)[i - 1] * Size(l, i)
         /\ \A i \in 0 .. JointCount : Weights(l)[i] \in Nat \ {0}
<1> DEFINE W(g) == [i \in 0 .. JointCount |-> IF i = 0 THEN 1 ELSE g[i - 1] * Size(l, i)]
           D == [i \in 1 .. JointCount |-> [x \in Int |-> x * Size(l, i)]]
<1>0. JointCount \in Nat /\ Joints = 1 .. JointCount
  BY JointsAssumption DEF Joints
<1>1. \E g : g = W(g)
  <2>1. D \in [1 .. JointCount -> [Int -> Int]]
    BY <1>0
  <2>2. \A i \in 1 .. JointCount, x \in Int : D[i][x] = x * Size(l, i)
    OBVIOUS
  <2> HIDE DEF D
  <2>3. PICK g \in [0 .. JointCount -> Int] :
          g = [i \in 0 .. JointCount |-> IF i = 0 THEN 1 ELSE D[i][g[i - 1]]]
    BY <1>0, <2>1, 1 \in Int, RecursionExists, Zenon
  <2>4. ASSUME NEW i \in 0 .. JointCount
        PROVE  g[i] = IF i = 0 THEN 1 ELSE g[i - 1] * Size(l, i)
    <3>1. CASE i = 0
      BY <2>3, <3>1
    <3>2. CASE i # 0
      <4>1. i \in 1 .. JointCount /\ g[i - 1] \in Int
        BY <1>0, <3>2
      <4>2. g[i] = D[i][g[i - 1]]
        BY <2>3, <3>2
      <4> QED BY <2>2, <3>2, <4>1, <4>2
    <3> QED BY <3>1, <3>2
  <2>5. g = W(g)
    BY <2>3, <2>4
  <2> QED BY <2>5
<1>2. Weights(l) = CHOOSE g : g = W(g)
  BY DEF Weights
<1> HIDE DEF W
<1>3. Weights(l) = W(Weights(l))
  BY <1>1, <1>2
<1>4. /\ Weights(l)[0] = 1
      /\ \A i \in Joints : Weights(l)[i] = Weights(l)[i - 1] * Size(l, i)
  BY <1>0, <1>3 DEF W
<1> DEFINE S == {i \in 0 .. JointCount : Weights(l)[i] \in Nat \ {0}}
<1>5. 0 \in S
  BY <1>0, <1>4
<1>6. ASSUME NEW i \in 1 .. JointCount, i - 1 \in S PROVE i \in S
  <2>1. Weights(l)[i - 1] \in Nat \ {0} /\ Size(l, i) \in Nat \ {0}
    BY <1>0, <1>6
  <2>2. ASSUME NEW a \in Nat \ {0}, NEW b \in Nat \ {0} PROVE a * b \in Nat \ {0}
    OBVIOUS
  <2>3. Weights(l)[i] \in Nat \ {0}
    BY <1>0, <1>4, <2>1, <2>2
  <2> QED BY <1>0, <2>3
<1> HIDE DEF S
<1>7. \A i \in 0 .. JointCount : i \in S
  BY <1>0, <1>5, <1>6, CountingUp
<1> QED BY <1>4, <1>7 DEF S
\* The digits of combinations are summed with the weights of their joints.
LEMMA SumsAreWeighted ==
  ASSUME NEW l, \A i \in Joints : Size(l, i) \in Nat \ {0},
         NEW p, \A i \in Joints : Digit(l, p, i) \in Int
  PROVE  /\ Sums(l, p)[0] = 0
         /\ \A i \in Joints :
              Sums(l, p)[i] = Sums(l, p)[i - 1] + Digit(l, p, i) * Weights(l)[i - 1]
<1> DEFINE W(g) == [i \in 0 .. JointCount |->
                      IF i = 0 THEN 0 ELSE g[i - 1] + Digit(l, p, i) * Weights(l)[i - 1]]
           D == [i \in 1 .. JointCount |->
                   [x \in Int |-> x + Digit(l, p, i) * Weights(l)[i - 1]]]
<1>0. JointCount \in Nat /\ Joints = 1 .. JointCount
  BY JointsAssumption DEF Joints
<1>1. \E g : g = W(g)
  <2>1. D \in [1 .. JointCount -> [Int -> Int]]
    <3>1. \A i \in 1 .. JointCount : Digit(l, p, i) * Weights(l)[i - 1] \in Int
      <4> SUFFICES ASSUME NEW i \in 1 .. JointCount
                   PROVE  Digit(l, p, i) * Weights(l)[i - 1] \in Int
        OBVIOUS
      <4>1. i - 1 \in 0 .. JointCount
        BY <1>0
      <4>2. Digit(l, p, i) \in Int /\ Weights(l)[i - 1] \in Int
        BY <1>0, <4>1, WeightsAreProducts
      <4> QED BY <4>2
    <3> QED BY <3>1
  <2>2. \A i \in 1 .. JointCount, x \in Int :
          D[i][x] = x + Digit(l, p, i) * Weights(l)[i - 1]
    OBVIOUS
  <2> HIDE DEF D
  <2>3. PICK g \in [0 .. JointCount -> Int] :
          g = [i \in 0 .. JointCount |-> IF i = 0 THEN 0 ELSE D[i][g[i - 1]]]
    BY <1>0, <2>1, 0 \in Int, RecursionExists, Zenon
  <2>4. ASSUME NEW i \in 0 .. JointCount
        PROVE  g[i] = IF i = 0 THEN 0 ELSE g[i - 1] + Digit(l, p, i) * Weights(l)[i - 1]
    <3>1. CASE i = 0
      BY <2>3, <3>1
    <3>2. CASE i # 0
      <4>1. i \in 1 .. JointCount /\ g[i - 1] \in Int
        BY <1>0, <3>2
      <4>2. g[i] = D[i][g[i - 1]]
        BY <2>3, <3>2
      <4> QED BY <2>2, <3>2, <4>1, <4>2
    <3> QED BY <3>1, <3>2
  <2>5. g = W(g)
    BY <2>3, <2>4
  <2> QED BY <2>5
<1>2. Sums(l, p) = CHOOSE g : g = W(g)
  BY DEF Sums
<1> HIDE DEF W
<1>3. Sums(l, p) = W(Sums(l, p))
  BY <1>1, <1>2
<1> QED BY <1>0, <1>3 DEF W

\* The positions of a joint, counted from its start: k steps on is position k, and
\* the last one is the one that a further step takes past the stop.
LEMMA PositionsAreCounted ==
  ASSUME NEW a \in Int, NEW b \in Int, NEW s \in Nat \ {0}, a <= b,
         NEW k \in 0 .. (b - a) \div s
  PROVE  /\ (b - a) \div s \in Nat
         /\ (a + k * s) - a = k * s /\ (k * s) \div s = k
         /\ (a + k * s) + s > b <=> k = (b - a) \div s
<1> DEFINE q == (b - a) \div s
<1>1. ASSUME NEW x \in Nat, NEW d \in Nat \ {0}
      PROVE  x \div d \in Nat /\ (x \div d) * d <= x /\ x < (x \div d) * d + d
  BY <1>1
<1>2. b - a \in Nat
  OBVIOUS
<1>3. q \in Nat /\ q * s <= b - a /\ b - a < q * s + s
  BY <1>1, <1>2
<1> HIDE DEF q
<1>4. k \in Nat /\ k <= q
  BY <1>3 DEF q
<1>5. k * s \in Nat
  BY <1>4
<1>6. (k * s) \div s = k
  BY <1>4
<1>7. k < q => k * s + s <= q * s
  <2> SUFFICES ASSUME k < q PROVE k * s + s <= q * s
    OBVIOUS
  <2>1. (q - (k + 1)) * s >= 0
    BY <1>3, <1>4
  <2>2. (q - (k + 1)) * s = q * s - (k * s + s)
    BY <1>3, <1>4
  <2>3. q * s \in Int
    BY <1>3
  <2> QED BY <1>5, <2>1, <2>2, <2>3
<1>8. (a + k * s) + s > b <=> k = q
  <2>1. q * s \in Int
    BY <1>3
  <2>2. CASE k = q
    BY <1>3, <1>5, <2>1, <2>2
  <2>3. CASE k < q
    BY <1>3, <1>5, <1>7, <2>1, <2>3
  <2> QED BY <1>3, <1>4, <2>2, <2>3
<1> QED BY <1>3, <1>5, <1>6, <1>8 DEF q

EndOf(l, p, i) == p[i] + l.step[i] > l.stop[i]

\* Moved, for the combination p under launch file l.
NextOf(l, p) ==
  [i \in Joints |->
     IF \A j \in 1 .. i : EndOf(l, p, j)          THEN l.start[i]
     ELSE IF \A j \in 1 .. i - 1 : EndOf(l, p, j) THEN p[i] + l.step[i]
     ELSE p[i]]

\* Every step of a launch file moves its joint.
StepsArePositive == \A l \in Launches : \A i \in Joints : l.step[i] > 0

\* A joint of a combination is at one of its positions, which its digit tells.
LEMMA DigitIsPosition ==
  ASSUME StepsArePositive, NEW l \in Launches, NEW p, OnGrid(l, p), NEW i \in Joints
  PROVE  /\ Size(l, i) \in Nat \ {0} /\ Digit(l, p, i) \in 0 .. Size(l, i) - 1
         /\ p[i] = l.start[i] + Digit(l, p, i) * l.step[i]
         /\ EndOf(l, p, i) <=> Digit(l, p, i) = Size(l, i) - 1
<1>1. /\ l.start[i] \in Int /\ l.stop[i] \in Int /\ l.step[i] \in Nat \ {0}
      /\ l.start[i] <= l.stop[i]
  BY JointsAssumption DEF StepsArePositive
<1>2. PICK k \in 0 .. Size(l, i) - 1 : p[i] = l.start[i] + k * l.step[i]
  BY DEF OnGrid
<1>3. (l.stop[i] - l.start[i]) \div l.step[i] \in Int
  BY <1>1
<1>4. k \in 0 .. (l.stop[i] - l.start[i]) \div l.step[i]
  BY <1>3 DEF Size
<1> DEFINE a == l.start[i]
           b == l.stop[i]
           s == l.step[i]
<1>5. /\ (b - a) \div s \in Nat
      /\ (a + k * s) - a = k * s /\ (k * s) \div s = k
      /\ (a + k * s) + s > b <=> k = (b - a) \div s
  <2>1. a \in Int /\ b \in Int /\ s \in Nat \ {0} /\ a <= b /\ k \in 0 .. (b - a) \div s
    BY <1>1, <1>4
  <2> HIDE DEF a, b, s
  <2> QED BY <2>1, PositionsAreCounted
<1>6. Digit(l, p, i) = k
  BY <1>2, <1>5 DEF Digit
<1>7. Size(l, i) - 1 = (l.stop[i] - l.start[i]) \div l.step[i] /\ Size(l, i) \in Nat \ {0}
  BY <1>5 DEF Size
<1> QED BY <1>2, <1>5, <1>6, <1>7 DEF EndOf

\* Moving on from a combination leads to one, whose digits are those of an odometer.
LEMMA NextIsOnGrid ==
  ASSUME StepsArePositive, NEW l \in Launches, NEW p, OnGrid(l, p)
  PROVE  /\ OnGrid(l, NextOf(l, p))
         /\ \A i \in Joints :
              Digit(l, NextOf(l, p), i) =
                IF \A j \in 1 .. i : EndOf(l, p, j) THEN 0
                ELSE IF \A j \in 1 .. i - 1 : EndOf(l, p, j) THEN Digit(l, p, i) + 1
                ELSE Digit(l, p, i)
<1> DEFINE q == NextOf(l, p)
           e(i) == IF \A j \in 1 .. i : EndOf(l, p, j) THEN 0
                   ELSE IF \A j \in 1 .. i - 1 : EndOf(l, p, j) THEN Digit(l, p, i) + 1
                   ELSE Digit(l, p, i)
<1>1. ASSUME NEW i \in Joints
      PROVE  /\ e(i) \in 0 .. Size(l, i) - 1
             /\ q[i] = l.start[i] + e(i) * l.step[i]
  <2>1. /\ Size(l, i) \in Nat \ {0} /\ Digit(l, p, i) \in 0 .. Size(l, i) - 1
        /\ p[i] = l.start[i] + Digit(l, p, i) * l.step[i]
        /\ EndOf(l, p, i) <=> Digit(l, p, i) = Size(l, i) - 1
    BY DigitIsPosition
  <2>2. l.start[i] \in Int /\ l.step[i] \in Nat
    BY JointsAssumption
  <2>3. CASE \A j \in 1 .. i : EndOf(l, p, j)
    BY <2>1, <2>2, <2>3 DEF NextOf
  <2>4. CASE /\ ~ \A j \in 1 .. i : EndOf(l, p, j)
             /\ \A j \in 1 .. i - 1 : EndOf(l, p, j)
    <3>1. ~ EndOf(l, p, i)
      <4>1. \A j \in 1 .. i : j # i => j \in 1 .. i - 1
        BY JointsAssumption DEF Joints
      <4> QED BY <2>4, <4>1
    <3>2. Digit(l, p, i) + 1 \in 0 .. Size(l, i) - 1
      BY <2>1, <3>1
    <3>3. q[i] = p[i] + l.step[i] /\ e(i) = Digit(l, p, i) + 1
      BY <2>4 DEF NextOf
    <3>4. ASSUME NEW x \in Int, NEW s \in Int
          PROVE  (x + 1) * s = x * s + s /\ x * s \in Int
      OBVIOUS
    <3>5. Digit(l, p, i) \in Int /\ l.step[i] \in Int
      BY <2>1, <2>2
    <3>6. /\ (Digit(l, p, i) + 1) * l.step[i] = Digit(l, p, i) * l.step[i] + l.step[i]
          /\ Digit(l, p, i) * l.step[i] \in Int
      BY <3>4, <3>5
    <3> HIDE DEF q, e
    <3> QED BY <2>1, <2>2, <3>2, <3>3, <3>6
  <2>5. CASE ~ \A j \in 1 .. i - 1 : EndOf(l, p, j)
    <3>1. ~ \A j \in 1 .. i : EndOf(l, p, j)
      <4>1. \A j \in 1 .. i - 1 : j \in 1 .. i
        BY JointsAssumption DEF Joints
      <4> QED BY <2>5, <4>1
    <3>2. q[i] = p[i] /\ e(i) = Digit(l, p, i)
      BY <2>5, <3>1 DEF NextOf
    <3> QED BY <2>1, <3>2
  <2> QED BY <2>3, <2>4, <2>5
<1> HIDE DEF e, q
<1>2. OnGrid(l, q)
  BY <1>1 DEF OnGrid
<1>3. ASSUME NEW i \in Joints PROVE Digit(l, q, i) = e(i)
  <2>1. /\ l.start[i] \in Int /\ l.stop[i] \in Int /\ l.step[i] \in Nat \ {0}
        /\ l.start[i] <= l.stop[i]
    BY JointsAssumption DEF StepsArePositive
  <2>2. e(i) \in 0 .. (l.stop[i] - l.start[i]) \div l.step[i]
    <3>1. (l.stop[i] - l.start[i]) \div l.step[i] \in Int
      BY <2>1
    <3> QED BY <1>1, <3>1 DEF Size
  <2>3. /\ (l.start[i] + e(i) * l.step[i]) - l.start[i] = e(i) * l.step[i]
        /\ (e(i) * l.step[i]) \div l.step[i] = e(i)
    BY <2>1, <2>2, PositionsAreCounted
  <2> QED BY <1>1, <2>3 DEF Digit
<1> QED BY <1>2, <1>3 DEF e, q
\* A digit d of z on top of a number x below w makes one below w * z, the last one if
\* both are.
LEMMA DigitOnTop ==
  ASSUME NEW w \in Nat \ {0}, NEW z \in Nat \ {0}, NEW d \in 0 .. z - 1, NEW x \in 0 .. w - 1
  PROVE  /\ x + d * w \in 0 .. w * z - 1
         /\ x = w - 1 /\ d = z - 1 => x + d * w = w * z - 1
<1>1. d * w \in Nat /\ w * z \in Nat
  OBVIOUS
<1>2. (z - 1 - d) * w >= 0
  OBVIOUS
<1>3. (z - 1 - d) * w = w * z - w - d * w
  OBVIOUS
<1>4. d * w + w <= w * z
  BY <1>1, <1>2, <1>3
<1>5. ASSUME d = z - 1 PROVE d * w + w = w * z
  BY <1>5
<1> QED BY <1>1, <1>4, <1>5

\* The number of the first i joints is below the number of their combinations.
LEMMA SumsAreBounded ==
  ASSUME StepsArePositive, NEW l \in Launches, NEW p, OnGrid(l, p)
  PROVE  \A i \in 0 .. JointCount : Sums(l, p)[i] \in 0 .. Weights(l)[i] - 1
<1> DEFINE S == {i \in 0 .. JointCount : Sums(l, p)[i] \in 0 .. Weights(l)[i] - 1}
<1>0. JointCount \in Nat /\ Joints = 1 .. JointCount
  BY JointsAssumption DEF Joints
<1>1. \A i \in Joints : Size(l, i) \in Nat \ {0} /\ Digit(l, p, i) \in 0 .. Size(l, i) - 1
  BY DigitIsPosition
<1>2. /\ Sums(l, p)[0] = 0
      /\ \A i \in Joints :
           Sums(l, p)[i] = Sums(l, p)[i - 1] + Digit(l, p, i) * Weights(l)[i - 1]
  <2>1. \A i \in Joints : Digit(l, p, i) \in Int
    BY <1>1
  <2> QED BY <1>1, <2>1, SumsAreWeighted
<1>3. /\ Weights(l)[0] = 1
      /\ \A i \in Joints : Weights(l)[i] = Weights(l)[i - 1] * Size(l, i)
      /\ \A i \in 0 .. JointCount : Weights(l)[i] \in Nat \ {0}
  BY <1>1, WeightsAreProducts
<1>4. 0 \in S
  BY <1>0, <1>2, <1>3
<1>5. ASSUME NEW i \in 1 .. JointCount, i - 1 \in S PROVE i \in S
  <2>1. /\ Weights(l)[i - 1] \in Nat \ {0} /\ Size(l, i) \in Nat \ {0}
        /\ Digit(l, p, i) \in 0 .. Size(l, i) - 1
        /\ Sums(l, p)[i - 1] \in 0 .. Weights(l)[i - 1] - 1
    BY <1>0, <1>1, <1>3, <1>5
  <2>2. Sums(l, p)[i - 1] + Digit(l, p, i) * Weights(l)[i - 1]
          \in 0 .. Weights(l)[i - 1] * Size(l, i) - 1
    BY <2>1, DigitOnTop
  <2>3. Sums(l, p)[i] \in 0 .. Weights(l)[i] - 1
    BY <1>0, <1>2, <1>3, <2>2
  <2> QED BY <1>0, <2>3
<1> HIDE DEF S
<1>6. \A i \in 0 .. JointCount : i \in S
  BY <1>0, <1>4, <1>5, CountingUp
<1> QED BY <1>6 DEF S

\* Moving on adds one to the number of the first joints, or starts it again at 0 if
\* it was the last one: then, and only then, the next joint moves, too.
LEMMA SumsMoveOn ==
  ASSUME StepsArePositive, NEW l \in Launches, NEW p, OnGrid(l, p)
  PROVE  \A i \in 0 .. JointCount :
           IF \A j \in 1 .. i : EndOf(l, p, j)
           THEN Sums(l, p)[i] = Weights(l)[i] - 1 /\ Sums(l, NextOf(l, p))[i] = 0
           ELSE Sums(l, NextOf(l, p))[i] = Sums(l, p)[i] + 1
<1> DEFINE q == NextOf(l, p)
           AllEnd(i) == \A j \in 1 .. i : EndOf(l, p, j)
           S == {i \in 0 .. JointCount :
                   /\ AllEnd(i) => Sums(l, p)[i] = Weights(l)[i] - 1 /\ Sums(l, q)[i] = 0
                   /\ ~ AllEnd(i) => Sums(l, q)[i] = Sums(l, p)[i] + 1}
<1>0. JointCount \in Nat /\ Joints = 1 .. JointCount
  BY JointsAssumption DEF Joints
<1>1. OnGrid(l, q)
  BY NextIsOnGrid
<1>2. \A i \in Joints : /\ Size(l, i) \in Nat \ {0}
                        /\ Digit(l, p, i) \in 0 .. Size(l, i) - 1
                        /\ Digit(l, q, i) \in 0 .. Size(l, i) - 1
                        /\ EndOf(l, p, i) <=> Digit(l, p, i) = Size(l, i) - 1
  <2> HIDE DEF q
  <2> QED BY <1>1, DigitIsPosition
<1>3. /\ Sums(l, p)[0] = 0 /\ Sums(l, q)[0] = 0
      /\ \A i \in Joints :
           /\ Sums(l, p)[i] = Sums(l, p)[i - 1] + Digit(l, p, i) * Weights(l)[i - 1]
           /\ Sums(l, q)[i] = Sums(l, q)[i - 1] + Digit(l, q, i) * Weights(l)[i - 1]
  <2> HIDE DEF q
  <2>1. \A i \in Joints : Digit(l, p, i) \in Int /\ Digit(l, q, i) \in Int
    BY <1>2
  <2> QED BY <1>2, <2>1, SumsAreWeighted
<1>4. /\ Weights(l)[0] = 1
      /\ \A i \in Joints : Weights(l)[i] = Weights(l)[i - 1] * Size(l, i)
      /\ \A i \in 0 .. JointCount : Weights(l)[i] \in Nat \ {0}
  BY <1>2, WeightsAreProducts
<1>5. \A i \in 0 .. JointCount : /\ Sums(l, p)[i] \in 0 .. Weights(l)[i] - 1
                                 /\ Sums(l, q)[i] \in 0 .. Weights(l)[i] - 1
  <2> HIDE DEF q
  <2> QED BY <1>1, SumsAreBounded
<1>6. \A i \in Joints : Digit(l, q, i) = IF AllEnd(i) THEN 0
                                         ELSE IF AllEnd(i - 1) THEN Digit(l, p, i) + 1
                                         ELSE Digit(l, p, i)
  BY NextIsOnGrid
<1> HIDE DEF q
<1>7. \A i \in Joints : AllEnd(i) <=> AllEnd(i - 1) /\ EndOf(l, p, i)
  <2>1. ASSUME NEW i \in Joints PROVE 1 .. i = (1 .. i - 1) \union {i}
    BY <1>0
  <2> QED BY <2>1
<1>8. AllEnd(0)
  OBVIOUS
<1> HIDE DEF AllEnd
<1>9. 0 \in S
  BY <1>0, <1>3, <1>4, <1>8
<1>10. ASSUME NEW i \in 1 .. JointCount, i - 1 \in S PROVE i \in S
  <2> DEFINE w == Weights(l)[i - 1]
             z == Size(l, i)
             d == Digit(l, p, i)
             x == Sums(l, p)[i - 1]
  <2>1. i \in Joints /\ i - 1 \in 0 .. JointCount /\ i \in 0 .. JointCount
    BY <1>0
  <2>2. /\ w \in Nat \ {0} /\ z \in Nat \ {0} /\ d \in 0 .. z - 1 /\ x \in 0 .. w - 1
        /\ Sums(l, p)[i] = x + d * w /\ Weights(l)[i] = w * z
    BY <1>2, <1>3, <1>4, <1>5, <2>1
  <2>3. /\ Sums(l, q)[i] = Sums(l, q)[i - 1] + Digit(l, q, i) * w
        /\ AllEnd(i - 1) => x = w - 1 /\ Sums(l, q)[i - 1] = 0
        /\ ~ AllEnd(i - 1) => Sums(l, q)[i - 1] = x + 1
    BY <1>3, <1>10, <2>1
  <2>4. /\ Digit(l, q, i) = IF AllEnd(i) THEN 0 ELSE IF AllEnd(i - 1) THEN d + 1 ELSE d
        /\ AllEnd(i) <=> AllEnd(i - 1) /\ d = z - 1
    BY <1>2, <1>6, <1>7, <2>1
  <2> HIDE DEF w, z, d, x
  <2>5. CASE AllEnd(i)
    <3>1. Sums(l, p)[i] = w * z - 1
      BY <2>2, <2>3, <2>4, <2>5, DigitOnTop
    <3>2. Sums(l, q)[i] = 0
      BY <2>2, <2>3, <2>4, <2>5
    <3> QED BY <2>1, <2>2, <2>5, <3>1, <3>2
  <2>6. CASE ~ AllEnd(i) /\ AllEnd(i - 1)
    <3>1. Sums(l, q)[i] = (d + 1) * w /\ x = w - 1
      <4>1. Sums(l, q)[i] = 0 + (d + 1) * w
        BY <2>3, <2>4, <2>6
      <4>2. (d + 1) * w \in Int
        BY <2>2
      <4> QED BY <2>3, <2>6, <4>1, <4>2
    <3>2. (d + 1) * w = d * w + w /\ d * w \in Int
      BY <2>2
    <3>3. Sums(l, q)[i] = Sums(l, p)[i] + 1
      BY <2>2, <3>1, <3>2
    <3> QED BY <2>1, <2>6, <3>3
  <2>7. CASE ~ AllEnd(i - 1)
    <3>1. ~ AllEnd(i) /\ Sums(l, q)[i] = (x + 1) + d * w
      BY <2>3, <2>4, <2>7
    <3>2. d * w \in Int
      BY <2>2
    <3>3. Sums(l, q)[i] = Sums(l, p)[i] + 1
      BY <2>2, <3>1, <3>2
    <3> QED BY <2>1, <3>1, <3>3
  <2> QED BY <2>5, <2>6, <2>7
<1> HIDE DEF S
<1>11. \A i \in 0 .. JointCount : i \in S
  BY <1>0, <1>9, <1>10, CountingUp
<1> QED BY <1>11 DEF S, AllEnd, q

\* The number of a combination is one of the counter's, and moving on counts on.
LEMMA NumberCountsOn ==
  ASSUME StepsArePositive, NEW l \in Launches, NEW p, OnGrid(l, p)
  PROVE  /\ Weights(l)[JointCount] \in Nat \ {0}
         /\ Number(l, p) \in 0 .. Weights(l)[JointCount] - 1
         /\ Number(l, NextOf(l, p)) = (Number(l, p) + 1) % Weights(l)[JointCount]
<1> DEFINE w == Weights(l)[JointCount]
<1>0. JointCount \in 0 .. JointCount
  BY JointsAssumption
<1>1. w \in Nat \ {0}
  BY <1>0, DigitIsPosition, WeightsAreProducts
<1>2. Number(l, p) \in 0 .. w - 1 /\ Number(l, NextOf(l, p)) \in 0 .. w - 1
  <2>1. OnGrid(l, NextOf(l, p))
    BY NextIsOnGrid
  <2> QED BY <1>0, <2>1, SumsAreBounded DEF Number
<1>3. \/ Number(l, p) = w - 1 /\ Number(l, NextOf(l, p)) = 0
      \/ Number(l, NextOf(l, p)) = Number(l, p) + 1
  BY <1>0, SumsMoveOn DEF Number
<1> HIDE DEF w
<1>4. ASSUME NEW x \in 0 .. w - 1
      PROVE  (x = w - 1 => (x + 1) % w = 0) /\ (x < w - 1 => (x + 1) % w = x + 1)
  <2>1. ASSUME NEW a \in Nat, NEW b \in Nat \ {0}
        PROVE  (a = b => a % b = 0) /\ (a < b => a % b = a)
    OBVIOUS
  <2>2. x + 1 \in Nat /\ (x = w - 1 => x + 1 = w) /\ (x < w - 1 => x + 1 < w)
    BY <1>1
  <2> QED BY <1>1, <2>1, <2>2
<1> QED BY <1>1, <1>2, <1>3, <1>4 DEF w
\* Every joint has a position, and so have the joints together.
LEMMA CombinationsExist ==
  ASSUME StepsArePositive, NEW l \in Launches
  PROVE  Weights(l)[JointCount] \in Nat \ {0}
<1>1. ASSUME NEW i \in Joints PROVE Size(l, i) \in Nat \ {0}
  <2> DEFINE x == l.stop[i] - l.start[i]
  <2>1. x \in Nat /\ l.step[i] \in Nat \ {0}
    BY JointsAssumption DEF StepsArePositive
  <2>2. ASSUME NEW a \in Nat, NEW b \in Nat \ {0} PROVE a \div b \in Nat
    OBVIOUS
  <2> HIDE DEF x
  <2>3. x \div l.step[i] + 1 \in Nat \ {0}
    BY <2>1, <2>2
  <2> QED BY <2>3 DEF Size, x
<1>2. JointCount \in 0 .. JointCount
  BY JointsAssumption
<1> QED BY <1>1, <1>2, WeightsAreProducts

\* What the controllers were last sent is the command, or the command before it
\* moved on.
PublishedIsCurrent ==
  published # Unpublished => command = published \/ command = NextOf(launch, published)

LEMMA MovedIsNext == Moved = NextOf(launch, command)
BY DEF Moved, NextOf, AtEnd, EndOf, Start, Stop, Step

\* A publication that differs from the one before is the next combination, once the
\* joints have settled on one.
LEMMA PublicationCounts ==
  ASSUME StepsArePositive, SweepTypeOK, PublishedIsCurrent, SweepAt10Hz
  PROVE  [Counter!Next]_(Counter!vars)
<1> USE DEF Counter!vars
<1>0. /\ launch \in Launches /\ launch' = launch /\ published' = command
      /\ command # Unpublished
  BY UnpublishedAssumption DEF SweepTypeOK, SweepAt10Hz
<1>1. Settled' <=> OnGrid(launch, command)
  BY <1>0 DEF Settled
<1> DEFINE total == Weights(launch)[JointCount]
<1>2. CASE ~ Settled /\ ~ Settled'
  <2>1. Settled \in BOOLEAN /\ Settled' \in BOOLEAN
    BY DEF Settled
  <2> QED BY <1>0, <1>2, <2>1
<1>3. CASE ~ Settled /\ Settled'
  <2>1. Number(launch, command) \in 0 .. total - 1
    BY <1>0, <1>1, <1>3, NumberCountsOn
  <2> QED BY <1>0, <1>3, <2>1 DEF Counter!Next, Counter!Settle
<1>4. CASE Settled
  <2>1. published # Unpublished /\ OnGrid(launch, published)
    BY <1>4 DEF Settled
  <2>2. CASE command = published
    <3>1. Settled' /\ published' = published
      BY <1>0, <1>1, <2>1, <2>2
    <3> QED BY <1>0, <1>4, <3>1
  <2>3. CASE command = NextOf(launch, published)
    <3>1. Settled'
      BY <1>0, <1>1, <2>1, <2>3, NextIsOnGrid
    <3>2. Number(launch, command) = (Number(launch, published) + 1) % total
      BY <1>0, <2>1, <2>3, NumberCountsOn
    <3> QED BY <1>0, <1>4, <3>1, <3>2 DEF Counter!Next, Counter!Advance
  <2> QED BY <2>1, <2>2, <2>3 DEF PublishedIsCurrent
<1> QED BY <1>2, <1>3, <1>4

\* SensorArmControllerProcess::update is an odometer, for any number of joints, any
\* ranges and any steps that move: once the joints have settled, the controllers see
\* every combination, none twice before all were seen, and clock resets and late
\* loops change nothing of that.
THEOREM SweepCountsInOrder ==
  ASSUME StepsArePositive
  PROVE  SweepSpec => CountsInOrder
<1>1. SweepInit => Counter!Init
  <2> SUFFICES ASSUME SweepInit PROVE Counter!Init
    OBVIOUS
  <2>1. launch \in Launches /\ ~ Settled
    BY DEF SweepInit, Settled
  <2> QED BY <2>1, CombinationsExist DEF Counter!Init
<1>2. SweepInit => PublishedIsCurrent
  BY DEF SweepInit, PublishedIsCurrent
<1>3. PublishedIsCurrent /\ [SweepNext]_sweepVars => PublishedIsCurrent'
  <2> SUFFICES ASSUME PublishedIsCurrent, [SweepNext]_sweepVars PROVE PublishedIsCurrent'
    OBVIOUS
  <2>1. CASE SweepAt10Hz
    BY <2>1, MovedIsNext DEF SweepAt10Hz, PublishedIsCurrent
  <2>2. CASE ~ SweepAt10Hz
    BY <2>2 DEF SweepNext, TimePasses, ClockReset, sweepVars, PublishedIsCurrent
  <2> QED BY <2>1, <2>2
<1>4. SweepIInv /\ PublishedIsCurrent /\ [SweepNext]_sweepVars => [Counter!Next]_(Counter!vars)
  <2> SUFFICES ASSUME SweepIInv, PublishedIsCurrent, [SweepNext]_sweepVars
               PROVE  [Counter!Next]_(Counter!vars)
    OBVIOUS
  <2>1. CASE SweepAt10Hz
    BY <2>1, PublicationCounts DEF SweepIInv
  <2>2. CASE ~ SweepAt10Hz
    <3>1. UNCHANGED <<launch, published>>
      BY <2>2 DEF SweepNext, TimePasses, ClockReset, sweepVars
    <3> QED BY <3>1 DEF Counter!vars, Settled
  <2> QED BY <2>1, <2>2
<1> QED BY <1>1, <1>2, <1>3, <1>4, SweepInvariant, PTL
        DEF SweepSpec, CountsInOrder, Counter!Safety
=============================================================================
