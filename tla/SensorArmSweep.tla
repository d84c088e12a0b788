--------------------------- MODULE SensorArmSweep ---------------------------
(***************************************************************************)
(* The joint sweep of SensorArmControllerProcess, run at 10 Hz by its      *)
(* node: publish the command of every joint, then, when the hold time is   *)
(* over, move on to the next combination like an odometer whose digits     *)
(* are the joints, the first joint turning fastest.                        *)
(*                                                                         *)
(* Angles are integers.  Clocks are ROS time, which is Gazebo's: it can be *)
(* reset while the node runs, so a time difference can be negative.        *)
(***************************************************************************)
EXTENDS Integers

CONSTANTS
  JointCount,       \* JOINT_COUNT
  Launches,         \* launch files: start, stop and step of every joint
  HoldTime,         \* holdtime_step
  Period,           \* of the 10 Hz loop
  MaxReset,         \* how far back a clock reset is seen to go
  MaxResets,        \* how often the clock is reset
  Unpublished

Joints == 1 .. JointCount

ASSUME JointsAssumption ==
  /\ JointCount \in Nat
  /\ Launches \subseteq [start : [Joints -> Int], stop : [Joints -> Int],
                         step : [Joints -> Nat]]
  /\ \A l \in Launches : \A i \in Joints : l.start[i] <= l.stop[i]
ASSUME ClockAssumption ==
  HoldTime \in Nat /\ Period \in Nat /\ MaxReset \in Nat /\ MaxResets \in Nat
ASSUME UnpublishedAssumption == Unpublished \notin [Joints -> Int]

VARIABLES
  launch,      \* the launch parameters; never change
  command,     \* command_position of every joint
  published,   \* what the controllers were last sent
  first,       \* jointindex_toupdate < 0: update has not run yet
  sinceMove,   \* ROS time since lasttime_jointsupdated
  since10hz,   \* ROS time since last_10hz_timer
  resets       \* how often the clock was reset

sweepVars == <<launch, command, published, first, sinceMove, since10hz, resets>>

Start == launch.start
Stop  == launch.stop
Step  == launch.step

\* Clocks are not counted beyond what the comparisons tell apart.
Cap     == IF HoldTime > Period THEN HoldTime ELSE Period

Later(c, d)   == IF c + d > Cap THEN Cap ELSE c + d
Earlier(c, d) == IF c - d < 0 - MaxReset THEN 0 - MaxReset ELSE c - d

SweepInit ==
  /\ launch \in Launches
  /\ command = [i \in Joints |-> 0]
  /\ published = Unpublished
  /\ first = TRUE
  /\ sinceMove = 0 /\ since10hz = 0 /\ resets = 0

TimePasses ==
  /\ sinceMove < Cap \/ since10hz < Cap
  /\ sinceMove' = Later(sinceMove, 1) /\ since10hz' = Later(since10hz, 1)
  /\ UNCHANGED <<launch, command, published, first, resets>>

\* Gazebo resets the simulated time; the times the node remembers stay.
ClockReset ==
  /\ resets < MaxResets
  /\ resets' = resets + 1
  /\ \E d \in 1 .. MaxReset :
       sinceMove' = Earlier(sinceMove, d) /\ since10hz' = Earlier(since10hz, d)
  /\ UNCHANGED <<launch, command, published, first>>

----------------------------------------------------------------------------
\* Mutant of AtEnd: compared after the step.
AtEndLate(i) == command[i] > Stop[i]

\* Joint i is at the end of its range: one more step leaves it.
AtEnd(i) == command[i] + Step[i] > Stop[i]

\* Mutant of Moved: every joint steps on its own.
MovedTogether ==
  [i \in Joints |-> IF AtEnd(i) THEN Start[i] ELSE command[i] + Step[i]]

\* The first joint that is not at its end steps; those before it start again.
Moved ==
  [i \in Joints |->
     IF \A j \in 1 .. i : AtEnd(j)          THEN Start[i]
     ELSE IF \A j \in 1 .. i - 1 : AtEnd(j) THEN command[i] + Step[i]
     ELSE command[i]]

HoldIsOver == first \/ sinceMove >= HoldTime

\* run_10hz with the process's update: publish first, move afterwards.
SweepAt10Hz ==
  /\ since10hz >= Period
  /\ published' = command
  /\ IF HoldIsOver THEN command' = Moved /\ sinceMove' = 0
                   ELSE UNCHANGED <<command, sinceMove>>
  /\ first' = FALSE
  /\ since10hz' = 0
  /\ UNCHANGED <<launch, resets>>

SweepNext == TimePasses \/ ClockReset \/ SweepAt10Hz

\* Simulated time goes on and the node's loop runs; resets are finitely many.
SweepSpec == SweepInit /\ [][SweepNext]_sweepVars /\ WF_sweepVars(TimePasses) /\ WF_sweepVars(SweepAt10Hz)

----------------------------------------------------------------------------
(* Properties *)

SweepTypeOK ==
  /\ launch \in Launches
  /\ command \in [Joints -> Int]
  /\ published \in [Joints -> Int] \union {Unpublished}
  /\ first \in BOOLEAN
  /\ sinceMove \in (0 - MaxReset) .. Cap /\ since10hz \in (0 - MaxReset) .. Cap
  /\ resets \in 0 .. MaxResets

InRange(i) == Start[i] <= command[i] /\ command[i] <= Stop[i]

\* The launch file puts 0, where every joint starts, into the range.
ZeroInRange == \A i \in Joints : Start[i] <= 0 /\ 0 <= Stop[i]

\* No controller is ever sent an angle outside its joint's start and stop.
PublishedInRange ==
  ZeroInRange /\ published # Unpublished =>
    \A i \in Joints : Start[i] <= published[i] /\ published[i] <= Stop[i]

\* A joint that entered its range never leaves it again, whatever the others do;
\* one whose range excludes 0 starts outside, because no angle is initialized
\* from start_angle.
StaysInRange == [][\A i \in Joints : InRange(i) => InRange(i)']_sweepVars

(* Refinement *)

\* The number of positions that launch file l gives joint i, and the place of
\* combination p among them.
Size(l, i)     == (l.stop[i] - l.start[i]) \div l.step[i] + 1
Digit(l, p, i) == (p[i] - l.start[i]) \div l.step[i]

\* The combinations of the joints.
OnGrid(l, p) ==
  \A i \in Joints : \E k \in 0 .. Size(l, i) - 1 : p[i] = l.start[i] + k * l.step[i]

\* How many combinations the first i joints have.
Weights(l) ==
  LET weight[i \in 0 .. JointCount] == IF i = 0 THEN 1 ELSE weight[i - 1] * Size(l, i)
  IN  weight

\* The number of a combination: the joints are its digits.
Sums(l, p) ==
  LET sum[i \in 0 .. JointCount] ==
        IF i = 0 THEN 0 ELSE sum[i - 1] + Digit(l, p, i) * Weights(l)[i - 1]
  IN  sum
Number(l, p) == Sums(l, p)[JointCount]

Settled == published # Unpublished /\ OnGrid(launch, published)

Counter == INSTANCE SweepCounter
             WITH total <- Weights(launch)[JointCount], settled <- Settled,
                  count <- IF Settled THEN Number(launch, published) ELSE 0

\* Wherever the launch file makes the joints start, the controllers end up seeing
\* the odometer: no combination is skipped or repeated out of turn, and the sweep
\* goes on for ever, clock resets included.
ImplementsCounter == Counter!Spec

\* Of that, what a single step can break: all but the going on for ever.
CountsInOrder == Counter!Safety
============================================================================
