# A verification project for icarus_sim

icarus_sim simulates the ICARUS rover in Gazebo and estimates poses from what the rover's
sensors say. Three programs make up the repository:

* the **robot plugin** (`RobotPlugin/`), a Gazebo model plugin: it reads a model description,
  drives the joints from ROS commands, and publishes simulated sensors, power and diagnostics;
* the **sensor arm controller** (`SensorArm/`), a ROS node that sweeps the joints of an arm that
  carries a sensor through every combination of positions;
* the **pose model** (`matlab/pose/`), MATLAB code that aligns, links and filters recorded signals,
  and the C program that MathWorks' templates make of it.

This directory holds TLA+ modules that model them, TLC configurations that check the models on
small instances, and TLAPS proofs for every value of the constants. `PROJECT.json` is the index: it
names the source lines of every definition, the runs, a mutated definition that breaks each property,
the hazards of the code, the disagreements found, and the theorems.

    tlc -config MCDiagnosticStore.cfg MCDiagnosticStore     # model-check a run
    tlapm DiagnosticStore_proofs.tla                        # check the proofs of a module

## 1. Inventory

Paths are relative to the repository root. Assets (`models/`, `worlds/`, `launch/`) are data for this
project. The eROS library (messages, loggers, control groups, level codes) is not in the repository and
is modelled from how it is used, as are roscpp and Gazebo.

### Robot plugin: loading and threads (`RobotPlugin/src/RobotPlugin.cpp`, `.h`)

*State*: pointers to the Gazebo links, joints and sensors that were found; `run_time`,
`robot_initialized`, one `SimpleTimer` per loop; the battery, motor controllers, motors, actuators and
camera; the diagnostics; `rosQueueThread`.
*Operations*: `Load` (`LoadSensors` inside `LoadModel`, subscriptions, publications, rates), `OnUpdate`
(loops at 0.1, 1, 10, 20 Hz, medium and fast), callbacks for drivetrain, actuator, pan and tilt
commands.
*Interaction*: Gazebo calls `Load` and `OnUpdate` on its world thread. The plugin's own queue thread
runs the callbacks; both write the same members without a lock. Subscriptions keep one message.
*Hard*: `ALLOW_INCOMPLETEMODEL_INITIALIZATION` lets the plugin go on after any failure of loading, so
every later access has to hold for every partly loaded model; the threads interleave everywhere;
the queue thread starts in the middle of `Load`.
*Correct means*: a crash has a known cause and comes at a known time; no command moves anything
before the warm-up; commands and forces arrive; the diagnostics tell the truth.

### SimpleTimer (`include/SimpleTimer.h`)

*State*: start and last time on the wall clock, a counter of runs, target rate and set rate, the sum of
the rate's errors. *Operations*: `set_targetrate`, `run_loop` (polled by every update of the world),
`check_looprate` (a PID controller of the set rate, called by the medium loop), `reset`.
*Interaction*: paces every loop of the plugin. *Hard*: the error is summed without a bound and never
reset, corrections of 20 percent and more are dropped, the clock is read twice in a run, it can be set back,
and a paused world delays the polls.
*Correct means*: a loop is neither run too often nor refused when it is late, whatever the controller does.

### Power train (`RobotPlugin/src/Power`, `Actuator`)

*State*: charge and depletion of the battery; a voltage in each motor controller and actuator;
currents of motors; a target force. *Operations*: `recharge_complete`, `update`, `get_voltage`, `set_input`,
`set_targetpinvalue`, conversions between pin values and voltages. *Interaction*: the fast loop recharges the battery and
copies its voltage into controllers and actuators, the medium loop discharges it by what the motors draw;
the queue thread reads voltages and writes currents.
*Hard*: torn or stale voltages, currents nobody wrote, the negative current of a motor that brakes, a gap between
two medium loops of any length. *Correct means*: a command acts with a voltage the battery had; nothing that is
drawn or given back adds up.

### Camera pan/tilt (`RobotPlugin/src/CameraPanTilt`)

*State*: a command per joint, the control group's input and output. *Operations*: `init`, `update` (medium
loop), four servo commands (queue thread) that increment and then clamp. *Hard*: `init` can fail and the plugin
does not look at the result; the clamping comes after the increment, on another thread than the reader.
*Correct means*: what a joint is handed is within its limits.

### Simulated sensors (`RobotPlugin/src/Sensor`)

*State*: per signal a status and a mean of squares, an update count per sensor, the last update time the IMU has
seen. *Operations*: `init`, `update` of IMU, truth pose, wheel encoder (fast loop) and sonar (20 Hz). *Hard*: an update time
compared with a remembered one across a reset of simulated time; two signals with one count; a count that
`TruthSensor` never sets. *Correct means*: a signal is not held for ever, and its mean is one of values measured.

### Diagnostics (`SensorArm/src/BaseNodeProcess.cpp`, `RobotPlugin.cpp`)

*State*: a vector of entries, one per type and device; the host's own entries come first into it.
*Operations*: `enable_diagnostics`, `update_diagnostic` (overwrite, insert in front of the last entry of
the type, or refuse). Both programs have a copy of the code.
*Hard*: an insertion index in a `uint8_t`; a linear search that keeps going after a match; reports
before `enable_diagnostics`. *Correct means*: the vector is a map from type and device to the last report.

### Sensor arm controller node (`SensorArm/src/BaseNode.cpp`, `sensorarm_controller_node.cpp`)

*State*: launch parameters, the logger, the heartbeat, `pps_received`, the time each loop last ran,
subscriptions, the SOFTWARE diagnostic. *Operations*: `start` (`preinitialize_basenode`, `finish_initialization`),
`update` (the gate for the pulse, `spinOnce`, the loops), callbacks for pulses and commands (unit test, log level),
`rescan_topics`, the device service call, `cleanup`, signals.
*Interaction*: one thread; ROS, its master and the signals are the environment.
*Hard*: which checks come before which effects; what still works after `ros::ok()` is false;
subscriptions that pile up; a loop of its own while waiting for a pulse; a diagnostic that is overwritten before
the loop that should publish it; timers on simulated time, which can be reset.
*Correct means*: a node that says RUNNING has started properly; it becomes ready; it ends when asked; what it
publishes of its diagnostics is what happened.

### Sensor arm controller process (`SensorArm/src/SensorArmControllerProcess.cpp`, `BaseNodeProcess.cpp`)

*State*: a command per joint, `jointindex_toupdate`, the time of the last move; `initialized`, `ready`,
`unittest_running`. *Operations*: `update` (the odometer over the joints), `process_command`,
`new_devicemsg`, `run_unittest`.
*Hard*: carries between joints, ranges that are no multiple of the step, a start outside the range,
hold time against loop rate, resets of simulated time.
*Correct means*: the controllers are sent every combination, in order, for ever, and no other angle.

### Pose model: the main program (`matlab/pose/R2019b/rtw/c/src/common/rt_main.c`)

*State*: an overrun and an event flag per sample time, a counter per slower rate, the error status, the request to
stop. *Operations*: `rt_OneStep` (single-task and multitask form), `main`'s loop, `rt_TermModel`.
*Interaction*: `main` calls `rt_OneStep` in a loop; its comments say how it is attached to a timer's interrupt, and
then it is entered again while it runs. *Hard*: reentry at every depth and between any two lines, flags of eight bits that tell
whom one has interrupted, a rate that is always interrupted, a report after the fact.
*Correct means*: tasks nest by priority; a hit is served once, and one that is missed is an error; the error names who was too slow.

### Pose model: the rest (`matlab/pose`)

`timecompensate_signal.m` (a ring of eight samples per signal), `SignalLinker.m`, `SignalSplitter.m`,
Kalman filters, scripts, MathWorks' headers and `rt_logging.c`. Sequential, and not modelled (section 8).

## 2. Modules

| module | models | kind |
|---|---|---|
| `DiagnosticMap` | what a store of diagnostics promises: a map | abstract specification |
| `DiagnosticStore` | `enable_diagnostics`, `update_diagnostic` | component, refines `DiagnosticMap` |
| `RobotPlugin` | `Load`, `OnUpdate`, the queue thread | component, two threads |
| `LoopBand`, `LoopTimer` | when a paced loop may run and must run | abstract specification |
| `SimpleTimer` | `run_loop`, `check_looprate`, `set_targetrate`, `reset` | component, refines `LoopTimer` |
| `PowerTrain` | battery, motor controllers, motors, linear actuators | component |
| `CameraPanTilt` | the commands of the camera's joints | component |
| `RobotDevices` | `PowerTrain` and `CameraPanTilt` between the plugin's threads, paced by two instances of `LoopBand` | composition |
| `SimulatedSensors` | IMU, truth pose, wheel encoder, sonar | component |
| `SweepCounter` | what the sweep promises: a counter modulo the number of combinations | abstract specification |
| `SensorArmSweep` | the odometer, the 10 Hz loop, simulated time | component, refines `SweepCounter` |
| `SensorArmNode` | start, update loop, callbacks, cleanup, signals | component with its environment |
| `NodeDiagnostics` | the SOFTWARE diagnostic, the loops' timers, the answers to commands | component with its environment |
| `RtMain` | `rt_OneStep`, `main` | component, interrupts |
| `*_proofs` | theorems about the component they are named after | proofs |
| `MC*` | values for the constants | model checking |

In the component modules, a definition whose comment starts with "Mutant of" is not part of the model:
it is the form that definition would have with a plausible bug, kept beside it to show that
the properties notice.

### DiagnosticStore

`diagnostics`, `root` and `returned` are the vector, `root_diagnostic.DeviceName` and the result of the last
call. `EnableDiagnostics` is `enable_diagnostics`; `UpdateEntry`, `InsertEntry` and `RefuseType` are the three ways
through `update_diagnostic`, chosen by the scan (`HasEntry`, `HasType`, `IsLastOfType`). `InsertIndex` is the
`uint8_t` with `IndexSpan` for 256. A report is a level with a message; the description text is left out.

The refinement mapping builds `DiagnosticMap`'s table from the vector: the report of a key is the first
entry that has it, and the answer is what the call returned. `ImplementsMap` therefore says that nothing is lost, moved to
another key or changed by a refusal.

### RobotPlugin

`worldPc` is the place of the world thread, `actuatorPc` the place of each linear actuator within a fast
loop. One fast loop is `FastLoop` (clock, battery, motor controllers, sensors) followed by `UpdateActuator`
and `ApplyForce` of each actuator, because `implement_cmd` on the queue thread can come in between.
`Handle` is a turn of the queue thread, `SendCommand` a message that arrives and replaces one not handled yet.
`installed` is the set of parts a model description has.

Abstractions, and why they are right here:

* Gazebo calls `Load` and `OnUpdate` on one thread: they do not interleave. The queue thread runs
  concurrently with both, from `InitializeSubscriptions` on.
* A voltage is 0, 1 or `Undefined`: `recharge_complete` runs before every read, so an initialized battery
  always has the same voltage; `NoConsumerSeesDepletion` of `RobotDevices`, where voltages are numbers, confirms it.
* `recharge_complete` has no return statement although it returns `bool`; the
  model takes it to return, as it does in the unoptimised build that `CMakeLists.txt` describes.
* Members the constructor leaves unset (`initialized` of an IMU that loading did not reach, the mode of a
  battery that was not initialized) are chosen nondeterministically; a double nobody wrote is `Undefined`.
* `sensor_id` of an actuator without a position joint is unset: the look-up fails or finds some joint.
* A medium loop on a camera whose `init` failed reads joints that are not there (`joints.at` throws).
* The timers start together, so no medium loop is due before the first fast one. The loops at 20 Hz and
  below only read what is modelled here and are left out.

### SimpleTimer, LoopTimer, LoopBand

Time is the wall clock in ticks; a rate is an integer, and `Unit` is what a rate times the ticks of its period comes to, so that
`dt > 1/set_rate` is a product. `elapsed` and `since` are the times since `m_startTime` and `m_lastTime`. `RunLoop` reads the clock
again for `m_lastTime`, `ReadDelays` later. `CheckLoopRate` is called at most once between two movements of the clock, which
is all the medium loop does. `ClockSetBack` is the wall clock's; it does not go back beyond the start of the process. A rate is divided as
integers are; the band of 20 percent, which everything rests on, is exact.

`LoopTimer` says only what a loop needs: a poll may run it after more than 1/1.2 of its period and must after 1/0.8.
`RobotDevices` instantiates that band twice instead of the timers, so that its theorems hold for every pace the
controller can produce.

### PowerTrain, CameraPanTilt, RobotDevices

A command is a pulse width `-Scale .. Scale`; voltages before a controller are hundredths of a volt, behind it
`2 * Scale`-ths of those; the resistance of a motor is 1. So the conversions stay integers. A double nobody
wrote is `Undefined` and makes `Undefined` whatever is computed from it; a comparison with it goes either way.
`FastLoopPower` and `MediumLoopPower` are the world thread's parts, `ReceiveDrive`, `ReadVoltage` and `FinishDrive` the three
readings of `battery_voltage` in one conversion: world steps come between them. A press of a servo button
is two steps, the increment (`BeginPress`) and the clamping with the new input (`EndPress`).
The queue thread runs one callback at a time (`QueueIdle`). `WorldUpdate` lets one of `Delays` pass; then the fast and the
medium loop are polled in the order of `OnUpdate`, each running or being skipped as its band allows.
Parts have the part numbers the plugin gives them; the refusal of others cannot be reached.

### SimulatedSensors

The devices share nothing, so one is followed, chosen by `Init`. Of Gazebo's times only `lead` matters, the measurement's time minus
the one the IMU has seen; it goes up when Gazebo measures and falls when simulated time is reset. `Sampled` is
`compute_rms` without the root, in `Scale`-ths, `Held` a call that finds nothing newer. `count` goes up to `MaxCount`, after
which a mean is not followed; `TruthInit` leaves it to the memory. `used` and `total` are history: what went into a mean. Several axes are one value.

### SensorArmSweep

`SweepAt10Hz` is the node's 10 Hz loop with the process's `update`: publish first, then move if the hold
time is over. `Moved` is the odometer in closed form. `TimePasses` and `ClockReset` are simulated time, which
Gazebo can reset: then the remembered times lie in the future and `measure_time_diff` is negative. Angles are
integers (the launch file's 0.1 steps up to 6.28 become steps in units of that size); the rounding of
`double` sums is not modelled. The refinement maps a combination to its number (`Number`): the joints are digits (`Digit`), weighted with
how many combinations the joints before them have (`Weights`). It is defined of a launch file and a combination and not of the
state, so that lemmas can speak of it. A step of 0, which the code accepts, leaves the sweep standing; the instance and the theorem about
the order exclude it (`StepsArePositive`).

### SensorArmNode

`nodePc` walks through `start`, the update loop and `cleanup`. `spinning` are the callbacks `spinOnce` found pending when
it was called: those that arrive later wait for the next call. `Found` is `getParam`, which fails for a
parameter that is not given and after a shutdown. `Publish` loses what is sent after `ros::ok()` is false.
`main` installs `SIGINT`'s handler before `ros::init`, which installs roscpp's own instead; `SIGTERM` keeps the
handler of `main`, which exits without cleanup. The rates of the loops are left to the interleaving: a loop is
due or not (`Skip`).

### NodeDiagnostics

The same update loop seen from its diagnostics, with clocks instead of a free choice. `software` is the
one diagnostic that changes, `out` what the last step published. `since` are the loops' timers on simulated time; `Sleep` takes one of
`Delays`; a node that waits for a pulse sleeps (`wait`), spins (`waited`) and starts over. `jitter` is the random
delay of the 0.1 Hz loop. `TestResults` are the reports of `run_unittest`, one for each count that is wrong (`WrongCounts`) and one for all of them; `Answer` is
`new_commandmsg_result`, whose level test decides what of a result is published.
`late` is history: update waited, or slept so long that the loops' order changed. Loops that do not touch a
diagnostic are left out.

### RtMain

`stack` holds the calls of `rt_OneStep` that have not returned, the interrupting one last. A frame is a place and a task: before the
event flags are updated (`flags`), in the base step (`base`), giving up at a missed hit before and after it is counted (`missed`,
`counted`), and in the loop over the slower tasks at the head (`loop`), at the test of the event flag (`test`), before the overrun flag is
counted (`count`), in the task's step (`subrate`) and between the two decrements (`taken`). `multitasking` and `attached` are chosen once: what the build defines, and whether an
interrupt or `main`'s loop makes the calls.

Interrupts come between any two lines but where the comments say that they are disabled: from the entry to the
test of the error status, which `Refused` and `Enter` are. The loop that updates the event flags (rt_main.c:244-254) is one step,
because whatever interrupts it finds the base flag set and is refused, without touching what the loop works on. A line that
raises or lowers a flag is taken to do so in one instruction. A call of the single-task form has no slower tasks
(`Slower`); its end after the base flag is lowered is the `loop` of the other form.

The flags are unsigned chars and wrap: `FlagSpan` stands for 256, and an interrupt may be refused any number of times. `MaxCalls` bounds
the calls that are open at a time, which nothing in the code does. `overran`, `wrapped`, `unserved` and
`exposed` are history: who was found to be too slow, whose overrun flag was counted up to 0, which hits no call has begun to serve, and
whether a call has entered another one in `count` or `taken`, the two windows in which a hit is served twice (section 6). The external mode is not built in.

## 3. Runs

Every property has a mutated definition under which its run finds it violated.

| run | instance | shows |
|---|---|---|
| `diagnostics` | 3 devices, 3 types (2 enabled), `IndexSpan` 3 | refinement of the map, key uniqueness, order |
| `plugin` | models that lack up to 3 of 9 parts, both builds, commands -1 and 1 | every crash is explained, a strict build has fewer and reports the truth; the warm-up ends otherwise; forces wait for it, commands and forces arrive |
| `sweep` | 3 joints, ranges from 0, and ranges that exclude 0 or whose grid misses it | ranges and the refinement of the counter |
| `node_life` | 2 topics, any parameters, 1 rescan | what heartbeat, ready and crash imply; the node ends, becomes ready, runs its callbacks |
| `reports` | periods 2, 4, 8; sleeps of 1 and 3; 1 reset | the first warning is published only by a late node; the 10 Hz loop publishes nothing; failures are forgotten |
| `timer` | a period of 2 ticks, polls every 1 or 3, a clock set back or a reset once | the rate's band, the number of runs, the refinement of `LoopTimer` |
| `devices` | ticks of 10 ms; loops of 50 and 10 Hz; 3 cells, 4 Ah, 30 A; delays of 20 ms and of 228 s | who sees which voltage, torn readings, limits, what depletion takes and that it passes |
| `sensors` | 2 values, 4 calls, 2 resets | which means are defined, what bounds them, that holds end |
| `executive` | 3 rates with periods of 1, 2 and 3 base steps, flags that wrap at 4, 3 open calls | tasks nest, overruns are reported, hits are served, and once |
| `plugin_incomplete`, `node_unittest`, `executive_reinterrupt` | | the disagreements of section 6 |

Bounds, and why they are enough:

* *Diagnostics.* Two types with three devices make six entries, which passes the span of the index
  (exact up to four entries, wrapped beyond); groups in front of, in and behind the type that is inserted into
  exist. The proofs drop these bounds.
* *Plugin.* Two IMUs with a sensor before and one after them are all the positions a missing sensor can
  take relative to what it hides; actuators and sides do not touch each other's state, so one of each
  is enough for the properties, which speak of one at a time (the proofs are for any number and for models that
  lack any parts). A crash has one cause, and three missing parts at once let one cause come before, with or after another.
  `InitializationTime` 2 with deltas 1 and 2 reaches the comparison exactly, below and above; `runTime` is not
  counted beyond `InitializationTime + 1`, where nothing depends on it any more.
* *Sweep.* Three joints as in the code give a carry over one and over two joints. Ranges of two to four
  positions include steps that end on `Stop` and steps that fall short. `HoldTime` 3 and `Period` 2 are not
  multiples. Clocks are capped at `Cap`, the larger of the two thresholds; resets go back at most `MaxReset` and
  happen at most `MaxResets` times, two of each: enough for a reset during a reset.
* *Node.* One parameter stands for those of the joints, which are read in sequence and fail alike. One rescan
  subscribes `/command` a second time, so that a command is delivered twice. One command is under way
  at a time; a second one would be handled
  after it in the same way. The 0.1 Hz loop runs at most `MaxRescans` times, because subscriptions grow
  with every run of it.
* *Reports.* A sleep of 3 ticks makes the 1 Hz loop due together with the 10 Hz loop, the only way to a
  different order of the loops; clocks are not counted beyond `Cap`.
* *Timer.* Polls every 1 and 3 ticks make the loop faster and slower than its target; `WarmUpRuns` 1 lets the
  controller work from the second run, `MaxTime` 8 gives it time to wind up and to have a correction refused. `Rate` 150 is reduced to
  `MaxRate` 100.
* *Devices.* The numbers are the plugin's, so the pause that depletes the battery is a real one (228 s of standing still at the
  greatest current). Full ahead exceeds the breaker, the slow reverse does not. One joint with a limit of one press: two presses pass it.
* *Sensors.* `Scale` 24 is divisible by every count up to 4, so that no mean is rounded; `MaxLead` 3 lets a reset put a measurement
  before, at and after the remembered one.
* *Executive.* Periods 2 and 3, no multiples of each other, make each slower rate due alone, together with the other and while one runs.
  Three open calls are one more than the nesting that serves a hit twice; a wrap at 4 leaves room for a flag that counts a running task, a
  missed hit and a refused interrupt before it is 0 again. The proofs are for any `FlagSpan` from 2 on, any number of rates and any
  `MaxCalls`: as every behaviour reaches only finitely many open calls in finitely many steps, they hold without that bound.

`MaxTime`, `MaxJumps`, `MaxCount`, `MaxLead`, `MaxReset`, `MaxResets`, `MaxRescans` and `MaxCalls` are the only bounds of the models that the code does not have; `FlagSpan` and `IndexSpan`
stand for the 256 values of a byte.

## 4. Fairness

* `RobotPlugin`: the world thread goes on (weak fairness of `Load \/ OnUpdate`, Gazebo keeps stepping); each timer is due
  again and again, because wall-clock time passes (strong fairness of `FastLoop` and `MediumLoop`, whose turns
  come and go; `LoopTimer` is why they come); `callAvailable` handles every topic that has a message (weak fairness of `Handle(t)`).
* `RobotDevices`: Gazebo updates the world (weak fairness of `World`), and a callback that began ends (of `Finish`). That commands come is
  not assumed.
* `SimulatedSensors`: the fast loop runs, and each of Gazebo's sensors measures (weak fairness of each). Only finitely many resets.
* `SensorArmSweep`: simulated time passes and the 10 Hz loop, once due, runs. Only finitely many resets.
* `SensorArmNode`: the thread is scheduled (weak fairness of `Node`) and its 10 Hz loop is due again and again
  (strong fairness of `Run10Hz`: simulated time is not paused for ever). Nothing is assumed of the environment:
  that the device service answers usefully in the end (`MasterAnswers`) is a premise of `BecomesReady` alone.
* `NodeDiagnostics`: `update` is called again and again, and its sleeps end (weak fairness of `Update`); `spinOnce` ends, because it runs
  only what was pending.
* `RtMain`: a call that is not interrupted goes on (weak fairness of `Continue`), the timer's interrupt keeps coming or `main` keeps calling
  (of `rt_OneStep`), and `main` leaves its loop in the end (of `rt_TermModel`).
* `SimpleTimer` states safety only: nobody has to poll it.

Deadlock is checked except where the program may stop: after a crash or a load that gave up
(`RobotPlugin`), when the node has ended (`SensorArmNode`), when `main` has returned (`RtMain`), and when the clock has reached its bound
(`SimpleTimer`).

## 5. Proofs

All theorems hold for every value of the constants that the named assumptions of the modules admit.

**DiagnosticStore_proofs.** `IInv` is `TypeOK`, `KeysUnique`, `TypesAscend`, `HostEntryIsLast` and `HostHasEachType`. Order
alone is not inductive: an insertion *in front of* the last entry keeps the host's entry last only because
every type already has a host entry, so that the last entry of a group is the host's and the device inserted is
a foreign one; `HostHasEachType` is the part that says so. The steps: `EnableKeepsIInv`,
`UpdateKeepsIInv` (no key moves), `InsertKeepsIInv` (from `InsertAtElements`, where the elements are after an insertion,
and `InsertIndexBounds`, what wrapping does to the index). Theorems: `StoreInvariant`, `StoreIsTyped`,
`StoreKeysUnique` (any width of the index), `StoreOrder` and `StoreHostEntryIsLast` (while the vector fits the index), `StoreHostHasEachType`, and
`StoreKeepsOrder`, an action property: an insertion, wherever it is made, moves no entry before another.
`StoreImplementsMap` is the refinement: the map of a vector is where its keys are, so by `KeysUnique` an update changes
one value of it, an insertion adds one key, wherever the index points, and enabling an entry of the host is either.

**RobotPlugin_proofs.** `CrashExplained` needs to know what loading left behind: `LoadInv` ties `held`, `imuReady`, `powerLoaded` and
`batteryMode` to the parts the model has and records what a strict build has checked when it goes on.
`ForceAwaitsRobot` needs `RunInv`: an actuator is measured only after the warm-up, voltages are the
battery's, and the motor controllers have theirs once `run_time` is positive. The case split is by thread:
`QueueStepFrame` shows that the queue thread leaves alone all that the world thread keeps.
Theorems: `PluginInvariant`, `PluginIsTyped`, `PluginCrashExplained`, `PluginStrictBuildHolds` (a strict build's
crashes and its SENSORS diagnostic), `PluginForceAwaitsRobot`, `PluginDriveStaysDefined` (an action property, from the same invariant).

**SimpleTimer_proofs.** The controller is nonlinear (an integral, a division), but nothing of it matters beyond the acceptance test:
`BandBounds` and `FirstRateInBand` bound the rate in use, `DueIsLongEnough` and `NotDueIsShortEnough` turn that into the band
of `LoopBand`. `RunsAreBounded` is inductive with `Started` (the last run is not before the start). Theorems: `TypeCorrect`,
`RateStaysNearTarget`, `RunsStayBounded`, and `Implementation`: every step is one of `LoopTimer` or a stutter.

**RobotDevices_proofs.** A battery that is not full was not recharged since the medium loop last ran, so the fast loop has waited
at least as long as the medium one; while the medium loop is polled, the fast one was not due (`FreshBeforeMedium`). With `RatesAssumption`,
`2 * FastRate >= 3 * MediumRate`, both bands cannot hold of a medium loop that runs then: a fast loop comes between any two medium loops
(a fast loop must run after 5/4 of its period, a medium one cannot before 5/6 of its own, and 5/4 over 5/6 is 3/2; the plugin's rates are 5 apart). Hence each medium loop starts full, every
voltage handed out is the full one (`NoConsumerSeesDepletion`), the three readings agree (`ReadsAreFull`), and by
`ConvertedIsProportional` a velocity is the command's. Theorems: `DevicesAreTyped`, `ConsumersSeeFullBattery`, `VelocityIsNotTorn`,
`CurrentStaysWithinBreaker`, `ForceStaysOfFullVoltage`, `SetpointsStayWithinLimits`, `CommandIsHandedOn`, `NothingEverAccumulates`,
`DepletionAlwaysNeedsPause`: for every battery, breaker, rate and delay.

**SimulatedSensors_proofs.** `FirstCallMeasures` says that a signal that was never updated belongs to a sensor that was never called and
whose measurement is newer than what it has seen: this is why no reset leads a first call to a hold. `AverageIsBetween` is the arithmetic of the
mean. Theorems: `SensorInvariant`, `SensorIsTyped`, `PublishedMeansAreDefined`, `MeansStayBounded`, and `MeansAreAverages`: while no
call was held, the mean is the sum of the squares over the count. The last needs that no quotient is rounded (`ScaleIsExact`: every count up to
`MaxCount` divides `Scale`), which stands for the exact division of the code's doubles.

**SensorArm_proofs.** *The node.* `StartIsChecked` says how far the thread has come and what that tells of the parameters, the logger and the
gate; `CopiesAreCounted` bounds subscriptions by rescans, which types need. Theorems: `NodeLifeInvariant`, `NodeLifeIsTyped`,
`RunningNodeIsGated`, `FinishedNodeFailedStart`, `CrashedNodeHadNoLogger`, for any topics and parameters. `InterruptedNodeRunsOut` is what
`InterruptEnds` needs of the code besides fairness: with an open gate each step of an interrupted thread lowers `StepsLeft`, which is at most ten, and
nobody raises it again. It rests on `NothingArrives`: the shutdown empties the queues, so that no callback is left to run.

*The sweep.* Published angles are the commands of an earlier moment, so the invariant says of commands and of
published angles that they are in range (if 0 is). `MovedStaysInRange` is the lemma about the odometer. Theorems:
`SweepInvariant`, `SweepIsTyped`, `SweepPublishesInRange`, `SweepStaysInRange` (for any start, stop and step).

`SweepCountsInOrder` (`SweepSpec => CountsInOrder` under `StepsArePositive`) is the refinement of the counter without its fairness: after
the first combination on the grid the controllers get each next one in turn, the first after the last, for any number of
joints. It needs what the last published combination was: the command itself or the combination before it (`PublicationCounts`).
The number of a combination is a recursive function of the joints. `RecursionExists` shows that such a function exists and
satisfies its equation, and what it computes is shown joint by joint (`SumsAreBounded`: the joints before the i-th number less than the i-th weight;
`SumsMoveOn`: a step of the odometer adds 1, or the joints up to the i-th all start again and 1 is carried). The library's induction
theorems cannot be applied here, so `CountingUp` derives induction up to n over a *set* of numbers from the well-foundedness of the naturals.

**NodeDiagnostics_proofs.** `NothingRan`: while the first warning stands and update was never late, no loop has run, so all timers agree, and the 10 Hz
loop is the first to be due. Theorems: `NodeInvariant`, `NodeIsTyped`, `FirstWarningMeansLate`, `EveryUnitTestIsAnswered`, `TenHzLoopIsSilent`.

**RtMain_proofs.** The inductive invariant `IInv` is a conjunction of six parts. `Nesting`: nothing is above a call in `flags` or `base` (the base
flag is set there, and when it has wrapped the error status is), and what is above one in `subrate` runs only faster tasks. `FlagsCount`: a flag
that did not wrap is at least the number of calls that run its task plus one if it was found too slow, which is what the final report goes by.
`FlagsAreExact`: as long as no slower task was too slow (`IsLate`), a slower task's flag is 1 if it runs and 0 otherwise, wherever interrupts come.
`HitsAreExact`: if moreover no call has entered one in `count` or `taken` (`exposed`), an event flag is 1 if its hit waits or is being served and 0 otherwise,
never both, and a call that has decided to serve a hit has one. `ServedInTurn`: called from `main`'s loop only, a call serves each hit before the next call. `EndedIsOver` ties the report to the flags. There is one lemma per action
(`EnterIInv`, `RefusedIInv`, ... `TakeHitIInv`); `Moves` and `Returns` say what a step of the last call does to the stack.
Theorems, for any number of rates, any periods, any width of the flags, any number of open calls and interrupts wherever they are not disabled:

* `MainInvariant`, `MainIsTyped`;
* `TasksStayNested`: unless the interrupted task's flag has wrapped, nothing of the same or a lower priority begins on top of it;
* `OverrunsAreReported`: the report names who was too slow, unless the flag has wrapped;
* `FlagsStayExact`: until a slower task is late;
* `HitsStayServedOnce`: until a slower task is late or a call enters one of the two windows.

The premises are necessary: `executive_reinterrupt` violates `HitsAreServedOnce` without `exposed`, and a flag that has wrapped tells nothing
(section 6).

Only model-checked:

* every liveness property (`WarmUpEnds`, `CommandsAreHandled`, `ForcesAreApplied`, `InterruptEnds`, `BecomesReady`, `CallbacksRun`,
  `DepletionPasses`, `HoldEnds`, `FailuresAreForgotten`, `HitsAreServed`), and of `ImplementsCounter` that the sweep goes on for ever: fairness and
  `ENABLED` are beyond the prover.

Every other property of the passing runs is a theorem. Only proved, and not checked by a run of their own: the type invariants, `HostHasEachType`,
`MeanIsAverage`, `CurrentWithinBreaker`, `InputIsCommand`, `UnitTestsAreAnswered`, `StaysInRange`, `FlagsAreExact`, `InterruptedRunsOut`, and
`CountsInOrder`, which `ImplementsCounter` contains.

## 6. Where code and text disagree

Each is a run that TLC finds violated; `PROJECT.json` quotes the lines.

1. `plugin_incomplete`: a model that lacks `truth_imu` is loaded "EVEN IF DESCRIPTION FILES ARE INCOMPLETE" and crashes
   the simulator when the warm-up ends, five seconds later.
2. `node_unittest`: a unit test whose result cannot be parsed is "STILL IN PROGRESS" for ever.
3. `executive_reinterrupt`: from rt_main.c:269 on it is "okay to re-interrupt this ISR", but an interrupt between the test of
   `eventFlags[i]` (280) and the count of `OverrunFlags[i]` (281), or between the decrements of both (295, 296), finds a hit that is
   flagged and a task that does not run, and serves the hit a second time; `eventFlags[i]` is then 255. `HitsAreServedOnce` says that, while no task is late, there is no other such window.

What the models show or the reading met, without a run of its own:

* "ISR overrun - sampling rate too fast for sample time index %d" (rt_main.c:353) is missing for a rate whose flag, a byte, was counted up
  to 0 again by the interrupts that came after the overrun: 256 of them for the base rate, while `main` does not get the processor. `OverrunIsReported`
  says that this is the only way for the report to miss one.
* "Rescanned and found %d new topics." counts topics that are already subscribed, at the first rescan `/command`; each rescan
  subscribes to them once more and every command is handled once per subscription (`subs`, `copies`; `CopiesAreCounted` is their bound).
* The SENSORS diagnostic says "Sensors Loaded." although loading them failed (only a strict build tells the truth,
  `StrictBuildHolds`).
* "Could not complete pre-initialization. Exiting." is followed by a null logger in `cleanup`; `CrashNeedsNoLogger` shows that this is the
  only way for the node to crash.
* A node that waits for a pulse never asks `ros::ok()`, and roscpp's handler, which replaces the one of `main`, sets no kill flag: interrupted,
  such a node waits on (hence the open gate in `InterruptEnds`).
* `recharge_complete` in every fast loop makes the discharge of the medium loop, the depletion and the refusals that go
  with it invisible to everything but the log (`NoConsumerSeesDepletion`, `DepletionNeedsPause`).
* The 10 Hz loop of the node, which is to publish errors, publishes none: `update` has just overwritten them (`LoopReportsNoFailure`).
* An actuator command that comes before the warm-up is over sets a force of 0 that stays until the next command (`ForceIsOfFullVoltage`).
* A motor without any command has a current nobody wrote; `TruthSensor` has a count nobody sets, and publishes a mean from it.
* The medium loop counts the right motor controller's current twice (RobotPlugin.cpp:944 and 945); `BaseCurrent` contains it.
* `TruthSensor`'s elevation is computed from `Pos().Y()`.
* The example of a matrix with a trailing `;` (BaseNodeProcess.h:164) is refused by `convert_dataparameter`, which nobody calls.
* The final report of `rt_main.c` may name the base rate next to the task that was too slow; an interrupt
  after the last step can turn "Simulation finished" into an overrun.

## 7. Plan

Done: all modules of section 2, with the proofs of section 5.

What is left, in this order:

1. The slow loops of the plugin: its average of the update rate, and the loop that publishes the diagnostics, composed with `DiagnosticStore`.
2. One clock for `SensorArmSweep` and `NodeDiagnostics`, whose 10 Hz loops are the same one.
3. `Actuation`: an abstract promise of a commanded joint that `RobotPlugin` and `RobotDevices` together implement on complete models.
4. What a step can break of the liveness properties: who may take back what has to happen in the end (done for `InterruptEnds`).

## 8. Not modelled

* Floating point: rotations and noise of the IMU, the roots of means, Kalman filters, the rounding of joint angles.
* The slow loop's average of the update rate and the very slow loop of the plugin, which publish what the modelled parts keep and change nothing
  of it.
* The conversions and print helpers, and the copying of messages into each other: no control and no state.
* The pose model's MATLAB functions and scripts: sequential code on recordings, called once per sample by a diagram that is in
  no readable form; generated Simulink code and MathWorks' headers; `rt_logging.c`, which writes log files after the model has ended.
* roscpp, Gazebo and eROS themselves: they are the environment, modelled from how the code uses them.
