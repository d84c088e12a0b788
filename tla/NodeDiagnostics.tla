--------------------------- MODULE NodeDiagnostics ---------------------------
(***************************************************************************)
(* What a node of the sensor arm reports: the SOFTWARE diagnostic of its   *)
(* process, which callbacks and loops overwrite, and the messages on its   *)
(* diagnostic topic, which several of them publish from it by its level.   *)
(* (The other diagnostic, DATA_STORAGE, is INFO from the start.)           *)
(*                                                                         *)
(* One thread repeats BaseNode::update: the callbacks, a sleep, and the    *)
(* loops that are due in a fixed order: 0.1 Hz noisy, 1 Hz, 10 Hz.  Time   *)
(* is simulated; it passes in the sleep and can be reset.  Loops that have *)
(* no effect on the diagnostics (0.01 Hz, 0.1 Hz, loop1 to 3) are left out.*)
(***************************************************************************)
EXTENDS Integers, Sequences

CONSTANTS
  Period10, Period1, PeriodNoisy, \* in ticks
  Jitters,        \* values of rand_delay_sec, added to the noisy period
  Delays,         \* ticks a sleep can take
  MaxReset,       \* how far back a reset of simulated time is seen to go
  MaxResets,      \* bound: how often it is reset
  Verbosities     \* log levels

ASSUME PeriodsAssumption ==
  /\ Period10 \in Nat \ {0} /\ Period1 \in Nat /\ PeriodNoisy \in Nat
  /\ Jitters \subseteq Int /\ \A j \in Jitters : j <= Period1
  /\ Period10 <= Period1 /\ \A j \in Jitters : Period1 <= PeriodNoisy + j
ASSUME TimeAssumption == Delays \subseteq Nat \ {0} /\ MaxReset \in Nat /\ MaxResets \in Nat

Loops == {"noisy", "1hz", "10hz"}

\* Clocks are not counted beyond it.
Cap == PeriodNoisy + Period1

VARIABLES
  nodePc,          \* what update does next
  gateOpen,        \* it need not wait for a pulse per second, or got one
  since,           \* per loop, simulated time since its timer was set
  jitter,          \* rand_delay_sec
  software,        \* the SOFTWARE diagnostic
  out,             \* the diagnostics published by the last step
  initialized, unittestRunning, \* of the process
  verbosity,       \* of the logger
  resets,
  late             \* history: update waited or slept too long for its loops' order

clockVars   == <<since, jitter, resets, late>>
processVars == <<initialized, unittestRunning, verbosity>>
vars == <<nodePc, gateOpen, clockVars, software, out, processVars>>

\* A report is what update_diagnostic stores and returns.
Levels == [INFO |-> 1, NOTICE |-> 2, WARN |-> 3, ERROR |-> 4]
Report(level, text) == [level |-> level, text |-> text]
AtLeast(report, level) == Levels[report.level] >= Levels[level]

Initializing    == Report("WARN", "INITIALIZING")
Rescanned       == Report("INFO", "RESCANNED")
UpdatedDevice   == Report("INFO", "UPDATED_DEVICE")
NodeRunning     == Report("INFO", "NODE_RUNNING")
VariablesPassed == Report("INFO", "PASSED")
UnitTestPassed  == Report("NOTICE", "PASSED")
StillInProgress == Report("WARN", "STILL_IN_PROGRESS")
Failure(what)   == Report("ERROR", what)

\* Mutant of TimersAtStart: the timer of the 1 Hz loop is not set.
TimersAtStartUnset == [l \in Loops |-> IF l = "1hz" THEN Cap ELSE 0]

TimersAtStart == [l \in Loops |-> 0]

\* start has enabled the diagnostics and set the timers.
Init ==
  /\ nodePc = "update" /\ gateOpen \in BOOLEAN
  /\ since = TimersAtStart /\ jitter \in Jitters
  /\ software = Initializing /\ out = {}
  /\ initialized = FALSE /\ unittestRunning = FALSE /\ verbosity \in Verbosities
  /\ resets = 0 /\ late = FALSE

----------------------------------------------------------------------------
(* update: the gate, and the callbacks of spinOnce *)

BeginUpdate ==
  /\ nodePc = "update"
  /\ nodePc' = IF gateOpen THEN "run" ELSE "wait"
  /\ late' = (late \/ ~ gateOpen)
  /\ out' = {}
  /\ UNCHANGED <<gateOpen, since, jitter, resets, software, processVars>>

\* A node that waits for a pulse sleeps first, and spins then.
Spinning == nodePc \in {"run", "waited"}

PpsCallback ==
  /\ Spinning
  /\ gateOpen' = TRUE
  /\ out' = {}
  /\ UNCHANGED <<nodePc, clockVars, software, processVars>>

Last(reports) == reports[Len(reports)]

\* The counts of a test that can be wrong, in the order they are looked at.
WrongCounts ==
  {<<"NO_TESTS">>, <<"ERRORS">>, <<"FAILURES">>, <<"NO_TESTS", "ERRORS">>,
   <<"NO_TESTS", "FAILURES">>, <<"ERRORS", "FAILURES">>, <<"NO_TESTS", "ERRORS", "FAILURES">>}

\* The results run_unittest can return: that a test runs, a result it cannot parse,
\* a success, or a failure for each wrong count and one for all of them.
TestResults ==
  IF unittestRunning THEN {<<StillInProgress>>}
  ELSE {<<Failure("NO_RESULT")>>, <<UnitTestPassed>>}
         \union {[i \in 1 .. Len(wrong) + 1 |->
                    Failure(IF i <= Len(wrong) THEN wrong[i] ELSE "FAILED")] : wrong \in WrongCounts}

\* new_commandmsg_result: a single success of level 3 and above is published, and of
\* any other result what is NOTICE or worse.
Answer(level, reports) ==
  IF level >= 3 /\ Len(reports) = 1 /\ reports[1].text = "PASSED"
  THEN {reports[1]}
  ELSE {reports[i] : i \in {i \in DOMAIN reports : AtLeast(reports[i], "NOTICE")}}

\* Command_Callback for ROVERCOMMAND_RUNDIAGNOSTIC.  The answer of level 1 is of a
\* type that is not enabled, level 4 has none.
RunDiagnostic(level) ==
  /\ Spinning
  /\ \/ /\ level = 2
        /\ software' = VariablesPassed /\ out' = Answer(level, <<VariablesPassed>>)
        /\ UNCHANGED unittestRunning
     \/ /\ level = 3
        /\ \E reports \in TestResults :
             /\ software' = Last(reports) /\ out' = Answer(level, reports)
             /\ unittestRunning' = (unittestRunning \/ reports = <<Failure("NO_RESULT")>>)
     \/ /\ level \in {1, 4}
        /\ out' = {} /\ UNCHANGED <<software, unittestRunning>>
  /\ UNCHANGED <<nodePc, gateOpen, clockVars, initialized, verbosity>>

\* Who a ROVERCOMMAND_SETLOGLEVEL is for.  The component of BaseNode's own diagnostic
\* is never set, and a text that is empty is found in every name.
IsAddressed(option, text) ==
  option \in {"ENTIRE_SUBSYSTEM", "NO_COMPONENT"} \/ text \in {"EMPTY", "PART_OF_NAME"}

SetLogLevel(option, text, level) ==
  /\ Spinning
  /\ verbosity' = IF IsAddressed(option, text) THEN level ELSE verbosity
  /\ out' = {}
  /\ UNCHANGED <<nodePc, gateOpen, clockVars, software, initialized, unittestRunning>>

\* The rate's sleep, or the second that a node which waits for a pulse sleeps.
Sleep ==
  /\ nodePc \in {"run", "wait"}
  /\ nodePc' = IF nodePc = "run" THEN "noisy" ELSE "waited"
  /\ \E d \in Delays :
       /\ since' = [l \in Loops |-> IF since[l] + d > Cap THEN Cap ELSE since[l] + d]
       /\ late' = (late \/ d > Period1 - Period10)
  /\ out' = {}
  /\ UNCHANGED <<gateOpen, jitter, resets, software, processVars>>

\* update of a node that waits returns without running any loop.
EndWait ==
  /\ nodePc = "waited" /\ nodePc' = "update"
  /\ out' = {}
  /\ UNCHANGED <<gateOpen, clockVars, software, processVars>>

----------------------------------------------------------------------------
(* The loops *)

\* Mutant of Due: measure_time_diff with its operands swapped.
DueSwapped(loop, period) == 0 - since[loop] >= period

Due(loop, period) == since[loop] >= period

\* A loop that is due sets its timer; one that is not publishes nothing.
Poll(loop, period, next, Body) ==
  /\ nodePc = loop /\ nodePc' = next
  /\ \/ Due(loop, period) /\ Body /\ since' = [since EXCEPT ![loop] = 0]
     \/ ~ Due(loop, period) /\ out' = {} /\ UNCHANGED <<since, jitter, software, initialized>>
  /\ UNCHANGED <<gateOpen, resets, late, unittestRunning, verbosity>>

\* All diagnostics are published, and then what rescan_topics made of the one.
RunNoisy ==
  Poll("noisy", PeriodNoisy + jitter, "1hz",
       /\ jitter' \in Jitters
       /\ software' = Rescanned /\ out' = {software, Rescanned}
       /\ UNCHANGED initialized)

\* The device service may answer a process that has no device yet.
Run1Hz ==
  Poll("1hz", Period1, "10hz",
       /\ \/ ~ initialized /\ initialized' = TRUE /\ software' = UpdatedDevice
          \/ UNCHANGED <<initialized, software>>
       /\ out' = {r \in {software'} : r.level = "WARN"}
       /\ UNCHANGED jitter)

\* Mutant of Run10Hz: errors are published before the process is updated.
Run10HzPublishesFirst ==
  Poll("10hz", Period10, "update",
       /\ software' = NodeRunning
       /\ out' = {r \in {software} : AtLeast(r, "ERROR")}
       /\ UNCHANGED <<jitter, initialized>>)

\* The process's update, and what is worse than WARN after it.
Run10Hz ==
  Poll("10hz", Period10, "update",
       /\ software' = NodeRunning
       /\ out' = {r \in {software'} : AtLeast(r, "ERROR")}
       /\ UNCHANGED <<jitter, initialized>>)

\* Gazebo resets the simulated time; the timers stay.
ClockReset ==
  /\ resets < MaxResets /\ resets' = resets + 1
  /\ \E d \in 1 .. MaxReset : since' = [l \in Loops |-> since[l] - d]
  /\ out' = {}
  /\ UNCHANGED <<nodePc, gateOpen, jitter, software, processVars, late>>

Update == BeginUpdate \/ Sleep \/ EndWait \/ RunNoisy \/ Run1Hz \/ Run10Hz

Callback ==
  \/ PpsCallback
  \/ \E level \in 1 .. 4 : RunDiagnostic(level)
  \/ \E level \in Verbosities, option \in {"ENTIRE_SUBSYSTEM", "NO_COMPONENT", "OTHER"},
        text \in {"EMPTY", "PART_OF_NAME", "OTHER"} : SetLogLevel(option, text, level)

Next == Update \/ Callback \/ ClockReset

\* Update is called again and again; spinOnce runs the callbacks that were pending
\* when it was called, so that it ends.
Spec == Init /\ [][Next]_vars /\ WF_vars(Update)

----------------------------------------------------------------------------
(* Properties *)

Reports ==
  {Initializing, Rescanned, UpdatedDevice, NodeRunning, VariablesPassed, UnitTestPassed,
   StillInProgress}
    \union {Failure(what) : what \in {"NO_RESULT", "NO_TESTS", "ERRORS", "FAILURES", "FAILED"}}

TypeOK ==
  /\ nodePc \in {"update", "run", "wait", "waited"} \union Loops /\ gateOpen \in BOOLEAN
  /\ since \in [Loops -> Int] /\ \A l \in Loops : since[l] <= Cap
  /\ jitter \in Jitters
  /\ software \in Reports /\ out \subseteq Reports
  /\ initialized \in BOOLEAN /\ unittestRunning \in BOOLEAN
  /\ verbosity \in Verbosities
  /\ resets \in 0 .. MaxResets /\ late \in BOOLEAN

\* Every unit test is answered at once with the report that it leaves behind, be it
\* a success, a failure or that one is still in progress.
UnitTestsAreAnswered == [][RunDiagnostic(3) => software' \in out']_vars

\* The 10 Hz loop, whose part it is to publish what is worse than WARN, never
\* publishes anything: the update before it has overwritten every error.
LoopReportsNoFailure == [][nodePc = "10hz" => out' = {}]_vars

\* The warning that enable_diagnostics leaves is published by no node that runs in
\* time: it takes a wait for the pulse, or one sleep of almost a second.
InitializingMeansLate == Initializing \in out => late

\* Nothing worse than INFO stays in the diagnostic of a node that runs.
FailuresAreForgotten == (gateOpen /\ software.level # "INFO") ~> software.level = "INFO"
=============================================================================
