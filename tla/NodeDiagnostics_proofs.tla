----------------------- MODULE NodeDiagnostics_proofs -----------------------
(***************************************************************************)
(* What is published of the SOFTWARE diagnostic, whatever the periods, the *)
(* delays, the resets and the order of callbacks.                          *)
(***************************************************************************)
EXTENDS NodeDiagnostics, TLAPS

\* As long as nothing has overwritten the first warning no loop has run, so that
\* the timers agree; and update was never late, so that 10 Hz would have run next.
NothingRan ==
  software = Initializing /\ ~ late =>
    /\ nodePc \notin {"wait", "waited"}
    /\ \A l, m \in Loops : since[l] = since[m]
    /\ since["10hz"] < IF nodePc \in Loops THEN Period1 ELSE Period10

IInv == TypeOK /\ InitializingMeansLate /\ NothingRan

----------------------------------------------------------------------------
(* Operators *)

\* Every report has a level.
LEMMA ReportsHaveLevels ==
  ASSUME NEW r \in Reports
  PROVE  r.level \in {"INFO", "NOTICE", "WARN", "ERROR"}
BY DEF Reports, Initializing, Rescanned, UpdatedDevice, NodeRunning, VariablesPassed,
       UnitTestPassed, StillInProgress, Failure, Report

\* One to three counts are wrong.
LEMMA WrongCountsAreReported ==
  ASSUME NEW wrong \in WrongCounts
  PROVE  /\ Len(wrong) \in 1 .. 3
         /\ \A i \in 1 .. Len(wrong) : wrong[i] \in {"NO_TESTS", "ERRORS", "FAILURES"}
BY DEF WrongCounts

\* A failure is a report.
LEMMA FailureIsReport ==
  ASSUME NEW what \in {"NO_RESULT", "NO_TESTS", "ERRORS", "FAILURES", "FAILED"}
  PROVE  /\ Failure(what) \in Reports /\ Failure(what) # Initializing
         /\ Failure(what).level = "ERROR"
BY DEF Reports, Failure, Report, Initializing

\* What holds of the reports of a unit test.
IsResult(reports) ==
  /\ Len(reports) \in 1 .. 4 /\ DOMAIN reports = 1 .. Len(reports)
  /\ \A i \in DOMAIN reports : /\ reports[i] \in Reports /\ reports[i] # Initializing
                               /\ reports[i].level \in {"NOTICE", "WARN", "ERROR"}

\* A unit test returns one report to four.
LEMMA TestResultsAreReports ==
  ASSUME NEW reports \in TestResults
  PROVE  /\ IsResult(reports)
         /\ Last(reports) \in Reports /\ Last(reports) # Initializing
         /\ Last(reports).level \in {"NOTICE", "WARN", "ERROR"}
<1>1. ASSUME NEW r \in {StillInProgress, UnitTestPassed, Failure("NO_RESULT")}, reports = <<r>>
      PROVE  IsResult(reports)
  <2>1. r \in Reports /\ r # Initializing /\ r.level \in {"NOTICE", "WARN", "ERROR"}
    BY FailureIsReport DEF Reports, StillInProgress, UnitTestPassed, Initializing, Report
  <2>2. Len(reports) = 1 /\ DOMAIN reports = {1} /\ reports[1] = r
    BY <1>1
  <2>3. 1 .. 1 = {1}
    OBVIOUS
  <2> QED BY <2>1, <2>2, <2>3 DEF IsResult
<1>2. ASSUME NEW wrong \in WrongCounts,
             reports = [i \in 1 .. Len(wrong) + 1 |->
                          Failure(IF i <= Len(wrong) THEN wrong[i] ELSE "FAILED")]
      PROVE  IsResult(reports)
  <2>1. Len(wrong) \in 1 .. 3
    BY WrongCountsAreReported
  <2>2. DOMAIN reports = 1 .. Len(wrong) + 1 /\ Len(reports) = Len(wrong) + 1
    BY <1>2, <2>1
  <2>3. ASSUME NEW i \in DOMAIN reports
        PROVE  /\ reports[i] \in Reports /\ reports[i] # Initializing
               /\ reports[i].level = "ERROR"
    <3>1. PICK what \in {"NO_TESTS", "ERRORS", "FAILURES", "FAILED"} : reports[i] = Failure(what)
      BY <1>2, <2>1, <2>2, WrongCountsAreReported
    <3> QED BY <3>1, FailureIsReport
  <2>4. Len(reports) \in 1 .. 4 /\ DOMAIN reports = 1 .. Len(reports)
    <3>1. \A n \in 1 .. 3 : n + 1 \in 1 .. 4
      OBVIOUS
    <3> QED BY <2>1, <2>2, <3>1, Zenon
  <2>5. \A i \in DOMAIN reports : /\ reports[i] \in Reports /\ reports[i] # Initializing
                                  /\ reports[i].level \in {"NOTICE", "WARN", "ERROR"}
    BY <2>3
  <2> QED BY <2>4, <2>5 DEF IsResult
<1>3. IsResult(reports)
  BY <1>1, <1>2 DEF TestResults
<1>4. Len(reports) \in DOMAIN reports
  BY <1>3 DEF IsResult
<1> QED BY <1>3, <1>4 DEF Last, IsResult

\* An answer is a part of the result, and holds the last report of a unit test.
LEMMA AnswerHoldsLast ==
  ASSUME NEW reports \in TestResults
  PROVE  /\ Answer(3, reports) \subseteq {reports[i] : i \in DOMAIN reports}
         /\ Last(reports) \in Answer(3, reports)
<1>1. /\ Len(reports) \in 1 .. 4 /\ DOMAIN reports = 1 .. Len(reports)
      /\ Last(reports).level \in {"NOTICE", "WARN", "ERROR"}
  BY TestResultsAreReports DEF IsResult
<1>2. AtLeast(Last(reports), "NOTICE")
  BY <1>1 DEF AtLeast, Levels
<1>3. Len(reports) \in DOMAIN reports
  BY <1>1
<1>4. Len(reports) = 1 => Last(reports) = reports[1] /\ 1 \in DOMAIN reports
  BY <1>1 DEF Last
<1> QED BY <1>2, <1>3, <1>4 DEF Answer, Last

\* The answer of level 2 is of no consequence: the report is INFO.
LEMMA VariablesPassedIsNotAnswered == Answer(2, <<VariablesPassed>>) = {}
BY DEF Answer, AtLeast, Levels, VariablesPassed, Report

----------------------------------------------------------------------------
(* Types *)

\* Setting the timer of a loop keeps the clocks bounded.
LEMMA TimerIsTyped ==
  ASSUME NEW loop \in Loops, since \in [Loops -> Int], \A l \in Loops : since[l] <= Cap,
         since' = [since EXCEPT ![loop] = 0]
  PROVE  since' \in [Loops -> Int] /\ \A l \in Loops : since'[l] <= Cap
BY PeriodsAssumption DEF Cap

\* The node is started with its reports and timers of their types.
LEMMA InitTypeOK == Init => TypeOK
<1> SUFFICES ASSUME Init PROVE TypeOK
  OBVIOUS
<1>1. since \in [Loops -> Int] /\ \A l \in Loops : since[l] <= Cap
  BY PeriodsAssumption DEF Init, TimersAtStart, Cap
<1>2. software \in Reports /\ resets \in 0 .. MaxResets
  BY TimeAssumption DEF Init, Reports
<1> QED BY <1>1, <1>2 DEF Init, TypeOK

\* A callback answers with reports, and leaves one behind.
LEMMA RunDiagnosticReports ==
  ASSUME TypeOK, NEW level \in 1 .. 4, RunDiagnostic(level)
  PROVE  /\ software' \in Reports /\ out' \subseteq Reports
         /\ unittestRunning' \in BOOLEAN
         /\ Initializing \notin out'
         /\ software' = Initializing => software = Initializing
<1>1. CASE level = 2
  BY <1>1, VariablesPassedIsNotAnswered
     DEF RunDiagnostic, TypeOK, Reports, Initializing, VariablesPassed, Report
<1>2. CASE level = 3
  <2>1. PICK reports \in TestResults :
          /\ software' = Last(reports) /\ out' = Answer(3, reports)
          /\ unittestRunning' = (unittestRunning \/ reports = <<Failure("NO_RESULT")>>)
    BY <1>2 DEF RunDiagnostic
  <2> QED BY <2>1, TestResultsAreReports, AnswerHoldsLast DEF TypeOK, IsResult
<1>3. CASE level \in {1, 4}
  BY <1>3 DEF RunDiagnostic, TypeOK
<1> QED BY <1>1, <1>2, <1>3

\* Every step keeps the types.
LEMMA NextTypeOK ==
  ASSUME TypeOK, [Next]_vars
  PROVE  TypeOK'
<1> USE DEF TypeOK, clockVars, processVars, Loops
<1>1. CASE BeginUpdate
  BY <1>1 DEF BeginUpdate
<1>2. CASE Sleep
  <2>1. PICK d \in Delays :
          /\ since' = [l \in Loops |-> IF since[l] + d > Cap THEN Cap ELSE since[l] + d]
          /\ late' = (late \/ d > Period1 - Period10)
    BY <1>2 DEF Sleep
  <2>2. since' \in [Loops -> Int] /\ \A l \in Loops : since'[l] <= Cap
    BY <2>1, PeriodsAssumption, TimeAssumption DEF Cap
  <2>3. late' \in BOOLEAN
    BY <2>1, PeriodsAssumption, TimeAssumption
  <2> QED BY <1>2, <2>2, <2>3 DEF Sleep
<1>3. CASE RunNoisy
  <2>1. since' \in [Loops -> Int] /\ \A l \in Loops : since'[l] <= Cap
    BY <1>3, TimerIsTyped DEF RunNoisy, Poll
  <2>2. jitter' \in Jitters /\ software' \in Reports /\ out' \subseteq Reports
    BY <1>3 DEF RunNoisy, Poll, Reports
  <2> QED BY <1>3, <2>1, <2>2 DEF RunNoisy, Poll
<1>4. CASE Run1Hz
  <2>1. since' \in [Loops -> Int] /\ \A l \in Loops : since'[l] <= Cap
    BY <1>4, TimerIsTyped DEF Run1Hz, Poll
  <2>2. initialized' \in BOOLEAN /\ software' \in Reports /\ out' \subseteq Reports
    BY <1>4 DEF Run1Hz, Poll, Reports
  <2> QED BY <1>4, <2>1, <2>2 DEF Run1Hz, Poll
<1>5. CASE Run10Hz
  <2>1. since' \in [Loops -> Int] /\ \A l \in Loops : since'[l] <= Cap
    BY <1>5, TimerIsTyped DEF Run10Hz, Poll
  <2>2. software' \in Reports /\ out' \subseteq Reports
    BY <1>5 DEF Run10Hz, Poll, Reports
  <2> QED BY <1>5, <2>1, <2>2 DEF Run10Hz, Poll
<1>6. CASE PpsCallback
  BY <1>6 DEF PpsCallback
<1>7. ASSUME NEW level \in 1 .. 4, RunDiagnostic(level) PROVE TypeOK'
  BY <1>7, RunDiagnosticReports DEF RunDiagnostic
<1>8. ASSUME NEW o, NEW t, NEW level \in Verbosities, SetLogLevel(o, t, level) PROVE TypeOK'
  BY <1>8 DEF SetLogLevel
<1>9. CASE ClockReset
  <2>1. since' \in [Loops -> Int] /\ \A l \in Loops : since'[l] <= Cap
    BY <1>9, TimeAssumption, PeriodsAssumption DEF ClockReset, Cap
  <2> QED BY <1>9, <2>1, TimeAssumption DEF ClockReset
<1>10. CASE EndWait
  BY <1>10 DEF EndWait
<1>11. CASE UNCHANGED vars
  BY <1>11 DEF vars
<1> QED BY <1>1, <1>2, <1>3, <1>4, <1>5, <1>6, <1>7, <1>8, <1>9, <1>10, <1>11
        DEF Next, Update, Callback

----------------------------------------------------------------------------
(* The first warning *)

\* A sleep that is not late leaves less than the 1 Hz period on every timer.
LEMMA SleepNothingRan ==
  ASSUME IInv, Sleep
  PROVE  NothingRan'
<1> SUFFICES ASSUME software' = Initializing, ~ late'
             PROVE  /\ nodePc' \notin {"wait", "waited"} /\ \A l, m \in Loops : since'[l] = since'[m]
                    /\ since'["10hz"] < IF nodePc' \in Loops THEN Period1 ELSE Period10
  BY DEF NothingRan
<1>1. PICK d \in Delays :
        /\ since' = [l \in Loops |-> IF since[l] + d > Cap THEN Cap ELSE since[l] + d]
        /\ late' = (late \/ d > Period1 - Period10)
  BY DEF Sleep, clockVars
<1>2. /\ software = Initializing /\ ~ late /\ d <= Period1 - Period10
  <2>1. software = Initializing
    BY DEF Sleep
  <2>2. ~ (late \/ d > Period1 - Period10)
    BY <1>1, ZenonT(30)
  <2>3. ~ late
    BY <2>2, ZenonT(30)
  <2>4. ~ (d > Period1 - Period10)
    BY <2>2, ZenonT(30)
  <2>5. d <= Period1 - Period10
    BY <2>4, PeriodsAssumption, TimeAssumption
  <2> QED BY <2>1, <2>3, <2>5
<1>3. /\ nodePc = "run" /\ \A l, m \in Loops : since[l] = since[m]
      /\ since["10hz"] < Period10
  BY <1>2 DEF IInv, NothingRan, Sleep, Loops
<1>4. since["10hz"] \in Int /\ d \in Int
  BY TimeAssumption DEF IInv, TypeOK, Loops
<1>5. since["10hz"] + d < Period1 /\ since["10hz"] + d <= Cap
  BY <1>2, <1>3, <1>4, PeriodsAssumption DEF Cap
<1>6. \A l \in Loops : since'[l] = since["10hz"] + d
  BY <1>1, <1>3, <1>4, <1>5, PeriodsAssumption DEF Cap, Loops
<1>7. nodePc' = "noisy"
  BY <1>3 DEF Sleep
<1> QED BY <1>5, <1>6, <1>7 DEF Loops

\* A loop that finds the first warning is not due, but for the last one.
LEMMA LoopsNothingRan ==
  ASSUME IInv, RunNoisy \/ Run1Hz \/ Run10Hz
  PROVE  NothingRan' /\ InitializingMeansLate'
<1>0. /\ \A l \in Loops : since[l] \in Int
      /\ Period10 \in Nat /\ Period1 \in Nat /\ PeriodNoisy \in Nat /\ jitter \in Int
      /\ Period10 <= Period1 /\ Period1 <= PeriodNoisy + jitter
  BY PeriodsAssumption DEF IInv, TypeOK
<1>1. CASE RunNoisy
  <2>1. CASE Due("noisy", PeriodNoisy + jitter)
    <3>1. software' = Rescanned /\ out' = {software, Rescanned} /\ late' = late
      BY <1>1, <2>1 DEF RunNoisy, Poll
    <3>2. software = Initializing => late
      BY <1>0, <1>1, <2>1 DEF IInv, NothingRan, RunNoisy, Poll, Due, Loops
    <3>3. Rescanned # Initializing
      BY DEF Rescanned, Initializing, Report
    <3> QED BY <3>1, <3>2, <3>3 DEF NothingRan, InitializingMeansLate
  <2>2. CASE ~ Due("noisy", PeriodNoisy + jitter)
    BY <1>1, <2>2 DEF RunNoisy, Poll, IInv, NothingRan, InitializingMeansLate, Loops
  <2> QED BY <2>1, <2>2
<1>2. CASE Run1Hz
  <2>1. CASE Due("1hz", Period1)
    <3>1. software = Initializing => late
      BY <1>0, <1>2, <2>1 DEF IInv, NothingRan, Run1Hz, Poll, Due, Loops
    <3>2. /\ software' \in {software, UpdatedDevice} /\ out' \subseteq {software'}
          /\ late' = late
      BY <1>2, <2>1 DEF Run1Hz, Poll
    <3>3. UpdatedDevice # Initializing
      BY DEF UpdatedDevice, Initializing, Report
    <3> QED BY <3>1, <3>2, <3>3 DEF NothingRan, InitializingMeansLate
  <2>2. CASE ~ Due("1hz", Period1)
    BY <1>2, <2>2 DEF Run1Hz, Poll, IInv, NothingRan, InitializingMeansLate, Loops
  <2> QED BY <2>1, <2>2
<1>3. CASE Run10Hz
  <2>1. CASE Due("10hz", Period10)
    <3>1. software' = NodeRunning /\ out' \subseteq {NodeRunning}
      BY <1>3, <2>1 DEF Run10Hz, Poll
    <3>2. NodeRunning # Initializing
      BY DEF NodeRunning, Initializing, Report
    <3> QED BY <3>1, <3>2 DEF NothingRan, InitializingMeansLate
  <2>2. CASE ~ Due("10hz", Period10)
    <3>1. since' = since /\ software' = software /\ late' = late /\ out' = {}
          /\ nodePc' = "update"
      BY <1>3, <2>2 DEF Run10Hz, Poll
    <3>2. since["10hz"] < Period10
      BY <1>0, <2>2 DEF Due, Loops
    <3> QED BY <3>1, <3>2 DEF IInv, NothingRan, InitializingMeansLate, Loops
  <2> QED BY <2>1, <2>2
<1> QED BY <1>1, <1>2, <1>3

\* The other steps run no loop and publish no first warning.
LEMMA NextNothingRan ==
  ASSUME IInv, [Next]_vars
  PROVE  NothingRan' /\ InitializingMeansLate'
<1>1. CASE BeginUpdate
  BY <1>1 DEF BeginUpdate, IInv, NothingRan, InitializingMeansLate, Loops
<1>2. CASE Sleep
  BY <1>2, SleepNothingRan DEF Sleep, InitializingMeansLate
<1>3. CASE RunNoisy \/ Run1Hz \/ Run10Hz
  BY <1>3, LoopsNothingRan
<1>4. CASE PpsCallback
  BY <1>4 DEF PpsCallback, clockVars, IInv, NothingRan, InitializingMeansLate
<1>5. ASSUME NEW level \in 1 .. 4, RunDiagnostic(level)
      PROVE  NothingRan' /\ InitializingMeansLate'
  <2>1. Initializing \notin out' /\ (software' = Initializing => software = Initializing)
    BY <1>5, RunDiagnosticReports DEF IInv
  <2> QED BY <1>5, <2>1 DEF RunDiagnostic, clockVars, IInv, NothingRan, InitializingMeansLate
<1>6. ASSUME NEW o, NEW t, NEW level \in Verbosities, SetLogLevel(o, t, level)
      PROVE  NothingRan' /\ InitializingMeansLate'
  BY <1>6 DEF SetLogLevel, clockVars, IInv, NothingRan, InitializingMeansLate
<1>7. CASE ClockReset
  <2>1. PICK d \in 1 .. MaxReset : since' = [l \in Loops |-> since[l] - d]
    BY <1>7 DEF ClockReset
  <2>2. \A l \in Loops : since'[l] = since[l] - d /\ since'[l] < since[l]
    BY <2>1 DEF IInv, TypeOK
  <2> QED BY <1>7, <2>2, PeriodsAssumption
          DEF ClockReset, IInv, TypeOK, NothingRan, InitializingMeansLate, Loops
<1>8. CASE EndWait
  BY <1>8 DEF EndWait, clockVars, IInv, NothingRan, InitializingMeansLate, Loops
<1>9. CASE UNCHANGED vars
  BY <1>9 DEF vars, clockVars, IInv, NothingRan, InitializingMeansLate
<1> QED BY <1>1, <1>2, <1>3, <1>4, <1>5, <1>6, <1>7, <1>8, <1>9 DEF Next, Update, Callback

----------------------------------------------------------------------------
\* The invariant the theorems rest on.
THEOREM NodeInvariant == Spec => []IInv
<1>1. Init => IInv
  <2>1. Init => NothingRan /\ InitializingMeansLate
    BY PeriodsAssumption
       DEF Init, NothingRan, InitializingMeansLate, TimersAtStart, Loops
  <2> QED BY <2>1, InitTypeOK DEF IInv
<1>2. IInv /\ [Next]_vars => IInv'
  BY NextTypeOK, NextNothingRan DEF IInv
<1> QED BY <1>1, <1>2, PTL DEF Spec

\* The loops, callbacks and resets keep the node's reports and clocks of their types.
THEOREM NodeIsTyped == Spec => []TypeOK
<1>1. IInv => TypeOK
  BY DEF IInv
<1> QED BY <1>1, NodeInvariant, PTL

\* run_1hz and run_01hz_noisy publish the warning of enable_diagnostics only if the
\* node waited or overslept, for any periods in the order of BaseNode::update.
THEOREM FirstWarningMeansLate == Spec => []InitializingMeansLate
<1>1. IInv => InitializingMeansLate
  BY DEF IInv
<1> QED BY <1>1, NodeInvariant, PTL

\* new_commandmsg_result publishes what run_unittest leaves in the diagnostic.
THEOREM EveryUnitTestIsAnswered == Spec => UnitTestsAreAnswered
<1>1. ASSUME RunDiagnostic(3) PROVE software' \in out'
  BY <1>1, AnswerHoldsLast DEF RunDiagnostic
<1>2. [Next]_vars => [RunDiagnostic(3) => software' \in out']_vars
  BY <1>1
<1> QED BY <1>2, PTL DEF Spec, UnitTestsAreAnswered

\* run_10hz never finds an error to publish.
THEOREM TenHzLoopIsSilent == Spec => LoopReportsNoFailure
<1>1. ASSUME Next, nodePc = "10hz" PROVE out' = {}
  <2>1. CASE Run10Hz
    BY <2>1 DEF Run10Hz, Poll, AtLeast, Levels, NodeRunning, Report
  <2>2. CASE ClockReset
    BY <2>2 DEF ClockReset
  <2>3. Run10Hz \/ ClockReset
    BY <1>1 DEF Next, Update, BeginUpdate, Sleep, EndWait, RunNoisy, Run1Hz, Poll, Callback,
                PpsCallback, RunDiagnostic, SetLogLevel, Spinning
  <2> QED BY <2>1, <2>2, <2>3
<1>2. [Next]_vars => [nodePc = "10hz" => out' = {}]_vars
  BY <1>1
<1> QED BY <1>2, PTL DEF Spec, LoopReportsNoFailure
=============================================================================
