--------------------------- MODULE SensorArmNode ---------------------------
(***************************************************************************)
(* The life of the sensor arm controller node: BaseNode's start and update *)
(* loop with the callbacks of SensorArmControllerNode and of its process.  *)
(*                                                                         *)
(* One thread does everything: start reads launch parameters; update waits *)
(* for a pulse per second if it has to, runs the callbacks that are        *)
(* pending, then the loops that are due; cleanup follows when update or    *)
(* start returns false.  ROS, its master, the device service, the senders  *)
(* of commands and the signals are the environment.                        *)
(*                                                                         *)
(* roscpp installs its own SIGINT handler in ros::init: an interrupt, like *)
(* rosnode kill, makes ros::ok() false, and nothing is published from then *)
(* on.  SIGTERM runs the node's handler, which exits.                      *)
(***************************************************************************)
EXTENDS Integers, FiniteSets

CONSTANTS
  CommandTopics, MainTopic, \* topics of type eros/command, and "/command"
  Parameters,    \* launch parameters that have no default value
  Verbosity,     \* verbosity_level, without which there is no logger
  RequirePps,    \* the parameter require_pps_to_start
  MaxRescans     \* how often the 0.1 Hz loop runs

ASSUME TopicsAssumption     == MainTopic \in CommandTopics
ASSUME ParametersAssumption == {Verbosity, RequirePps} \subseteq Parameters
ASSUME RescansAssumption    == MaxRescans \in Nat

VARIABLES
  params,          \* the launch parameters that are given; never changes
  requirePps,      \* require_pps_to_start; never changes
  nodePc,          \* where the node's thread is
  rosOk,           \* ros::ok()
  loggerMade,      \* logger # null
  heartbeat,       \* the TaskState last published
  ppsQueue,        \* the message waiting on /1PPS
  ppsReceived,
  initialized, ready, \* of the process
  software,        \* what the SOFTWARE diagnostic says
  unittestRunning, \* of the process
  topics,          \* the command topics somebody publishes
  subs,            \* how many subscriptions the node has on a topic
  inbox,           \* the callbacks pending for the last command
  spinning,        \* the callbacks spinOnce was called for and has not run
  rescans          \* how often the 0.1 Hz loop ran

launchVars  == <<params, requirePps>>
processVars == <<initialized, ready, software, unittestRunning>>
topicVars   == <<topics, subs, inbox, rescans>>
vars == <<launchVars, processVars, topicVars, nodePc, rosOk, loggerMade, heartbeat,
          ppsQueue, ppsReceived, spinning>>

NoCommand == [level |-> 0, copies |-> 0]

Init ==
  /\ params \in SUBSET Parameters /\ requirePps \in BOOLEAN
  /\ nodePc = "preinitialize" /\ rosOk = TRUE /\ loggerMade = FALSE
  /\ heartbeat = "NONE" /\ ppsQueue = "NONE" /\ ppsReceived = FALSE
  /\ initialized = FALSE /\ ready = FALSE
  /\ software = "NONE" /\ unittestRunning = FALSE
  /\ topics \in SUBSET CommandTopics
  /\ subs = [t \in CommandTopics |-> 0]
  /\ inbox = NoCommand /\ spinning = {} /\ rescans = 0

\* Mutant of Publish: publishing works after the shutdown.
PublishAlways(state) == heartbeat' = state

\* What is published after the shutdown is lost.
Publish(state) == heartbeat' = IF rosOk THEN state ELSE heartbeat

\* getParam fails for a parameter that is not given, and after a shutdown.
Found(p) == p \in params /\ rosOk

----------------------------------------------------------------------------
(* start and cleanup *)

Preinitialize ==
  /\ nodePc = "preinitialize"
  /\ loggerMade' = Found(Verbosity)
  /\ Publish("INITIALIZING")
  /\ nodePc' = IF Found(Verbosity) /\ Found(RequirePps) THEN "start" ELSE "cleanup"
  /\ UNCHANGED <<launchVars, processVars, topicVars, rosOk, ppsQueue, ppsReceived, spinning>>

\* The process is set up, /1PPS and /command are subscribed, the parameters of the
\* joints are read.
FinishStart ==
  /\ nodePc = "start"
  /\ software' = "INITIALIZING"
  /\ subs' = [subs EXCEPT ![MainTopic] = 1]
  /\ nodePc' = IF \A p \in Parameters \ {Verbosity, RequirePps} : Found(p)
               THEN "update" ELSE "cleanup"
  /\ UNCHANGED <<launchVars, initialized, ready, unittestRunning, topics, inbox, rescans,
                 rosOk, loggerMade, heartbeat, ppsQueue, ppsReceived, spinning>>

\* Mutant of Cleanup: the logger is deleted before its last message.
CleanupWithoutLogger ==
  /\ nodePc = "cleanup"
  /\ Publish("FINISHED")
  /\ nodePc' = "crashed"
  /\ UNCHANGED <<launchVars, processVars, topicVars, rosOk, loggerMade,
                 ppsQueue, ppsReceived, spinning>>

\* The last message is written by a logger that a failed start may not have made.
Cleanup ==
  /\ nodePc = "cleanup"
  /\ Publish("FINISHED")
  /\ nodePc' = IF loggerMade THEN "finished" ELSE "crashed"
  /\ UNCHANGED <<launchVars, processVars, topicVars, rosOk, loggerMade,
                 ppsQueue, ppsReceived, spinning>>

----------------------------------------------------------------------------
(* update: the gate, the callbacks, the loops *)

Gate == ~ requirePps \/ ppsReceived

\* Mutants of BeginUpdate: the gate is not asked; a node that waits does not spin.
BeginUpdateUngated ==
  /\ nodePc = "update"
  /\ nodePc' = "run"
  /\ UNCHANGED <<launchVars, processVars, topicVars, rosOk, loggerMade, heartbeat,
                 ppsQueue, ppsReceived, spinning>>
BeginUpdateWithoutSpin ==
  /\ nodePc = "update"
  /\ nodePc' = IF Gate THEN "run" ELSE "update"
  /\ UNCHANGED <<launchVars, processVars, topicVars, rosOk, loggerMade, heartbeat,
                 ppsQueue, ppsReceived, spinning>>

\* ok_to_run is decided before the callbacks run: a pulse opens the gate of the
\* next update.
BeginUpdate ==
  /\ nodePc = "update"
  /\ nodePc' = IF Gate THEN "run" ELSE "wait"
  /\ UNCHANGED <<launchVars, processVars, topicVars, rosOk, loggerMade, heartbeat,
                 ppsQueue, ppsReceived, spinning>>

\* spinOnce runs the callbacks that are pending when it is called.
SpinOnce ==
  /\ nodePc \in {"run", "wait"}
  /\ nodePc' = IF nodePc = "run" THEN "run_spin" ELSE "wait_spin"
  /\ spinning' = (IF ppsQueue # "NONE" THEN {"pps"} ELSE {})
                   \union (IF inbox.copies > 0 THEN {"command"} ELSE {})
  /\ UNCHANGED <<launchVars, processVars, topicVars, rosOk, loggerMade, heartbeat,
                 ppsQueue, ppsReceived>>

PpsCallback ==
  /\ "pps" \in spinning
  /\ ppsReceived' = (ppsReceived \/ ppsQueue = "TRUE")
  /\ ppsQueue' = "NONE"
  /\ spinning' = spinning \ {"pps"}
  /\ UNCHANGED <<launchVars, processVars, topicVars, nodePc, rosOk, loggerMade, heartbeat>>

\* run_unittest blocks the thread while the test runs.  A result it cannot parse
\* makes it return before it clears the flag.
RunUnitTest ==
  IF unittestRunning
  THEN software' = "STILL_IN_PROGRESS" /\ UNCHANGED unittestRunning
  ELSE \/ software' \in {"PASSED", "FAILED"} /\ UNCHANGED unittestRunning
       \/ software' = "FAILED" /\ unittestRunning' = TRUE

\* Level 2 checks program variables, level 3 runs the unit test, others do nothing.
CommandCallback ==
  /\ "command" \in spinning
  /\ CASE inbox.level = 2 -> software' = "PASSED" /\ UNCHANGED unittestRunning
       [] inbox.level = 3 -> RunUnitTest
       [] OTHER           -> UNCHANGED <<software, unittestRunning>>
  /\ inbox' = [inbox EXCEPT !.copies = @ - 1]
  /\ spinning' = IF inbox.copies = 1 THEN spinning \ {"command"} ELSE spinning
  /\ UNCHANGED <<launchVars, initialized, ready, topics, subs, rescans, nodePc, rosOk,
                 loggerMade, heartbeat, ppsQueue, ppsReceived>>

\* While the node waits for a pulse update returns true, whatever ros::ok() is.
EndSpin ==
  /\ nodePc \in {"run_spin", "wait_spin"} /\ spinning = {}
  /\ nodePc' = IF nodePc = "wait_spin" THEN "update" ELSE "run_01hz_noisy"
  /\ UNCHANGED <<launchVars, processVars, topicVars, rosOk, loggerMade, heartbeat,
                 ppsQueue, ppsReceived, spinning>>

Rescanned ==
  [t \in CommandTopics |-> IF t \in topics /\ rosOk THEN subs[t] + 1 ELSE subs[t]]

\* rescan_topics subscribes to every command topic the master lists as published.
RescanTopics ==
  /\ nodePc = "run_01hz_noisy"
  /\ rescans < MaxRescans /\ rescans' = rescans + 1
  /\ subs' = Rescanned
  /\ software' = "RESCANNED"
  /\ nodePc' = "run_1hz"
  /\ UNCHANGED <<launchVars, initialized, ready, unittestRunning, topics, inbox, rosOk,
                 loggerMade, heartbeat, ppsQueue, ppsReceived, spinning>>

\* As long as the process has no device the 1 Hz loop asks the master for it.
\* Only an answer with one device, named as this host, initializes the process.
DeviceAnswer ==
  /\ nodePc = "run_1hz" /\ rosOk /\ ~ initialized
  /\ initialized' = TRUE
  /\ software' = "UPDATED_DEVICE"
  /\ nodePc' = "run_10hz"
  /\ UNCHANGED <<launchVars, topicVars, ready, unittestRunning, rosOk, loggerMade,
                 heartbeat, ppsQueue, ppsReceived, spinning>>

\* Mutant of Run10Hz: ready waits for a pulse even where none is required.
Run10HzAfterPulse ==
  /\ nodePc = "run_10hz"
  /\ ready' = (initialized /\ ppsReceived)
  /\ software' = "NODE_RUNNING"
  /\ Publish("RUNNING")
  /\ nodePc' = "end"
  /\ UNCHANGED <<launchVars, topicVars, initialized, unittestRunning, rosOk, loggerMade,
                 ppsQueue, ppsReceived, spinning>>

\* The process's update: ready once it is initialized, and all is well.
Run10Hz ==
  /\ nodePc = "run_10hz"
  /\ ready' = initialized
  /\ software' = "NODE_RUNNING"
  /\ Publish("RUNNING")
  /\ nodePc' = "end"
  /\ UNCHANGED <<launchVars, topicVars, initialized, unittestRunning, rosOk, loggerMade,
                 ppsQueue, ppsReceived, spinning>>

\* A loop that is not due, or a service call without a usable answer.
Skip ==
  /\ \/ nodePc = "run_01hz_noisy" /\ nodePc' = "run_1hz"
     \/ nodePc = "run_1hz" /\ nodePc' = "run_10hz"
     \/ nodePc = "run_10hz" /\ nodePc' = "end"
  /\ UNCHANGED <<launchVars, processVars, topicVars, rosOk, loggerMade, heartbeat,
                 ppsQueue, ppsReceived, spinning>>

\* Mutant of EndUpdate: ros::ok() is not asked.
EndUpdateForever ==
  /\ nodePc = "end"
  /\ nodePc' = "update"
  /\ UNCHANGED <<launchVars, processVars, topicVars, rosOk, loggerMade, heartbeat,
                 ppsQueue, ppsReceived, spinning>>

EndUpdate ==
  /\ nodePc = "end"
  /\ nodePc' = IF rosOk THEN "update" ELSE "cleanup"
  /\ UNCHANGED <<launchVars, processVars, topicVars, rosOk, loggerMade, heartbeat,
                 ppsQueue, ppsReceived, spinning>>

----------------------------------------------------------------------------
(* The environment *)

Stopped == nodePc \in {"finished", "crashed", "terminated"}

\* Somebody starts to publish a command topic.
Advertise(t) ==
  /\ ~ Stopped /\ t \notin topics
  /\ topics' = topics \union {t}
  /\ UNCHANGED <<launchVars, processVars, subs, inbox, rescans, nodePc, rosOk, loggerMade,
                 heartbeat, ppsQueue, ppsReceived, spinning>>

\* Every subscription gets a copy of a command.  One command is under way at a time.
SendCommand(t, level) ==
  /\ ~ Stopped /\ rosOk /\ t \in topics /\ subs[t] > 0 /\ inbox.copies = 0
  /\ inbox' = [level |-> level, copies |-> subs[t]]
  /\ UNCHANGED <<launchVars, processVars, topics, subs, rescans, nodePc, rosOk, loggerMade,
                 heartbeat, ppsQueue, ppsReceived, spinning>>

\* /1PPS keeps one message, the newest.
SendPps(value) ==
  /\ ~ Stopped /\ rosOk /\ subs[MainTopic] > 0
  /\ ppsQueue' = value
  /\ UNCHANGED <<launchVars, processVars, topicVars, nodePc, rosOk, loggerMade, heartbeat,
                 ppsReceived, spinning>>

\* An interrupt, or rosnode kill: pending callbacks are dropped.
Interrupt ==
  /\ ~ Stopped /\ rosOk
  /\ rosOk' = FALSE
  /\ inbox' = NoCommand /\ ppsQueue' = "NONE" /\ spinning' = {}
  /\ UNCHANGED <<launchVars, processVars, topics, subs, rescans, nodePc, loggerMade,
                 heartbeat, ppsReceived>>

\* SIGTERM: signalinterrupt_handler exits without any cleanup.
Terminate ==
  /\ ~ Stopped
  /\ nodePc' = "terminated"
  /\ UNCHANGED <<launchVars, processVars, topicVars, rosOk, loggerMade, heartbeat,
                 ppsQueue, ppsReceived, spinning>>

----------------------------------------------------------------------------
Callback == PpsCallback \/ CommandCallback

Node == \/ Preinitialize \/ FinishStart \/ Cleanup
        \/ BeginUpdate \/ SpinOnce \/ Callback \/ EndSpin
        \/ RescanTopics \/ DeviceAnswer \/ Run10Hz \/ Skip \/ EndUpdate

Environment == \/ \E t \in CommandTopics : \/ Advertise(t)
                                           \/ \E level \in 1 .. 4 : SendCommand(t, level)
               \/ \E value \in {"TRUE", "FALSE"} : SendPps(value)
               \/ Interrupt \/ Terminate

Next == Node \/ Environment

\* The thread is scheduled and the 10 Hz loop is due again and again.
Fairness == WF_vars(Node) /\ SF_vars(Run10Hz)

Spec == Init /\ [][Next]_vars /\ Fairness

\* A master that answers in the end, as the device service is meant to.
MasterAnswers == SF_vars(DeviceAnswer)

----------------------------------------------------------------------------
(* Invariants *)

TypeOK ==
  /\ params \subseteq Parameters /\ requirePps \in BOOLEAN
  /\ nodePc \in {"preinitialize", "start", "update", "wait", "run", "wait_spin",
                 "run_spin", "run_01hz_noisy", "run_1hz", "run_10hz", "end", "cleanup",
                 "finished", "crashed", "terminated"}
  /\ rosOk \in BOOLEAN /\ loggerMade \in BOOLEAN /\ ppsReceived \in BOOLEAN
  /\ heartbeat \in {"NONE", "INITIALIZING", "RUNNING", "FINISHED"}
  /\ ppsQueue \in {"NONE", "TRUE", "FALSE"}
  /\ initialized \in BOOLEAN /\ ready \in BOOLEAN /\ unittestRunning \in BOOLEAN
  /\ software \in {"NONE", "INITIALIZING", "PASSED", "FAILED", "STILL_IN_PROGRESS",
                   "RESCANNED", "UPDATED_DEVICE", "NODE_RUNNING"}
  /\ topics \subseteq CommandTopics
  /\ subs \in [CommandTopics -> 0 .. MaxRescans + 1]
  /\ inbox \in [level : 0 .. 4, copies : 0 .. MaxRescans + 1]
  /\ rescans \in 0 .. MaxRescans
  /\ spinning \subseteq {"pps", "command"}

\* A node that says it runs, or is ready, has all its parameters and got its pulse.
RunningIsGated ==
  heartbeat = "RUNNING" \/ ready => params = Parameters /\ loggerMade /\ Gate

\* The heartbeat FINISHED is seen of nodes that failed to start only: when a
\* running node ends, ROS no longer publishes it.
FinishedMeansFailedStart == heartbeat = "FINISHED" => params # Parameters

\* "Could not complete pre-initialization. Exiting.": the exit is clean but for one
\* case, the node crashes only in the cleanup of a start that got no logger.
CrashNeedsNoLogger == nodePc = "crashed" => ~ loggerMade /\ heartbeat # "RUNNING"

(* Action property *)

\* The steps of the thread that are left of a node that was interrupted, at most.
StepsLeft ==
  CASE nodePc \in {"finished", "crashed", "terminated"} -> 0
    [] nodePc = "cleanup"               -> 1
    [] nodePc = "end"                   -> 2
    [] nodePc = "run_10hz"              -> 3
    [] nodePc = "run_1hz"               -> 4
    [] nodePc = "run_01hz_noisy"        -> 5
    [] nodePc = "run_spin"              -> 6
    [] nodePc = "run"                   -> 7
    [] nodePc = "update"                -> 8
    [] nodePc \in {"wait_spin", "start"} -> 9
    [] nodePc \in {"wait", "preinitialize"} -> 10

\* Once the node is interrupted and its gate is open, both stay so, and each step of
\* its thread brings it nearer to its end: it begins at most one more
\* update, runs no callback and needs no message.
InterruptedRunsOut ==
  [][(~ rosOk /\ Gate) => /\ ~ rosOk' /\ Gate'
                          /\ StepsLeft' <= StepsLeft
                          /\ (Node => StepsLeft' < StepsLeft)]_vars

(* Liveness *)

\* An interrupted node whose gate is open ends.
InterruptEnds == (~ rosOk /\ Gate) ~> Stopped

\* With a master that answers, an open gate leads to a ready process.
BecomesReady == MasterAnswers => (Gate ~> ready \/ Stopped \/ ~ rosOk)

\* No callback of a node that runs is left pending, even while it waits for a pulse.
CallbacksRun ==
  (inbox.copies > 0 /\ params = Parameters) ~> (inbox.copies = 0 \/ Stopped)

----------------------------------------------------------------------------
(* What the log, the comments and the messages of the node claim *)

\* "Unit Test -> IS STILL IN PROGRESS.": it is when the diagnostic says so; the
\* test runs inside the callback, so no other callback can find it in progress.
InProgressIsTrue == software # "STILL_IN_PROGRESS"
============================================================================
