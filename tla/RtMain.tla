------------------------------- MODULE RtMain -------------------------------
(***************************************************************************)
(* The main program the generated pose model is run by, rt_main.c.  Each   *)
(* call of rt_OneStep runs the model at its base rate and then, in order   *)
(* of their priority, the slower rates that are due.  main calls it in a   *)
(* loop, but it is written to be attached to a timer's interrupt, too: it  *)
(* is then entered again while it runs, and flags tell what it has         *)
(* interrupted.  stack holds the calls that have not returned, the         *)
(* interrupting one last.                                                  *)
(*                                                                         *)
(* Interrupts come between any two lines but where the comments say that   *)
(* they are disabled, from the entry to the test of the error status.  A   *)
(* line that raises or lowers a flag does so in one instruction.           *)
(*                                                                         *)
(* The sample times the model is generated with are constants; whether it  *)
(* is built for multitasking and whether it is attached is chosen once.    *)
(* The external mode is not built in: its hooks do nothing.                *)
(***************************************************************************)
EXTENDS Integers, SequencesExt

CONSTANTS
  NUMST,         \* the number of sample times
  FIRST_TID,     \* the task that runs at the base rate, together with task 0
  CounterLimit,  \* per slower task: the base steps of its period
  FlagSpan,      \* the values of a flag: 256 of an unsigned char
  MaxCalls       \* bound: calls that are open at a time

ASSUME RtMainAssumption ==
  /\ NUMST \in Nat \ {0} /\ FIRST_TID \in {0, 1}
  /\ FlagSpan \in Nat \ {0, 1} /\ MaxCalls \in Nat \ {0}
  /\ CounterLimit \in [(FIRST_TID + 1) .. (NUMST - 1) -> Nat \ {0}]

Subrates == DOMAIN CounterLimit
Tasks    == {0} \union Subrates

VARIABLES
  multitasking,  \* what the build defines; never changes
  attached,      \* rt_OneStep is attached to an interrupt; never changes
  stack,         \* the calls of rt_OneStep: where each is, and with which task
  OverrunFlags, eventFlags,
  taskCounter,   \* rtmTaskCounter
  status,        \* rtmGetErrorStatus
  stopRequested,
  ended,         \* rt_TermModel has run
  reported,      \* the tasks it named in its reports
  \* for the properties only:
  overran,       \* the tasks found to be too slow
  wrapped,       \* those whose overrun flag was counted up to 0 again
  unserved,      \* the tasks with a hit that no call has begun to serve
  exposed        \* a call entered one that had decided to serve, or had served, a hit

buildVars   == <<multitasking, attached>>
mainVars    == <<stopRequested, ended, reported>>
historyVars == <<overran, wrapped, unserved, exposed>>
vars        == <<buildVars, stack, OverrunFlags, eventFlags, taskCounter, status, mainVars,
                 historyVars>>

\* rt_InitModel, after the hooks of the external mode.
Init ==
  /\ multitasking \in BOOLEAN /\ attached \in BOOLEAN
  /\ stack = <<>>
  /\ OverrunFlags = [t \in Tasks |-> 0] /\ eventFlags = [t \in Tasks |-> 0]
  /\ taskCounter = [t \in Subrates |-> 0]
  /\ status = "none" /\ stopRequested = FALSE /\ ended = FALSE
  /\ reported = {} /\ overran = {} /\ wrapped = {} /\ unserved = {} /\ exposed = FALSE

----------------------------------------------------------------------------
(* The flags, and where a call is *)

Up(flag)   == (flag + 1) % FlagSpan
Down(flag) == IF flag = 0 THEN FlagSpan - 1 ELSE flag - 1

Raise(t) ==
  /\ OverrunFlags' = [OverrunFlags EXCEPT ![t] = Up(@)]
  /\ wrapped' = IF Up(OverrunFlags[t]) = 0 THEN wrapped \union {t} ELSE wrapped
Lower(t) == OverrunFlags' = [OverrunFlags EXCEPT ![t] = Down(@)]

Slower == IF multitasking THEN Subrates ELSE {}
Due(t) == taskCounter[t] = 0                     \* rtmStepTask
Top    == Last(stack)
At(place, t)  == [at |-> place, tid |-> t]
Is(place, t)  == stack # <<>> /\ Top = At(place, t)
Goto(place, t) == stack' = Append(Front(stack), At(place, t))
Leave          == stack' = Front(stack)

----------------------------------------------------------------------------
(* rt_OneStep: the base rate *)

\* The last call has not run the base rate, or an error stopped the model.
Refused ==
  /\ OverrunFlags[0] # 0 \/ status # "none"
  /\ status' = IF OverrunFlags[0] # 0 THEN "Overrun" ELSE status
  /\ overran' = IF OverrunFlags[0] # 0 THEN overran \union {0} ELSE overran
  /\ Raise(0)
  /\ UNCHANGED <<stack, exposed>>

Enter ==
  /\ OverrunFlags[0] = 0 /\ status = "none"
  /\ Len(stack) < MaxCalls
  /\ Raise(0)
  /\ stack' = Append(stack, At("flags", 0))
  /\ exposed' = (exposed \/ (stack # <<>> /\ Top.at \in {"count", "taken"}))
  /\ UNCHANGED <<status, overran>>

\* Called from main's loop, or by an interrupt between two calls or within one.
rt_OneStep ==
  /\ ~ended
  /\ attached \/ (stack = <<>> /\ status = "none" /\ ~stopRequested)
  /\ Refused \/ Enter
  /\ UNCHANGED <<buildVars, eventFlags, taskCounter, mainVars, unserved>>

\* The slower tasks whose last hit is not done when the next one is due.
Missed == {t \in Slower : Due(t) /\ eventFlags[t] # 0}

\* The flags of the tasks of S are updated, the counters of those of C.  What
\* interrupts this loop is refused, which nothing in it depends on.
Flag(S, C) ==
  /\ eventFlags' = [t \in Tasks |-> IF t \in S /\ Due(t) THEN Up(eventFlags[t]) ELSE eventFlags[t]]
  /\ taskCounter' = [t \in Subrates |-> IF t \in C THEN (taskCounter[t] + 1) % CounterLimit[t]
                                                   ELSE taskCounter[t]]
  /\ unserved' = unserved \union {t \in S : Due(t)}

BeginBase ==
  /\ Is("flags", 0) /\ Missed = {}
  /\ Flag(Slower, Slower)
  /\ Goto("base", 0)
  /\ UNCHANGED <<buildVars, OverrunFlags, status, mainVars, overran, wrapped, exposed>>

\* The first missed hit gives the step up; the tasks after it are not looked at.
GiveUp ==
  /\ Is("flags", 0) /\ Missed # {}
  /\ LET m == Min(Missed)
     IN  Flag({t \in Slower : t <= m}, {t \in Slower : t < m}) /\ Goto("missed", m)
  /\ Lower(0)
  /\ UNCHANGED <<buildVars, status, mainVars, overran, wrapped, exposed>>

CountMissed ==
  \E t \in Slower :
    /\ Is("missed", t) /\ Goto("counted", t)
    /\ Raise(t)
    /\ overran' = overran \union {t}
    /\ UNCHANGED <<buildVars, eventFlags, taskCounter, status, mainVars, unserved, exposed>>

ReportMissed ==
  /\ \E t \in Slower : Is("counted", t)
  /\ Leave
  /\ status' = "Overrun"
  /\ UNCHANGED <<buildVars, OverrunFlags, eventFlags, taskCounter, mainVars, historyVars>>

\* Mutant of EndBase: the first of the slower tasks is passed over.
EndBaseLate ==
  /\ Is("base", 0) /\ Goto("loop", FIRST_TID + 2)
  /\ status' \in {status, "Simulation finished"}
  /\ Lower(0)
  /\ UNCHANGED <<buildVars, eventFlags, taskCounter, mainVars, historyVars>>

\* The step of the model at the base rate ends; it may find its final time reached.
EndBase ==
  /\ Is("base", 0) /\ Goto("loop", FIRST_TID + 1)
  /\ status' \in {status, "Simulation finished"}
  /\ Lower(0)
  /\ UNCHANGED <<buildVars, eventFlags, taskCounter, mainVars, historyVars>>

----------------------------------------------------------------------------
(* rt_OneStep: the slower rates *)

\* A task that this call has interrupted ends it: the rest is of lower priority.
Return ==
  /\ \E t \in 1 .. (NUMST + 1) : Is("loop", t) /\ (t \in Slower => OverrunFlags[t] # 0)
  /\ Leave
  /\ UNCHANGED <<buildVars, OverrunFlags, eventFlags, taskCounter, status, mainVars, historyVars>>

\* Mutant of MayRun: a task that was interrupted is begun again.
MayRunAgain ==
  \E t \in Slower :
    /\ Is("loop", t) /\ Goto("test", t)
    /\ UNCHANGED <<buildVars, OverrunFlags, eventFlags, taskCounter, status, mainVars, historyVars>>

MayRun ==
  \E t \in Slower :
    /\ Is("loop", t) /\ OverrunFlags[t] = 0 /\ Goto("test", t)
    /\ UNCHANGED <<buildVars, OverrunFlags, eventFlags, taskCounter, status, mainVars, historyVars>>

TestHit ==
  \E t \in Slower :
    /\ Is("test", t)
    /\ IF eventFlags[t] # 0 THEN Goto("count", t) ELSE Goto("loop", t + 1)
    /\ UNCHANGED <<buildVars, OverrunFlags, eventFlags, taskCounter, status, mainVars, historyVars>>

BeginSubrate ==
  \E t \in Slower :
    /\ Is("count", t) /\ Goto("subrate", t)
    /\ Raise(t)
    /\ unserved' = unserved \ {t}
    /\ UNCHANGED <<buildVars, eventFlags, taskCounter, status, mainVars, overran, exposed>>

EndSubrate ==
  \E t \in Slower :
    /\ Is("subrate", t) /\ Goto("taken", t)
    /\ Lower(t)
    /\ UNCHANGED <<buildVars, eventFlags, taskCounter, status, mainVars, historyVars>>

\* Mutant of TakeHit: the hit stays.
TakeNoHit ==
  \E t \in Slower :
    /\ Is("taken", t) /\ Goto("loop", t + 1)
    /\ UNCHANGED <<buildVars, OverrunFlags, eventFlags, taskCounter, status, mainVars, historyVars>>

TakeHit ==
  \E t \in Slower :
    /\ Is("taken", t) /\ Goto("loop", t + 1)
    /\ eventFlags' = [eventFlags EXCEPT ![t] = Down(@)]
    /\ UNCHANGED <<buildVars, OverrunFlags, taskCounter, status, mainVars, historyVars>>

Continue ==
  \/ BeginBase \/ GiveUp \/ CountMissed \/ ReportMissed \/ EndBase
  \/ Return \/ MayRun \/ TestHit \/ BeginSubrate \/ EndSubrate \/ TakeHit

----------------------------------------------------------------------------
(* main *)

RequestStop ==
  /\ ~ended /\ ~stopRequested /\ stopRequested' = TRUE
  /\ UNCHANGED <<buildVars, stack, OverrunFlags, eventFlags, taskCounter, status, ended,
                 reported, historyVars>>

\* Mutant of rt_TermModel: only the base rate is reported.
TermModelBase ==
  /\ ~ended /\ stack = <<>> /\ (status # "none" \/ stopRequested)
  /\ ended' = TRUE
  /\ reported' = IF status = "Overrun" THEN {t \in {0} : OverrunFlags[t] # 0} ELSE {}
  /\ UNCHANGED <<buildVars, stack, OverrunFlags, eventFlags, taskCounter, status,
                 stopRequested, historyVars>>

\* main gets the processor when no call is open; it leaves its loop and reports.
rt_TermModel ==
  /\ ~ended /\ stack = <<>> /\ (status # "none" \/ stopRequested)
  /\ ended' = TRUE
  /\ reported' = IF status = "Overrun" THEN {t \in {0} \union Slower : OverrunFlags[t] # 0} ELSE {}
  /\ UNCHANGED <<buildVars, stack, OverrunFlags, eventFlags, taskCounter, status,
                 stopRequested, historyVars>>

Next == rt_OneStep \/ Continue \/ RequestStop \/ rt_TermModel

\* A call that is not interrupted goes on, and main goes on when no call is open.
Fairness == WF_vars(rt_OneStep) /\ WF_vars(Continue) /\ WF_vars(rt_TermModel)

Spec == Init /\ [][Next]_vars /\ Fairness

----------------------------------------------------------------------------
(* Properties *)

Places == {"flags", "base", "missed", "counted", "loop", "test", "count", "subrate", "taken"}

TypeOK ==
  /\ multitasking \in BOOLEAN /\ attached \in BOOLEAN
  /\ stack \in Seq([at : Places, tid : 0 .. (NUMST + 1)]) /\ Len(stack) <= MaxCalls
  /\ OverrunFlags \in [Tasks -> 0 .. FlagSpan - 1] /\ eventFlags \in [Tasks -> 0 .. FlagSpan - 1]
  /\ taskCounter \in [Subrates -> Nat] /\ status \in {"none", "Overrun", "Simulation finished"}
  /\ stopRequested \in BOOLEAN /\ ended \in BOOLEAN /\ reported \subseteq Tasks
  /\ overran \subseteq Tasks /\ wrapped \subseteq Tasks /\ unserved \subseteq Tasks
  /\ exposed \in BOOLEAN

\* Between whichever lines interrupts come, nothing enters a call that is about to
\* run the base rate or runs it, and what enters one that runs a slower task begins
\* only tasks of higher priority ("don't run any lower priority task") -- unless the
\* overruns counted in that task's flag have made it 0 again.
TasksAreNested ==
  \A f, g \in DOMAIN stack :
    f < g => /\ stack[f].at \notin {"flags", "base"}
             /\ stack[f].at = "subrate" /\ stack[f].tid \notin wrapped
                  /\ stack[g].at \in {"count", "subrate", "taken"} => stack[g].tid < stack[f].tid

\* An overrun occurs only where rt_OneStep is attached to an interrupt ("error
\* checking is only necessary when"), and if the error is the last word, the
\* final report names each task that was too slow ("ISR overrun - sampling rate too
\* fast") but one whose flag, a byte, was counted up to 0 by the interrupts after it.
OverrunIsReported ==
  /\ overran # {} => attached
  /\ ended /\ status = "Overrun" => overran \ wrapped \subseteq reported

\* A slower task was too slow.
IsLate == overran \intersect Slower # {} \/ \E f \in DOMAIN stack : stack[f].at = "missed"

\* As long as no slower task was too slow, and no call has entered between a test of
\* eventFlags and the count of OverrunFlags, or between the two decrements: a
\* call that decides to run a task finds a hit nobody has served, and no hit is
\* forgotten.  Where else interrupts come makes no difference.
HitsAreServedOnce ==
  ~ exposed /\ ~ IsLate =>
    /\ \A f \in DOMAIN stack : stack[f].at = "count" => stack[f].tid \in unserved
    /\ \A t \in unserved : eventFlags[t] # 0

\* If no call ever enters there, a hit of a slower task is served, or the model ends
\* with an error: no rate starves unnoticed, however often the others interrupt.
HitsAreServed ==
  [](~ exposed) => \A t \in Subrates : t \in unserved ~> t \notin unserved \/ status # "none"

----------------------------------------------------------------------------
(* What a comment of rt_main.c claims *)

\* "Model step complete for base sample time, now it is okay to re-interrupt this
\* ISR.": whenever this happens, no hit is served twice.
ReinterruptIsOkay ==
  ~ IsLate => \A f \in DOMAIN stack : stack[f].at = "count" => stack[f].tid \in unserved
============================================================================
