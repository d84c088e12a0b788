---------------------------- MODULE RtMain_proofs ----------------------------
(***************************************************************************)
(* The nesting of the calls of rt_OneStep, its flags and its reports of    *)
(* overruns, for any sample times, wherever and however often interrupts   *)
(* come.                                                                   *)
(***************************************************************************)
EXTENDS RtMain, SequenceTheorems, WellFoundedInduction, TLAPS

\* The base rate's flag is counted for the last call; a task runs; its hit is being
\* served until the call has taken it.
BaseOpen     == stack # <<>> /\ Top.at \in {"flags", "base"}
Within(P, t) == \E f \in DOMAIN stack : stack[f].at \in P /\ stack[f].tid = t
Running(t)   == Within({"subrate"}, t)
Serving(t)   == Within({"subrate", "taken"}, t)
One(b)       == IF b THEN 1 ELSE 0

\* The places of a call that has found a slower task and those where it has chosen it.
OfATask == {"missed", "counted", "test", "count", "subrate", "taken"}
Chosen  == {"test", "count", "subrate", "taken"}

\* Where a call is, and the task it is there with.
Placed(frame) ==
  /\ frame.at \in OfATask => frame.tid \in Slower
  /\ frame.at = "loop" => FIRST_TID < frame.tid
  /\ frame.at \in {"flags", "base"} => frame.tid = 0

\* A call of higher priority than task t.
Higher(frame, t) ==
  /\ frame.at = "loop" => frame.tid <= t
  /\ frame.at \in Chosen => frame.tid < t

\* Nothing enters a call at the base rate, and what enters a task is of higher priority.
Nesting ==
  /\ \A f \in DOMAIN stack :
       /\ Placed(stack[f])
       /\ f < Len(stack) => stack[f].at \notin {"flags", "base"}
  /\ \A f, g \in DOMAIN stack :
       f < g /\ stack[f].at = "subrate" /\ stack[f].tid \notin wrapped
         => Higher(stack[g], stack[f].tid)

\* Unless it has wrapped, a task's flag counts whether it runs and, on top of that,
\* what overran it; without an error the base rate's counts nothing but the first.
FlagsCount ==
  /\ status = "none" => OverrunFlags[0] = One(BaseOpen)
  /\ 0 \notin wrapped => OverrunFlags[0] >= One(BaseOpen) + One(0 \in overran)
  /\ \A t \in Slower :
       t \notin wrapped => OverrunFlags[t] >= One(Running(t)) + One(t \in overran)
  /\ overran \subseteq {0} \union Slower /\ unserved \subseteq Slower

\* Until a slower task is late, its flag tells whether it runs.
FlagsAreExact ==
  ~ IsLate => \A t \in Slower : OverrunFlags[t] = One(Running(t)) /\ t \notin wrapped

\* Nor has any call entered between two lines that count a hit: then every hit is
\* waiting or being served, and not both.
HitsAreExact ==
  ~ IsLate /\ ~ exposed =>
    /\ \A f \in DOMAIN stack :
         /\ f < Len(stack) => stack[f].at \notin {"count", "taken"}
         /\ stack[f].at = "count" => stack[f].tid \in unserved
    /\ \A t \in Slower :
         /\ eventFlags[t] = One(t \in unserved \/ Serving(t))
         /\ t \in unserved => ~ Serving(t)

\* Called from main's loop only, a call serves each hit before the next one begins.
ServedInTurn ==
  ~ attached =>
    /\ ~ IsLate /\ ~ exposed /\ overran = {} /\ Len(stack) <= 1
    /\ \A t \in Tasks : eventFlags[t] # 0 =>
         /\ t \in Slower /\ stack # <<>>
         /\ Top.at = "base" \/ (Top.at \in Chosen \union {"loop"} /\ Top.tid <= t)

EndedIsOver ==
  ended => stack = <<>> /\ (status = "Overrun" => overran \ wrapped \subseteq reported)

IInv ==
  /\ TypeOK /\ Nesting /\ FlagsCount /\ FlagsAreExact /\ HitsAreExact
  /\ ServedInTurn /\ EndedIsOver

----------------------------------------------------------------------------
(* Tasks, flags and the stack *)

\* The slower tasks follow the base rate's, in the order of their priority.
LEMMA TaskNumbers ==
  /\ NUMST \in Nat \ {0} /\ FIRST_TID \in {0, 1} /\ MaxCalls \in Nat \ {0}
  /\ FlagSpan \in Nat \ {0, 1}
  /\ Subrates = (FIRST_TID + 1) .. (NUMST - 1)
  /\ Slower \subseteq Subrates /\ Subrates \subseteq Tasks /\ 0 \in Tasks
  /\ \A t \in Tasks : t \in Int /\ (t # 0 => t \in Subrates)
  /\ 0 \notin Subrates /\ Subrates \subseteq Nat
  /\ \A t \in Subrates : FIRST_TID + 1 <= t /\ t <= NUMST - 1
<1>1. /\ NUMST \in Nat \ {0} /\ FIRST_TID \in {0, 1} /\ MaxCalls \in Nat \ {0}
      /\ FlagSpan \in Nat \ {0, 1}
      /\ Subrates = (FIRST_TID + 1) .. (NUMST - 1)
  BY RtMainAssumption DEF Subrates
<1>2. \A t \in Subrates : t \in Nat /\ t # 0 /\ FIRST_TID + 1 <= t /\ t <= NUMST - 1
  BY <1>1
<1> QED BY <1>1, <1>2 DEF Slower, Tasks

\* A flag counts up until it wraps, and down again.
LEMMA UpAndDown ==
  ASSUME NEW flag \in 0 .. FlagSpan - 1
  PROVE  /\ Up(flag) \in 0 .. FlagSpan - 1 /\ (Up(flag) # 0 => Up(flag) = flag + 1)
         /\ flag = 0 => Up(flag) = 1
         /\ Down(flag) \in 0 .. FlagSpan - 1 /\ (flag >= 1 => Down(flag) = flag - 1)
<1>1. FlagSpan \in Nat \ {0, 1}
  BY TaskNumbers
<1>2. ASSUME NEW a \in Nat, NEW b \in Nat \ {0}
      PROVE  a % b \in 0 .. b - 1 /\ (a < b => a % b = a) /\ b % b = 0
  OBVIOUS
<1>3. flag + 1 \in Nat
  BY <1>1
<1>4. Up(flag) \in 0 .. FlagSpan - 1
  BY <1>1, <1>2, <1>3 DEF Up
<1>5. flag + 1 < FlagSpan => Up(flag) = flag + 1
  BY <1>1, <1>2, <1>3 DEF Up
<1>6. flag + 1 = FlagSpan => Up(flag) = 0
  BY <1>1, <1>2 DEF Up
<1> QED BY <1>1, <1>4, <1>5, <1>6 DEF Down

\* What raising the flag of a task does, and what lowering it does.
LEMMA Raised ==
  ASSUME TypeOK, NEW t \in Tasks, Raise(t)
  PROVE  /\ OverrunFlags' \in [Tasks -> 0 .. FlagSpan - 1]
         /\ \A u \in Tasks : OverrunFlags[u] \in Nat /\ OverrunFlags'[u] \in Nat
         /\ \A u \in Tasks : u # t => OverrunFlags'[u] = OverrunFlags[u]
         /\ wrapped \subseteq wrapped' /\ wrapped' \subseteq wrapped \union {t}
         /\ t \notin wrapped' => OverrunFlags'[t] = OverrunFlags[t] + 1
         /\ OverrunFlags[t] = 0 => OverrunFlags'[t] = 1 /\ wrapped' = wrapped
<1>1. OverrunFlags \in [Tasks -> 0 .. FlagSpan - 1] /\ OverrunFlags[t] \in 0 .. FlagSpan - 1
  BY DEF TypeOK
<1>2. /\ Up(OverrunFlags[t]) \in 0 .. FlagSpan - 1
      /\ Up(OverrunFlags[t]) # 0 => Up(OverrunFlags[t]) = OverrunFlags[t] + 1
      /\ OverrunFlags[t] = 0 => Up(OverrunFlags[t]) = 1
  BY <1>1, UpAndDown
<1> QED BY <1>1, <1>2, TaskNumbers DEF Raise

LEMMA Lowered ==
  ASSUME TypeOK, NEW t \in Tasks, Lower(t)
  PROVE  /\ OverrunFlags' \in [Tasks -> 0 .. FlagSpan - 1]
         /\ \A u \in Tasks : OverrunFlags[u] \in Nat /\ OverrunFlags'[u] \in Nat
         /\ \A u \in Tasks : u # t => OverrunFlags'[u] = OverrunFlags[u]
         /\ OverrunFlags[t] >= 1 => OverrunFlags'[t] = OverrunFlags[t] - 1
<1>1. OverrunFlags \in [Tasks -> 0 .. FlagSpan - 1] /\ OverrunFlags[t] \in 0 .. FlagSpan - 1
  BY DEF TypeOK
<1>2. /\ Down(OverrunFlags[t]) \in 0 .. FlagSpan - 1
      /\ OverrunFlags[t] >= 1 => Down(OverrunFlags[t]) = OverrunFlags[t] - 1
  BY <1>1, UpAndDown
<1> QED BY <1>1, <1>2, TaskNumbers DEF Lower

\* An element of a sequence is the last one or one of those before it.
LEMMA LastOrBefore ==
  ASSUME NEW n \in Nat
  PROVE  /\ \A f \in 1 .. n : f \in 1 .. n - 1 \/ f = n
         /\ \A f \in 1 .. n - 1 : f \in 1 .. n /\ f # n /\ f < n
OBVIOUS

\* A sequence up to one of its elements.
LEMMA PrefixElements ==
  ASSUME NEW S, NEW s \in Seq(S), NEW m \in Nat, m <= Len(s)
  PROVE  /\ SubSeq(s, 1, m) \in Seq(S) /\ Len(SubSeq(s, 1, m)) = m
         /\ \A i \in 1 .. m : SubSeq(s, 1, m)[i] = s[i]
<1>1. Len(s) \in Nat
  BY LenProperties
<1>2. \A i \in 1 .. m : i \in 1 .. Len(s)
  BY <1>1
<1>3. \A i \in 1 .. m : s[i] \in S
  BY <1>2, ElementOfSeq
<1>4. /\ SubSeq(s, 1, m) \in Seq(S)
      /\ Len(SubSeq(s, 1, m)) = IF 1 <= m THEN m - 1 + 1 ELSE 0
      /\ \A i \in 1 .. m - 1 + 1 : SubSeq(s, 1, m)[i] = s[1 + i - 1]
  BY <1>3, SubSeqProperties, Z3
<1>5. m - 1 + 1 = m /\ \A i \in 1 .. m : 1 + i - 1 = i
  OBVIOUS
<1> QED BY <1>4, <1>5

Frames == [at : Places, tid : 0 .. (NUMST + 1)]

\* What TypeOK says frame by frame.
LEMMA StackElements ==
  ASSUME TypeOK
  PROVE  /\ stack \in Seq(Frames) /\ Len(stack) \in Nat
         /\ DOMAIN stack = 1 .. Len(stack)
         /\ \A f \in DOMAIN stack : /\ stack[f] \in Frames
                                     /\ stack[f].tid \in Int /\ stack[f].at \in Places
         /\ stack # <<>> => Len(stack) >= 1 /\ Top = stack[Len(stack)]
         /\ Len(stack) >= 1 => stack # <<>>
<1>1. stack \in Seq(Frames)
  BY DEF TypeOK, Frames
<1>2. Len(stack) \in Nat /\ DOMAIN stack = 1 .. Len(stack)
  BY <1>1, LenProperties
<1>3. \A f \in DOMAIN stack : stack[f] \in Frames
  BY <1>1, <1>2, ElementOfSeq
<1>4. ASSUME NEW frame \in Frames
      PROVE  frame.tid \in Int /\ frame.at \in Places
  BY TaskNumbers DEF Frames
<1>5. stack # <<>> => Len(stack) >= 1
  BY <1>1, EmptySeq
<1>6. Len(<<>>) = 0
  BY EmptySeq
<1> QED BY <1>1, <1>2, <1>3, <1>4, <1>5, <1>6 DEF Top, Last

\* The stack after a call, the frames of the calls below being the old ones.
TopIs(n, frame) ==
  /\ stack' \in Seq(Frames) /\ Len(stack') = n /\ DOMAIN stack' = 1 .. n
  /\ stack'[n] = frame
  /\ \A f \in 1 .. n - 1 : stack'[f] = stack[f]

\* A call enters.
LEMMA Pushed ==
  ASSUME TypeOK, NEW frame \in Frames, stack' = Append(stack, frame)
  PROVE  TopIs(Len(stack) + 1, frame)
<1>1. stack \in Seq(Frames) /\ Len(stack) \in Nat
  BY StackElements
<1>2. /\ stack' \in Seq(Frames) /\ Len(stack') = Len(stack) + 1
      /\ \A f \in 1 .. Len(stack) + 1 :
           stack'[f] = IF f <= Len(stack) THEN stack[f] ELSE frame
  BY <1>1, AppendProperties
<1> QED BY <1>1, <1>2, LenProperties DEF TopIs

\* Without its last frame a stack has one frame less, and no other.
LEMMA FrontElements ==
  ASSUME TypeOK, stack # <<>>
  PROVE  /\ Front(stack) \in Seq(Frames) /\ Len(Front(stack)) = Len(stack) - 1
         /\ \A f \in 1 .. Len(stack) - 1 : Front(stack)[f] = stack[f]
<1>1. stack \in Seq(Frames) /\ Len(stack) \in Nat /\ Len(stack) >= 1
  BY StackElements
<1>2. Len(stack) - 1 \in Nat /\ Len(stack) - 1 <= Len(stack)
  BY <1>1
<1> QED BY <1>1, <1>2, PrefixElements DEF Front

\* A call goes on.
LEMMA WentTo ==
  ASSUME TypeOK, stack # <<>>, NEW frame \in Frames, stack' = Append(Front(stack), frame)
  PROVE  TopIs(Len(stack), frame)
<1> DEFINE rest == Front(stack)
<1>1. /\ Len(stack) \in Nat /\ Len(stack) >= 1
      /\ rest \in Seq(Frames) /\ Len(rest) = Len(stack) - 1
      /\ \A f \in 1 .. Len(stack) - 1 : rest[f] = stack[f]
  BY StackElements, FrontElements
<1> HIDE DEF rest
<1>2. stack' = Append(rest, frame)
  BY DEF rest
<1>3. /\ stack' \in Seq(Frames) /\ Len(stack') = Len(rest) + 1
      /\ \A f \in 1 .. Len(rest) + 1 :
           stack'[f] = IF f <= Len(rest) THEN rest[f] ELSE frame
  BY <1>1, <1>2, AppendProperties
<1> QED BY <1>1, <1>3, LenProperties DEF TopIs

\* A call returns.
LEMMA Popped ==
  ASSUME TypeOK, stack # <<>>, stack' = Front(stack)
  PROVE  /\ stack' \in Seq(Frames) /\ Len(stack') = Len(stack) - 1
         /\ DOMAIN stack' = 1 .. Len(stack) - 1
         /\ \A f \in 1 .. Len(stack) - 1 : stack'[f] = stack[f]
BY FrontElements, LenProperties

----------------------------------------------------------------------------
(* Nesting *)

\* With a call on top that comes to n, the others below it, the calls are nested.
LEMMA NestsWithTop ==
  ASSUME TypeOK, Nesting, UNCHANGED multitasking, wrapped \subseteq wrapped',
         NEW n \in {Len(stack), Len(stack) + 1}, n >= 1,
         NEW frame \in Frames, TopIs(n, frame), Placed(frame),
         \A f \in 1 .. n - 1 : stack[f].at \notin {"flags", "base"},
         \A f \in 1 .. n - 1 :
           stack[f].at = "subrate" /\ stack[f].tid \notin wrapped => Higher(frame, stack[f].tid)
  PROVE  Nesting'
<1>1. /\ n \in Nat /\ Len(stack) \in Nat /\ DOMAIN stack = 1 .. Len(stack)
      /\ DOMAIN stack' = 1 .. n /\ Len(stack') = n /\ stack'[n] = frame
      /\ \A f \in 1 .. n - 1 : stack'[f] = stack[f] /\ f \in DOMAIN stack
  BY StackElements DEF TopIs
<1>2. Slower' = Slower
  BY DEF Slower
<1>3. /\ \A f \in 1 .. n : f \in 1 .. n - 1 \/ f = n
      /\ \A f \in 1 .. n - 1 : f \in 1 .. n /\ f # n /\ f < n
  BY <1>1, LastOrBefore
<1>4. ASSUME NEW f \in 1 .. n
      PROVE  Placed(stack[f])' /\ (f < n => stack'[f].at \notin {"flags", "base"})
  <2>1. CASE f = n
    <3>1. stack'[f] = frame /\ ~ (f < n)
      BY <1>1, <2>1
    <3>2. Placed(stack[f])'
      BY <1>2, <3>1, Zenon DEF Placed
    <3> QED BY <3>1, <3>2
  <2>2. CASE f \in 1 .. n - 1
    BY <1>1, <1>2, <2>2 DEF Placed, Nesting
  <2> QED BY <1>3, <2>1, <2>2
<1>5. ASSUME NEW f \in 1 .. n, NEW g \in 1 .. n, f < g,
             stack'[f].at = "subrate", stack'[f].tid \notin wrapped'
      PROVE  Higher(stack'[g], stack'[f].tid)
  <2>0. f \in 1 .. n - 1
    BY <1>1, <1>5
  <2>1. stack'[f] = stack[f] /\ f \in DOMAIN stack /\ stack[f].tid \notin wrapped
    BY <1>1, <1>5, <2>0
  <2>2. CASE g = n
    BY <1>1, <1>5, <2>0, <2>1, <2>2
  <2>3. CASE g \in 1 .. n - 1
    BY <1>1, <1>5, <2>0, <2>1, <2>3 DEF Nesting
  <2> QED BY <1>3, <2>2, <2>3
<1> QED BY <1>1, <1>4, <1>5 DEF Nesting, Placed, Higher

\* Below the last of n calls a task is at one of some places.
Below(n, P, t) == \E f \in 1 .. n - 1 : stack[f].at \in P /\ stack[f].tid = t

\* The last call moves: where the tasks are then, and what stays.
LEMMA Moves ==
  ASSUME IInv, stack # <<>>, NEW frame \in Frames, stack' = Append(Front(stack), frame),
         UNCHANGED <<buildVars, mainVars>>
  PROVE  /\ Len(stack) \in Nat /\ Len(stack) >= 1 /\ TopIs(Len(stack), frame)
         /\ stack' \in Seq(Frames) /\ Len(stack') = Len(stack)
         /\ stack' # <<>> /\ Top' = frame
         /\ ~ ended /\ EndedIsOver' /\ Slower' = Slower
         /\ ~ attached => Len(stack) = 1
         /\ \A P, t : /\ Within(P, t) <=> (Top.at \in P /\ Top.tid = t) \/ Below(Len(stack), P, t)
                      /\ Within(P, t)' <=> (frame.at \in P /\ frame.tid = t) \/ Below(Len(stack), P, t)
<1>1. /\ TypeOK /\ Len(stack) \in Nat /\ Len(stack) >= 1 /\ DOMAIN stack = 1 .. Len(stack)
      /\ Top = stack[Len(stack)] /\ TopIs(Len(stack), frame)
  BY StackElements, WentTo DEF IInv
<1> DEFINE n == Len(stack)
<1>2. /\ stack' \in Seq(Frames) /\ Len(stack') = n /\ DOMAIN stack' = 1 .. n
      /\ stack'[n] = frame /\ \A f \in 1 .. n - 1 : stack'[f] = stack[f]
  BY <1>1 DEF TopIs
<1>3. Top' = frame /\ stack' # <<>>
  <2>1. n >= 1 /\ Len(<<>>) = 0
    BY <1>1, EmptySeq
  <2> HIDE DEF n
  <2> QED BY <1>2, <2>1 DEF Top, Last
<1>4. ~ ended /\ EndedIsOver' /\ Slower' = Slower
  BY DEF IInv, EndedIsOver, mainVars, buildVars, Slower
<1>5. ~ attached => n = 1
  BY <1>1 DEF IInv, ServedInTurn
<1>6. /\ \A f \in 1 .. n : f \in 1 .. n - 1 \/ f = n
      /\ \A f \in 1 .. n - 1 : f \in 1 .. n
      /\ n \in 1 .. n
  <2>1. n \in Nat /\ n >= 1
    BY <1>1
  <2> HIDE DEF n
  <2> QED BY <2>1, LastOrBefore
<1>7. ASSUME NEW P, NEW t
      PROVE  Within(P, t) <=> (Top.at \in P /\ Top.tid = t) \/ Below(n, P, t)
  <2> HIDE DEF n
  <2>1. Within(P, t) <=> \E f \in 1 .. n : stack[f].at \in P /\ stack[f].tid = t
    BY <1>1 DEF Within, n
  <2>2. Top = stack[n]
    BY <1>1 DEF n
  <2> QED BY <1>6, <2>1, <2>2 DEF Below
<1>8. ASSUME NEW P, NEW t
      PROVE  Within(P, t)' <=> (frame.at \in P /\ frame.tid = t) \/ Below(n, P, t)
  <2> HIDE DEF n
  <2>1. Within(P, t)' <=> \E f \in 1 .. n : stack'[f].at \in P /\ stack'[f].tid = t
    BY <1>2 DEF Within
  <2> QED BY <1>2, <1>6, <2>1 DEF Below
<1> HIDE DEF n
<1> QED BY <1>1, <1>2, <1>3, <1>4, <1>5, <1>7, <1>8 DEF n

\* The last call returns: where the tasks are then, and what stays.
LEMMA Returns ==
  ASSUME IInv, stack # <<>>, stack' = Front(stack), Top.at \notin {"missed"},
         UNCHANGED <<buildVars, mainVars>>, wrapped' = wrapped
  PROVE  /\ Len(stack) \in Nat /\ Len(stack) >= 1
         /\ stack' \in Seq(Frames) /\ Len(stack') = Len(stack) - 1
         /\ DOMAIN stack' = 1 .. Len(stack) - 1
         /\ \A f \in 1 .. Len(stack) - 1 : stack'[f] = stack[f] /\ f \in DOMAIN stack
         /\ ~ BaseOpen' /\ Nesting'
         /\ ~ ended /\ EndedIsOver' /\ Slower' = Slower
         /\ ~ attached => stack' = <<>> /\ Len(stack) = 1
         /\ \A P, t : /\ Within(P, t) <=> (Top.at \in P /\ Top.tid = t) \/ Below(Len(stack), P, t)
                      /\ Within(P, t)' <=> Below(Len(stack), P, t)
<1>1. /\ TypeOK /\ Nesting /\ Len(stack) \in Nat /\ Len(stack) >= 1
      /\ DOMAIN stack = 1 .. Len(stack) /\ Top = stack[Len(stack)]
  BY StackElements DEF IInv
<1> DEFINE n == Len(stack)
<1>2. /\ stack' \in Seq(Frames) /\ Len(stack') = n - 1 /\ DOMAIN stack' = 1 .. n - 1
      /\ \A f \in 1 .. n - 1 : stack'[f] = stack[f]
  BY <1>1, Popped
<1>3. ~ ended /\ EndedIsOver' /\ Slower' = Slower
  BY DEF IInv, EndedIsOver, mainVars, buildVars, Slower
<1>4. ~ attached => n = 1 /\ stack' = <<>>
  BY <1>1, <1>2, EmptySeq DEF IInv, ServedInTurn
<1>6. /\ \A f \in 1 .. n : f \in 1 .. n - 1 \/ f = n
      /\ \A f \in 1 .. n - 1 : f \in 1 .. n /\ f < n
      /\ n \in 1 .. n
  <2>1. n \in Nat /\ n >= 1
    BY <1>1
  <2> HIDE DEF n
  <2> QED BY <2>1, LastOrBefore
<1>7. ASSUME NEW P, NEW t
      PROVE  /\ Within(P, t) <=> (Top.at \in P /\ Top.tid = t) \/ Below(n, P, t)
             /\ Within(P, t)' <=> Below(n, P, t)
  <2> HIDE DEF n
  <2>1. Within(P, t) <=> \E f \in 1 .. n : stack[f].at \in P /\ stack[f].tid = t
    BY <1>1 DEF Within, n
  <2>2. Top = stack[n]
    BY <1>1 DEF n
  <2>3. Within(P, t)' <=> \E f \in 1 .. n - 1 : stack'[f].at \in P /\ stack'[f].tid = t
    BY <1>2 DEF Within
  <2> QED BY <1>2, <1>6, <2>1, <2>2, <2>3 DEF Below
<1>8. ~ BaseOpen'
  <2>1. SUFFICES ASSUME stack' # <<>> PROVE stack'[Len(stack')].at \notin {"flags", "base"}
    BY DEF BaseOpen, Top, Last
  <2>2. n - 1 \in 1 .. n - 1
    BY <1>1, <1>2, <2>1, EmptySeq
  <2> QED BY <1>1, <1>2, <1>6, <2>2 DEF Nesting
<1>9. Nesting'
  <2>1. UNCHANGED multitasking
    BY DEF buildVars
  <2> QED BY <1>1, <1>2, <1>3, <1>6 DEF Nesting, Placed, Higher
<1> HIDE DEF n
<1> QED BY <1>1, <1>2, <1>3, <1>4, <1>6, <1>7, <1>8, <1>9 DEF n

\* What is said of the last call, and of the tasks it has interrupted.
LEMMA LastCall ==
  ASSUME IInv, stack # <<>>
  PROVE  /\ Placed(Top) /\ Top \in Frames /\ Top.tid \in Int
         /\ \A f \in 1 .. Len(stack) - 1 :
              stack[f].at = "subrate" /\ stack[f].tid \notin wrapped =>
                /\ stack[f].tid \in Slower /\ stack[f].tid \in Int
                /\ Higher(Top, stack[f].tid) /\ OverrunFlags[stack[f].tid] # 0
         /\ Top.at \in Chosen /\ Top.tid \notin wrapped
              => ~ Below(Len(stack), {"subrate"}, Top.tid)
<1>1. /\ TypeOK /\ Nesting /\ Len(stack) \in Nat /\ Len(stack) >= 1
      /\ DOMAIN stack = 1 .. Len(stack) /\ Top = stack[Len(stack)]
  BY StackElements DEF IInv
<1>2. /\ Len(stack) \in DOMAIN stack
      /\ \A f \in 1 .. Len(stack) - 1 : f \in DOMAIN stack /\ f < Len(stack)
  BY <1>1
<1>3. Placed(Top) /\ Top \in Frames /\ Top.tid \in Int
  BY <1>1, <1>2, StackElements DEF Nesting
<1>4. ASSUME NEW f \in 1 .. Len(stack) - 1, stack[f].at = "subrate", stack[f].tid \notin wrapped
      PROVE  /\ stack[f].tid \in Slower /\ stack[f].tid \in Int
             /\ Higher(Top, stack[f].tid) /\ OverrunFlags[stack[f].tid] # 0
  <2>1. stack[f].tid \in Slower /\ stack[f].tid \in Tasks /\ stack[f].tid \in Int
    BY <1>1, <1>2, <1>4, TaskNumbers DEF Nesting, Placed, OfATask
  <2>2. Higher(Top, stack[f].tid)
    BY <1>1, <1>2, <1>4 DEF Nesting
  <2>3. Running(stack[f].tid)
    BY <1>2, <1>4 DEF Running, Within
  <2>4. OverrunFlags[stack[f].tid] >= One(Running(stack[f].tid)) + One(stack[f].tid \in overran)
    BY <1>4, <2>1 DEF IInv, FlagsCount
  <2> QED BY <2>1, <2>2, <2>3, <2>4 DEF One
<1>5. Top.at \in Chosen /\ Top.tid \notin wrapped => ~ Below(Len(stack), {"subrate"}, Top.tid)
  <2>1. SUFFICES ASSUME Top.at \in Chosen, Top.tid \notin wrapped,
                        NEW f \in 1 .. Len(stack) - 1,
                        stack[f].at = "subrate", stack[f].tid = Top.tid
                 PROVE  FALSE
    BY DEF Below
  <2>2. Top.tid < Top.tid
    BY <1>4, <2>1 DEF Higher
  <2> QED BY <1>3, <2>2
<1> QED BY <1>3, <1>4, <1>5

\* The calls stay nested when the last one moves.
LEMMA MoveNests ==
  ASSUME IInv, stack # <<>>, NEW frame \in Frames, stack' = Append(Front(stack), frame),
         UNCHANGED buildVars, wrapped \subseteq wrapped', Placed(frame),
         \A f \in 1 .. Len(stack) - 1 :
           stack[f].at = "subrate" /\ stack[f].tid \notin wrapped => Higher(frame, stack[f].tid)
  PROVE  Nesting'
<1>1. /\ TypeOK /\ Nesting /\ Len(stack) \in Nat /\ Len(stack) >= 1
      /\ DOMAIN stack = 1 .. Len(stack) /\ TopIs(Len(stack), frame)
  BY StackElements, WentTo DEF IInv
<1>2. \A f \in 1 .. Len(stack) - 1 : stack[f].at \notin {"flags", "base"}
  BY <1>1 DEF Nesting
<1> QED BY <1>1, <1>2, NestsWithTop DEF buildVars

\* No task is found late, nor forgotten to be, when the last call moves or returns.
LEMMA MoveIsNotLate ==
  ASSUME IInv, stack # <<>>, NEW frame \in Frames, stack' = Append(Front(stack), frame),
         UNCHANGED buildVars, overran' = overran, Top.at # "missed", frame.at # "missed"
  PROVE  IsLate' <=> IsLate
<1>1. /\ TypeOK /\ Len(stack) \in Nat /\ Len(stack) >= 1 /\ Top = stack[Len(stack)]
      /\ DOMAIN stack = 1 .. Len(stack) /\ TopIs(Len(stack), frame)
  BY StackElements, WentTo DEF IInv
<1>2. Slower' = Slower
  BY DEF Slower, buildVars
<1>3. /\ \A f \in 1 .. Len(stack) : f \in 1 .. Len(stack) - 1 \/ f = Len(stack)
      /\ \A f \in 1 .. Len(stack) - 1 : f \in 1 .. Len(stack)
  BY <1>1, LastOrBefore
<1>4. (\E f \in DOMAIN stack' : stack'[f].at = "missed")
        <=> \E f \in DOMAIN stack : stack[f].at = "missed"
  BY <1>1, <1>3 DEF TopIs
<1> QED BY <1>2, <1>4 DEF IsLate

LEMMA ReturnIsNotLate ==
  ASSUME IInv, stack # <<>>, stack' = Front(stack),
         UNCHANGED buildVars, overran' = overran, Top.at # "missed"
  PROVE  IsLate' <=> IsLate
<1>1. /\ TypeOK /\ Len(stack) \in Nat /\ Len(stack) >= 1 /\ Top = stack[Len(stack)]
      /\ DOMAIN stack = 1 .. Len(stack)
      /\ DOMAIN stack' = 1 .. Len(stack) - 1
      /\ \A f \in 1 .. Len(stack) - 1 : stack'[f] = stack[f]
  BY StackElements, Popped DEF IInv
<1>2. Slower' = Slower
  BY DEF Slower, buildVars
<1>3. /\ \A f \in 1 .. Len(stack) : f \in 1 .. Len(stack) - 1 \/ f = Len(stack)
      /\ \A f \in 1 .. Len(stack) - 1 : f \in 1 .. Len(stack)
  BY <1>1, LastOrBefore
<1>4. (\E f \in DOMAIN stack' : stack'[f].at = "missed")
        <=> \E f \in DOMAIN stack : stack[f].at = "missed"
  BY <1>1, <1>3
<1> QED BY <1>2, <1>4 DEF IsLate

\* A call that has chosen a hit stays the only one to, and has one to serve.
LEMMA MoveCounts ==
  ASSUME IInv, stack # <<>>, NEW frame \in Frames, stack' = Append(Front(stack), frame),
         ~ IsLate, ~ exposed,
         frame.at = "count" => frame.tid \in unserved'
  PROVE  \A f \in DOMAIN stack' :
           /\ f < Len(stack') => stack'[f].at \notin {"count", "taken"}
           /\ stack'[f].at = "count" => stack'[f].tid \in unserved'
<1>1. /\ TypeOK /\ Len(stack) \in Nat /\ Len(stack) >= 1
      /\ DOMAIN stack = 1 .. Len(stack) /\ TopIs(Len(stack), frame)
  BY StackElements, WentTo DEF IInv
<1>2. \A f \in 1 .. Len(stack) - 1 : f \in DOMAIN stack /\ f < Len(stack)
  BY <1>1
<1>3. \A f \in 1 .. Len(stack) - 1 : stack'[f].at \notin {"count", "taken"}
  BY <1>1, <1>2 DEF IInv, HitsAreExact, TopIs
<1>4. \A f \in 1 .. Len(stack) : f \in 1 .. Len(stack) - 1 \/ f = Len(stack)
  BY <1>1, LastOrBefore
<1>5. ASSUME NEW f \in 1 .. Len(stack)
      PROVE  /\ f < Len(stack) => stack'[f].at \notin {"count", "taken"}
             /\ stack'[f].at = "count" => stack'[f].tid \in unserved'
  <2>1. CASE f = Len(stack)
    <3>1. stack'[Len(stack)] = frame
      BY <1>1 DEF TopIs
    <3>2. ~ (Len(stack) < Len(stack))
      BY <1>1
    <3> QED BY <2>1, <3>1, <3>2
  <2>2. CASE f \in 1 .. Len(stack) - 1
    BY <1>3, <2>2
  <2> QED BY <1>4, <2>1, <2>2
<1> QED BY <1>1, <1>5 DEF TopIs

----------------------------------------------------------------------------
(* main, and the entry of a call *)

\* With the calls as they are, so are the tasks.
LEMMA CallsStay ==
  ASSUME UNCHANGED <<buildVars, stack>>
  PROVE  /\ Slower' = Slower /\ Top' = Top /\ (BaseOpen' <=> BaseOpen)
         /\ \A t : (Running(t)' <=> Running(t)) /\ (Serving(t)' <=> Serving(t))
BY DEF buildVars, Slower, Top, BaseOpen, Running, Serving, Within

\* main's own variables say nothing about the calls.
LEMMA MainKeeps ==
  ASSUME IInv, UNCHANGED <<buildVars, stack, OverrunFlags, eventFlags, status, historyVars>>
  PROVE  Nesting' /\ FlagsCount' /\ FlagsAreExact' /\ HitsAreExact' /\ ServedInTurn'
<1>1. /\ Slower' = Slower /\ Top' = Top /\ (BaseOpen' <=> BaseOpen)
      /\ \A t : (Running(t)' <=> Running(t)) /\ (Serving(t)' <=> Serving(t))
  BY CallsStay
<1>2. IsLate' <=> IsLate
  BY <1>1 DEF IsLate, historyVars
<1>3. Nesting'
  BY <1>1 DEF IInv, Nesting, Placed, Higher, historyVars
<1>4. FlagsCount'
  BY <1>1 DEF IInv, FlagsCount, One, historyVars
<1>5. FlagsAreExact'
  BY <1>1, <1>2 DEF IInv, FlagsAreExact, One, historyVars
<1>6. HitsAreExact'
  BY <1>1, <1>2 DEF IInv, HitsAreExact, One, historyVars
<1>7. ServedInTurn'
  BY <1>1, <1>2 DEF IInv, ServedInTurn, historyVars, buildVars
<1> QED BY <1>3, <1>4, <1>5, <1>6, <1>7

LEMMA RequestStopIInv == IInv /\ RequestStop => IInv'
<1> SUFFICES ASSUME IInv, RequestStop PROVE IInv'
  OBVIOUS
<1>1. UNCHANGED <<buildVars, stack, OverrunFlags, eventFlags, taskCounter, status, ended,
                  reported, historyVars>> /\ stopRequested' = TRUE
  BY DEF RequestStop
<1>2. TypeOK' /\ EndedIsOver'
  BY <1>1 DEF IInv, TypeOK, EndedIsOver, buildVars, historyVars
<1> QED BY <1>1, <1>2, MainKeeps DEF IInv

\* The final report names what the flags say, and they say of each overrun.
LEMMA TermModelIInv == IInv /\ rt_TermModel => IInv'
<1> SUFFICES ASSUME IInv, rt_TermModel PROVE IInv'
  OBVIOUS
<1>1. /\ UNCHANGED <<buildVars, stack, OverrunFlags, eventFlags, taskCounter, status,
                     stopRequested, historyVars>>
      /\ ended' = TRUE /\ stack = <<>>
  BY DEF rt_TermModel
<1>2. reported' \subseteq Tasks
  BY TaskNumbers DEF rt_TermModel
<1>3. TypeOK'
  BY <1>1, <1>2 DEF IInv, TypeOK, buildVars, historyVars
<1>4. status = "Overrun" => overran \ wrapped \subseteq reported'
  <2>1. SUFFICES ASSUME NEW t \in overran, t \notin wrapped
                 PROVE  t \in {0} \union Slower /\ OverrunFlags[t] # 0
    BY DEF rt_TermModel
  <2>2. t \in {0} \union Slower /\ t \in Tasks
    BY TaskNumbers DEF IInv, FlagsCount
  <2>3. OverrunFlags[t] >= One(BaseOpen) + One(TRUE) \/ OverrunFlags[t] >= One(Running(t)) + One(TRUE)
    BY <2>1, <2>2 DEF IInv, FlagsCount
  <2> QED BY <2>2, <2>3 DEF One
<1>5. EndedIsOver'
  BY <1>1, <1>4 DEF EndedIsOver, historyVars
<1> QED BY <1>1, <1>3, <1>5, MainKeeps DEF IInv

\* A call from main's loop finds nothing to complain of.
LEMMA UnattachedFindsNothing ==
  ASSUME IInv, rt_OneStep, ~ attached
  PROVE  stack = <<>> /\ OverrunFlags[0] = 0 /\ Enter
<1>1. stack = <<>> /\ status = "none"
  BY DEF rt_OneStep
<1>2. OverrunFlags[0] = 0
  BY <1>1 DEF IInv, FlagsCount, BaseOpen, One
<1> QED BY <1>1, <1>2 DEF rt_OneStep, Refused

\* A refused interrupt is counted.
LEMMA RefusedIInv == IInv /\ rt_OneStep /\ Refused => IInv'
<1> SUFFICES ASSUME IInv, rt_OneStep, Refused PROVE IInv'
  OBVIOUS
<1>1. /\ attached /\ ~ ended
      /\ UNCHANGED <<buildVars, mainVars, stack, eventFlags, taskCounter, unserved, exposed>>
  BY UnattachedFindsNothing DEF rt_OneStep, Refused, Enter
<1>2. /\ Slower' = Slower /\ Top' = Top /\ (BaseOpen' <=> BaseOpen)
      /\ \A t : (Running(t)' <=> Running(t)) /\ (Serving(t)' <=> Serving(t))
  BY <1>1, CallsStay
<1>3. status' \in {"Overrun", "Simulation finished"}
  BY DEF IInv, TypeOK, Refused
<1>4. /\ OverrunFlags' \in [Tasks -> 0 .. FlagSpan - 1]
      /\ OverrunFlags[0] \in Nat /\ OverrunFlags'[0] \in Nat
      /\ \A t \in Slower : OverrunFlags'[t] = OverrunFlags[t]
      /\ wrapped \subseteq wrapped' /\ wrapped' \subseteq wrapped \union {0}
      /\ 0 \notin wrapped' => OverrunFlags'[0] = OverrunFlags[0] + 1
  BY TaskNumbers, Raised DEF IInv, Refused
<1>5. /\ overran \subseteq overran' /\ overran' \subseteq overran \union {0}
      /\ 0 \notin Slower /\ overran' \intersect Slower = overran \intersect Slower
  BY TaskNumbers DEF Refused
<1>6. IsLate' <=> IsLate
  BY <1>1, <1>2, <1>5 DEF IsLate
<1>7. TypeOK'
  <2>1. overran' \subseteq Tasks /\ wrapped' \subseteq Tasks
    BY <1>4, <1>5, TaskNumbers DEF IInv, TypeOK
  <2> QED BY <1>1, <1>3, <1>4, <2>1 DEF IInv, TypeOK, buildVars, mainVars
<1>8. Nesting'
  BY <1>1, <1>2, <1>4 DEF IInv, Nesting, Placed, Higher
<1>9. FlagsCount'
  <2>1. 0 \notin wrapped' => OverrunFlags'[0] >= One(BaseOpen') + One(0 \in overran')
    <3>1. 0 \notin wrapped' => OverrunFlags[0] >= One(BaseOpen)
      BY <1>4 DEF IInv, FlagsCount, One
    <3> QED BY <1>2, <1>4, <3>1 DEF One
  <2>2. ASSUME NEW t \in Slower, t \notin wrapped'
        PROVE  OverrunFlags'[t] >= One(Running(t)') + One(t \in overran')
    <3>1. OverrunFlags[t] >= One(Running(t)) + One(t \in overran)
      BY <1>4, <2>2 DEF IInv, FlagsCount
    <3>2. t \in overran' <=> t \in overran
      BY <1>5
    <3> QED BY <1>2, <1>4, <3>1, <3>2 DEF One
  <2>3. overran' \subseteq {0} \union Slower /\ unserved' \subseteq Slower
    BY <1>1, <1>5 DEF IInv, FlagsCount
  <2> QED BY <1>2, <1>3, <2>1, <2>2, <2>3 DEF FlagsCount
<1>10. FlagsAreExact'
  <2>1. ASSUME ~ IsLate, NEW t \in Slower
        PROVE  OverrunFlags'[t] = One(Running(t)') /\ t \notin wrapped'
    BY <1>2, <1>4, <1>5, <2>1 DEF IInv, FlagsAreExact, One
  <2> QED BY <1>2, <1>6, <2>1 DEF FlagsAreExact
<1>11. HitsAreExact'
  BY <1>1, <1>2, <1>6 DEF IInv, HitsAreExact, One
<1>12. ServedInTurn' /\ EndedIsOver'
  BY <1>1 DEF ServedInTurn, EndedIsOver, buildVars, mainVars
<1> QED BY <1>7, <1>8, <1>9, <1>10, <1>11, <1>12 DEF IInv

\* A call that is not refused enters none that runs the base rate.
LEMMA EnterIInv == IInv /\ rt_OneStep /\ Enter => IInv'
<1> SUFFICES ASSUME IInv, rt_OneStep, Enter PROVE IInv'
  OBVIOUS
<1> DEFINE frame == At("flags", 0)
           n     == Len(stack) + 1
<1>1. /\ ~ ended /\ OverrunFlags[0] = 0 /\ status = "none" /\ Len(stack) < MaxCalls
      /\ stack' = Append(stack, frame)
      /\ UNCHANGED <<buildVars, mainVars, eventFlags, taskCounter, unserved, status, overran>>
      /\ exposed' = (exposed \/ (stack # <<>> /\ Top.at \in {"count", "taken"}))
      /\ ~ attached => stack = <<>>
  BY DEF rt_OneStep, Enter
<1>2. frame \in Frames /\ frame.at = "flags" /\ frame.tid = 0
  BY TaskNumbers DEF At, Frames, Places
<1> HIDE DEF frame
<1>3. /\ TypeOK /\ Nesting /\ Len(stack) \in Nat /\ DOMAIN stack = 1 .. Len(stack)
      /\ TopIs(n, frame) /\ n \in Nat /\ n >= 1 /\ n - 1 = Len(stack)
      /\ stack # <<>> => Len(stack) >= 1 /\ Top = stack[Len(stack)]
      /\ stack = <<>> => Len(stack) = 0
  BY <1>1, <1>2, StackElements, Pushed, EmptySeq DEF IInv
<1>4. /\ stack' \in Seq(Frames) /\ Len(stack') = n /\ DOMAIN stack' = 1 .. n
      /\ stack'[n] = frame /\ \A f \in 1 .. Len(stack) : stack'[f] = stack[f]
  BY <1>3 DEF TopIs
<1>5. Top' = frame /\ stack' # <<>> /\ BaseOpen'
  <2>1. Len(<<>>) = 0
    BY EmptySeq
  <2> HIDE DEF n
  <2> QED BY <1>2, <1>3, <1>4, <2>1 DEF Top, Last, BaseOpen
<1>6. ~ BaseOpen /\ Slower' = Slower
  BY <1>1 DEF IInv, FlagsCount, One, Slower, buildVars
<1>7. /\ \A f \in 1 .. n : f \in 1 .. Len(stack) \/ f = n
      /\ \A f \in 1 .. Len(stack) : f \in 1 .. n
      /\ \A f \in 1 .. Len(stack) : f \in 1 .. Len(stack) - 1 \/ f = Len(stack)
      /\ \A f \in 1 .. Len(stack) - 1 : f \in 1 .. Len(stack) /\ f < Len(stack)
      /\ n \in 1 .. n
  <2> HIDE DEF n
  <2>1. n \in 1 .. n
    BY <1>3
  <2> QED BY <1>3, <2>1, LastOrBefore
<1>8. ASSUME NEW P, "flags" \notin P, NEW t
      PROVE  Within(P, t)' <=> Within(P, t)
  <2> HIDE DEF n
  <2>1. Within(P, t)' <=> \E f \in 1 .. n : stack'[f].at \in P /\ stack'[f].tid = t
    BY <1>4 DEF Within
  <2>2. Within(P, t) <=> \E f \in 1 .. Len(stack) : stack[f].at \in P /\ stack[f].tid = t
    BY <1>3 DEF Within
  <2> QED BY <1>2, <1>4, <1>7, <1>8, <2>1, <2>2
<1>9. \A t : (Running(t)' <=> Running(t)) /\ (Serving(t)' <=> Serving(t))
  BY <1>8 DEF Running, Serving
<1>10. IsLate' <=> IsLate
  <2> HIDE DEF n
  <2>1. (\E f \in 1 .. n : stack'[f].at = "missed")
          <=> \E f \in 1 .. Len(stack) : stack[f].at = "missed"
    <3>1. ASSUME NEW f \in 1 .. n, stack'[f].at = "missed"
          PROVE  \E g \in 1 .. Len(stack) : stack[g].at = "missed"
      <4>1. f # n
        BY <1>2, <1>4, <3>1
      <4>2. f \in 1 .. Len(stack)
        BY <1>7, <4>1
      <4> QED BY <1>4, <3>1, <4>2
    <3>2. ASSUME NEW f \in 1 .. Len(stack), stack[f].at = "missed"
          PROVE  \E g \in 1 .. n : stack'[g].at = "missed"
      <4>1. f \in 1 .. n
        BY <1>7
      <4>2. stack'[f].at = "missed"
        BY <1>4, <3>2
      <4> QED BY <4>1, <4>2
    <3> QED BY <3>1, <3>2
  <2> QED BY <1>1, <1>3, <1>4, <1>6, <2>1 DEF IsLate
<1>11. /\ OverrunFlags' \in [Tasks -> 0 .. FlagSpan - 1] /\ OverrunFlags'[0] = 1
       /\ \A t \in Slower : OverrunFlags'[t] = OverrunFlags[t]
       /\ wrapped' = wrapped
  BY <1>1, TaskNumbers, Raised DEF IInv, Enter
<1>12. TypeOK'
  <2>1. Len(stack') <= MaxCalls
    BY <1>1, <1>3, <1>4, TaskNumbers
  <2>2. stack' \in Seq([at : Places, tid : 0 .. (NUMST + 1)])
    BY <1>4 DEF Frames
  <2>3. exposed' \in BOOLEAN
    BY <1>1 DEF IInv, TypeOK
  <2> QED BY <1>1, <1>11, <2>1, <2>2, <2>3 DEF IInv, TypeOK, buildVars, mainVars
<1>13. Nesting'
  <2>1. ASSUME NEW f \in 1 .. Len(stack)
        PROVE  stack[f].at \notin {"flags", "base"}
    <3>1. CASE f = Len(stack)
      <4>1. stack # <<>> /\ Top = stack[f]
        BY <1>3, <3>1
      <4> QED BY <1>6, <4>1 DEF BaseOpen
    <3>2. CASE f \in 1 .. Len(stack) - 1
      BY <1>3, <1>7, <3>2 DEF Nesting
    <3> QED BY <1>7, <3>1, <3>2
  <2>2. Placed(frame) /\ \A t : Higher(frame, t)
    BY <1>2 DEF Placed, Higher, OfATask, Chosen
  <2>3. UNCHANGED multitasking /\ wrapped \subseteq wrapped'
    BY <1>1, <1>11 DEF buildVars
  <2>4. n \in {Len(stack), Len(stack) + 1}
    OBVIOUS
  <2> HIDE DEF n
  <2> QED BY <1>2, <1>3, <2>1, <2>2, <2>3, <2>4, NestsWithTop
<1>14. FlagsCount'
  <2>1. 0 \notin wrapped => 0 \notin overran
    BY <1>1 DEF IInv, FlagsCount, One
  <2>2. \A t \in Slower :
          t \notin wrapped => OverrunFlags'[t] >= One(Running(t)') + One(t \in overran)
    BY <1>9, <1>11 DEF IInv, FlagsCount, One
  <2>3. overran \subseteq {0} \union Slower /\ unserved \subseteq Slower
    BY DEF IInv, FlagsCount
  <2> QED BY <1>1, <1>5, <1>6, <1>11, <2>1, <2>2, <2>3 DEF FlagsCount, One
<1>15. FlagsAreExact'
  BY <1>6, <1>9, <1>10, <1>11 DEF IInv, FlagsAreExact, One
<1>16. HitsAreExact'
  <2>1. SUFFICES ASSUME ~ IsLate, ~ exposed'
                 PROVE  /\ \A f \in 1 .. n :
                             /\ f < n => stack'[f].at \notin {"count", "taken"}
                             /\ stack'[f].at = "count" => stack'[f].tid \in unserved
                        /\ \A t \in Slower :
                             /\ eventFlags[t] = One(t \in unserved \/ Serving(t)')
                             /\ t \in unserved => ~ Serving(t)'
    BY <1>1, <1>4, <1>6, <1>10 DEF HitsAreExact
  <2>2. ~ exposed /\ (stack # <<>> => Top.at \notin {"count", "taken"})
    BY <1>1, <2>1
  <2>3. ASSUME NEW f \in 1 .. Len(stack)
        PROVE  stack[f].at \notin {"count", "taken"}
    <3>1. CASE f = Len(stack)
      <4>1. stack # <<>> /\ Top = stack[f]
        BY <1>3, <3>1
      <4> QED BY <2>2, <4>1
    <3>2. CASE f \in 1 .. Len(stack) - 1
      BY <1>3, <1>7, <2>1, <2>2, <3>2 DEF IInv, HitsAreExact
    <3> QED BY <1>7, <3>1, <3>2
  <2>4. \A f \in 1 .. n : stack'[f].at \notin {"count", "taken"}
    BY <1>2, <1>4, <1>7, <2>3
  <2>5. \A t \in Slower : /\ eventFlags[t] = One(t \in unserved \/ Serving(t))
                          /\ t \in unserved => ~ Serving(t)
    BY <2>1, <2>2 DEF IInv, HitsAreExact
  <2> QED BY <1>9, <2>4, <2>5 DEF One
<1>17. ServedInTurn'
  <2>1. SUFFICES ASSUME ~ attached
                 PROVE  /\ ~ IsLate /\ ~ exposed' /\ overran = {} /\ n <= 1
                        /\ \A t \in Tasks : eventFlags[t] = 0
    BY <1>1, <1>4, <1>10 DEF ServedInTurn, buildVars
  <2>2. stack = <<>> /\ n = 1
    BY <1>1, <1>3, <2>1
  <2>3. /\ ~ IsLate /\ ~ exposed /\ overran = {}
        /\ \A t \in Tasks : eventFlags[t] = 0
    BY <2>1, <2>2 DEF IInv, ServedInTurn
  <2>4. ~ exposed'
    BY <1>1, <2>2, <2>3
  <2> HIDE DEF n
  <2> QED BY <2>2, <2>3, <2>4
<1>18. EndedIsOver'
  BY <1>1 DEF EndedIsOver, mainVars
<1> QED BY <1>12, <1>13, <1>14, <1>15, <1>16, <1>17, <1>18 DEF IInv

----------------------------------------------------------------------------
(* A call goes on *)

\* A call looks for a task: it moves, and nothing else.
LEMMA SearchIInv ==
  ASSUME IInv, stack # <<>>, NEW frame \in Frames, stack' = Append(Front(stack), frame),
         UNCHANGED <<buildVars, OverrunFlags, eventFlags, taskCounter, status, mainVars, historyVars>>,
         Top.at \in {"loop", "test"}, frame.at \in {"loop", "test", "count"}, Placed(frame),
         \A f \in 1 .. Len(stack) - 1 :
           stack[f].at = "subrate" /\ stack[f].tid \notin wrapped => Higher(frame, stack[f].tid),
         ~ IsLate /\ ~ exposed /\ frame.at = "count" => frame.tid \in unserved,
         ~ attached => \A u \in Tasks : eventFlags[u] # 0 => frame.tid <= u
  PROVE  IInv'
<1>1. /\ Len(stack) \in Nat /\ stack' \in Seq(Frames) /\ Len(stack') = Len(stack)
      /\ stack' # <<>> /\ Top' = frame /\ EndedIsOver' /\ Slower' = Slower
      /\ ~ attached => Len(stack) = 1
      /\ \A P, t : /\ Within(P, t) <=> (Top.at \in P /\ Top.tid = t) \/ Below(Len(stack), P, t)
                   /\ Within(P, t)' <=> (frame.at \in P /\ frame.tid = t) \/ Below(Len(stack), P, t)
  BY Moves
<1>2. \A t : (Running(t)' <=> Running(t)) /\ (Serving(t)' <=> Serving(t))
  <2>1. /\ Top.at \notin {"subrate"} /\ Top.at \notin {"subrate", "taken"}
        /\ frame.at \notin {"subrate"} /\ frame.at \notin {"subrate", "taken"}
    OBVIOUS
  <2> QED BY <1>1, <2>1 DEF Running, Serving
<1>3. UNCHANGED <<overran, wrapped, unserved, exposed>>
  BY DEF historyVars
<1>4. ~ BaseOpen /\ ~ BaseOpen'
  BY <1>1 DEF BaseOpen
<1>5. IsLate' <=> IsLate
  BY <1>3, MoveIsNotLate
<1>6. TypeOK'
  <2>1. stack' \in Seq([at : Places, tid : 0 .. (NUMST + 1)])
    BY <1>1 DEF Frames
  <2> QED BY <1>1, <1>3, <2>1 DEF IInv, TypeOK, buildVars, mainVars
<1>7. Nesting'
  BY <1>3, MoveNests
<1>8. FlagsCount'
  BY <1>1, <1>2, <1>3, <1>4 DEF IInv, FlagsCount, One
<1>9. FlagsAreExact'
  BY <1>1, <1>2, <1>3, <1>5 DEF IInv, FlagsAreExact, One
<1>10. HitsAreExact'
  <2>1. ~ IsLate /\ ~ exposed =>
          \A f \in DOMAIN stack' :
            /\ f < Len(stack') => stack'[f].at \notin {"count", "taken"}
            /\ stack'[f].at = "count" => stack'[f].tid \in unserved'
    BY <1>3, MoveCounts
  <2>2. ~ IsLate /\ ~ exposed =>
          \A t \in Slower : /\ eventFlags[t] = One(t \in unserved \/ Serving(t)')
                            /\ t \in unserved => ~ Serving(t)'
    BY <1>2 DEF IInv, HitsAreExact, One
  <2> QED BY <1>1, <1>3, <1>5, <2>1, <2>2 DEF HitsAreExact
<1>11. ServedInTurn'
  <2>1. SUFFICES ASSUME ~ attached
                 PROVE  /\ ~ IsLate /\ ~ exposed /\ overran = {} /\ Len(stack) <= 1
                        /\ \A t \in Tasks : eventFlags[t] # 0 => t \in Slower /\ frame.tid <= t
    BY <1>1, <1>3, <1>5 DEF ServedInTurn, buildVars, Chosen
  <2> QED BY <2>1 DEF IInv, ServedInTurn
<1> QED BY <1>1, <1>6, <1>7, <1>8, <1>9, <1>10, <1>11 DEF IInv

\* The numbers of the tasks that the last call may be at.
LEMMA TaskFrames ==
  ASSUME NEW t \in Slower
  PROVE  /\ t \in Int /\ FIRST_TID + 1 <= t /\ t <= NUMST - 1 /\ t # 0
         /\ t \in Tasks /\ t \in Subrates
         /\ \A place \in OfATask :
              /\ At(place, t) \in Frames /\ Placed(At(place, t))
              /\ At(place, t).at = place /\ At(place, t).tid = t
         /\ At("loop", t + 1) \in Frames /\ Placed(At("loop", t + 1))
         /\ At("loop", t + 1).at = "loop" /\ At("loop", t + 1).tid = t + 1
<1>1. /\ t \in Int /\ FIRST_TID + 1 <= t /\ t <= NUMST - 1 /\ t # 0
      /\ t \in Tasks /\ t \in Subrates /\ NUMST \in Nat /\ FIRST_TID \in {0, 1}
  BY TaskNumbers
<1>2. t \in 0 .. (NUMST + 1) /\ t + 1 \in 0 .. (NUMST + 1) /\ FIRST_TID < t + 1
  BY <1>1
<1>3. \A place \in OfATask : At(place, t) \in Frames /\ Placed(At(place, t))
  BY <1>2 DEF At, Frames, Places, Placed, OfATask
<1>4. At("loop", t + 1) \in Frames /\ Placed(At("loop", t + 1))
  BY <1>2 DEF At, Frames, Places, Placed, OfATask
<1> QED BY <1>1, <1>3, <1>4 DEF At

\* A task that nobody runs may be looked at.
LEMMA MayRunIInv == IInv /\ MayRun => IInv'
<1> SUFFICES ASSUME IInv, MayRun PROVE IInv'
  OBVIOUS
<1>1. PICK t \in Slower :
        /\ Is("loop", t) /\ OverrunFlags[t] = 0 /\ Goto("test", t)
        /\ UNCHANGED <<buildVars, OverrunFlags, eventFlags, taskCounter, status, mainVars, historyVars>>
  BY DEF MayRun
<1> DEFINE frame == At("test", t)
<1>2. /\ t \in Int /\ frame \in Frames /\ Placed(frame) /\ frame.at = "test" /\ frame.tid = t
      /\ stack' = Append(Front(stack), frame)
  BY <1>1, TaskFrames DEF Goto, OfATask
<1>3. stack # <<>> /\ Top.at = "loop" /\ Top.tid = t
  BY <1>1 DEF Is, At
<1> HIDE DEF frame
<1>4. ASSUME NEW f \in 1 .. Len(stack) - 1, stack[f].at = "subrate", stack[f].tid \notin wrapped
      PROVE  Higher(frame, stack[f].tid)
  <2>1. /\ stack[f].tid \in Int /\ Higher(Top, stack[f].tid)
        /\ OverrunFlags[stack[f].tid] # 0
    BY <1>3, <1>4, LastCall
  <2>2. t <= stack[f].tid /\ stack[f].tid # t
    BY <1>1, <1>3, <2>1 DEF Higher
  <2> QED BY <1>2, <2>1, <2>2 DEF Higher, Chosen
<1>5. ~ attached => \A u \in Tasks : eventFlags[u] # 0 => frame.tid <= u
  BY <1>2, <1>3 DEF IInv, ServedInTurn, Chosen
<1> QED BY <1>1, <1>2, <1>3, <1>4, <1>5, SearchIInv

\* A hit that is found waits to be served; a task without one is passed by.
LEMMA TestHitIInv == IInv /\ TestHit => IInv'
<1> SUFFICES ASSUME IInv, TestHit PROVE IInv'
  OBVIOUS
<1>1. PICK t \in Slower :
        /\ Is("test", t)
        /\ IF eventFlags[t] # 0 THEN Goto("count", t) ELSE Goto("loop", t + 1)
        /\ UNCHANGED <<buildVars, OverrunFlags, eventFlags, taskCounter, status, mainVars, historyVars>>
  BY DEF TestHit
<1>2. stack # <<>> /\ Top.at = "test" /\ Top.tid = t /\ t \in Int
  BY <1>1, TaskFrames DEF Is, At
<1>3. \A f \in 1 .. Len(stack) - 1 :
        stack[f].at = "subrate" /\ stack[f].tid \notin wrapped =>
          stack[f].tid \in Int /\ t < stack[f].tid
  BY <1>2, LastCall DEF Higher, Chosen
<1>4. ~ attached => \A u \in Tasks : eventFlags[u] # 0 => u \in Int /\ t <= u
  BY <1>2, TaskNumbers DEF IInv, ServedInTurn
<1>5. CASE eventFlags[t] # 0
  <2> DEFINE frame == At("count", t)
  <2>1. /\ frame \in Frames /\ Placed(frame) /\ frame.at = "count" /\ frame.tid = t
        /\ stack' = Append(Front(stack), frame)
    BY <1>1, <1>5, TaskFrames DEF Goto, OfATask
  <2> HIDE DEF frame
  <2>2. ~ IsLate /\ ~ exposed => t \in unserved
    <3>1. SUFFICES ASSUME ~ IsLate, ~ exposed PROVE ~ Serving(t)
      BY <1>5 DEF IInv, HitsAreExact, One
    <3>2. ~ Below(Len(stack), {"subrate"}, t)
      BY <1>2, <3>1, LastCall DEF IInv, FlagsAreExact, Chosen
    <3>3. Len(stack) \in Nat /\ DOMAIN stack = 1 .. Len(stack) /\ Top = stack[Len(stack)]
      BY <1>2, StackElements DEF IInv
    <3>4. /\ \A f \in 1 .. Len(stack) : f \in 1 .. Len(stack) - 1 \/ f = Len(stack)
          /\ \A f \in 1 .. Len(stack) - 1 : f \in 1 .. Len(stack) /\ f < Len(stack)
      BY <3>3, LastOrBefore
    <3>5. \A f \in 1 .. Len(stack) - 1 : stack[f].at # "taken"
      BY <3>1, <3>3, <3>4 DEF IInv, HitsAreExact
    <3> QED BY <1>2, <3>2, <3>3, <3>4, <3>5 DEF Serving, Within, Below
  <2>3. \A f \in 1 .. Len(stack) - 1 :
          stack[f].at = "subrate" /\ stack[f].tid \notin wrapped => Higher(frame, stack[f].tid)
    BY <1>3, <2>1 DEF Higher, Chosen
  <2> QED BY <1>1, <1>2, <1>4, <2>1, <2>2, <2>3, SearchIInv
<1>6. CASE eventFlags[t] = 0
  <2> DEFINE frame == At("loop", t + 1)
  <2>1. /\ frame \in Frames /\ Placed(frame) /\ frame.at = "loop" /\ frame.tid = t + 1
        /\ stack' = Append(Front(stack), frame)
    BY <1>1, <1>6, TaskFrames DEF Goto
  <2> HIDE DEF frame
  <2>2. \A f \in 1 .. Len(stack) - 1 :
          stack[f].at = "subrate" /\ stack[f].tid \notin wrapped => Higher(frame, stack[f].tid)
    BY <1>2, <1>3, <2>1 DEF Higher, Chosen
  <2>3. ~ attached => \A u \in Tasks : eventFlags[u] # 0 => frame.tid <= u
    <3>1. ASSUME ~ attached, NEW u \in Tasks, eventFlags[u] # 0 PROVE frame.tid <= u
      <4>1. u \in Int /\ t <= u /\ u # t
        BY <1>4, <1>6, <3>1
      <4> QED BY <1>2, <2>1, <4>1
    <3> QED BY <3>1
  <2> QED BY <1>1, <1>2, <2>1, <2>2, <2>3, SearchIInv
<1> QED BY <1>5, <1>6

\* A call returns: the ones it has interrupted are as they were.
LEMMA LeaveIInv ==
  ASSUME IInv, stack # <<>>, stack' = Front(stack), Top.at \in {"loop", "counted"},
         UNCHANGED <<buildVars, OverrunFlags, eventFlags, taskCounter, mainVars, historyVars>>,
         status' \in {status, "Overrun"},
         ~ attached => \A u \in Tasks : eventFlags[u] = 0
  PROVE  IInv'
<1>1. UNCHANGED <<overran, wrapped, unserved, exposed>>
  BY DEF historyVars
<1>2. /\ Len(stack) \in Nat /\ Len(stack) >= 1
      /\ stack' \in Seq(Frames) /\ Len(stack') = Len(stack) - 1
      /\ DOMAIN stack' = 1 .. Len(stack) - 1
      /\ \A f \in 1 .. Len(stack) - 1 : stack'[f] = stack[f] /\ f \in DOMAIN stack
      /\ ~ BaseOpen' /\ Nesting' /\ EndedIsOver' /\ Slower' = Slower
      /\ ~ attached => stack' = <<>> /\ Len(stack) = 1
      /\ \A P, t : /\ Within(P, t) <=> (Top.at \in P /\ Top.tid = t) \/ Below(Len(stack), P, t)
                   /\ Within(P, t)' <=> Below(Len(stack), P, t)
  BY <1>1, Returns
<1>3. \A t : (Running(t)' <=> Running(t)) /\ (Serving(t)' <=> Serving(t))
  <2>1. Top.at \notin {"subrate"} /\ Top.at \notin {"subrate", "taken"}
    OBVIOUS
  <2> QED BY <1>2, <2>1 DEF Running, Serving
<1>4. ~ BaseOpen
  BY DEF BaseOpen
<1>5. IsLate' <=> IsLate
  BY <1>1, ReturnIsNotLate
<1>6. TypeOK'
  <2>1. stack' \in Seq([at : Places, tid : 0 .. (NUMST + 1)])
    BY <1>2 DEF Frames
  <2>2. Len(stack') <= MaxCalls
    <3>1. Len(stack) <= MaxCalls
      BY DEF IInv, TypeOK
    <3> QED BY <1>2, <3>1, TaskNumbers
  <2>3. status' \in {"none", "Overrun", "Simulation finished"}
    BY DEF IInv, TypeOK
  <2> QED BY <1>1, <2>1, <2>2, <2>3 DEF IInv, TypeOK, buildVars, mainVars
<1>7. FlagsCount'
  BY <1>1, <1>2, <1>3, <1>4 DEF IInv, FlagsCount, One
<1>8. FlagsAreExact'
  BY <1>1, <1>2, <1>3, <1>5 DEF IInv, FlagsAreExact, One
<1>9. HitsAreExact'
  <2>1. ASSUME ~ IsLate, ~ exposed, NEW f \in 1 .. Len(stack) - 1
        PROVE  stack'[f].at \notin {"count", "taken"}
    <3>1. f < Len(stack)
      BY <1>2
    <3> QED BY <1>2, <2>1, <3>1 DEF IInv, HitsAreExact
  <2>2. ~ IsLate /\ ~ exposed =>
          \A t \in Slower : /\ eventFlags[t] = One(t \in unserved \/ Serving(t)')
                            /\ t \in unserved => ~ Serving(t)'
    BY <1>3 DEF IInv, HitsAreExact, One
  <2> QED BY <1>1, <1>2, <1>5, <2>1, <2>2 DEF HitsAreExact
<1>10. ServedInTurn'
  <2>1. SUFFICES ASSUME ~ attached
                 PROVE  ~ IsLate /\ ~ exposed /\ overran = {} /\ Len(stack) - 1 <= 1
    BY <1>1, <1>2, <1>5 DEF ServedInTurn, buildVars
  <2> QED BY <1>2, <2>1 DEF IInv, ServedInTurn
<1> QED BY <1>2, <1>6, <1>7, <1>8, <1>9, <1>10 DEF IInv

\* Without an interrupt the call has by then served every hit.
LEMMA ReturnIInv == IInv /\ Return => IInv'
<1> SUFFICES ASSUME IInv, Return PROVE IInv'
  OBVIOUS
<1>1. PICK t \in 1 .. (NUMST + 1) : Is("loop", t) /\ (t \in Slower => OverrunFlags[t] # 0)
  BY DEF Return
<1>2. /\ stack' = Front(stack)
      /\ UNCHANGED <<buildVars, OverrunFlags, eventFlags, taskCounter, status, mainVars, historyVars>>
  BY DEF Return, Leave
<1>3. stack # <<>> /\ Top.at = "loop" /\ Top.tid = t
  BY <1>1 DEF Is, At
<1>4. ASSUME ~ attached, NEW u \in Tasks, eventFlags[u] # 0 PROVE FALSE
  <2>1. u \in Slower /\ t <= u /\ ~ IsLate /\ Len(stack) <= 1
    BY <1>3, <1>4 DEF IInv, ServedInTurn
  <2>2. t \in Slower
    <3>1. FIRST_TID < t
      BY <1>3, LastCall DEF Placed
    <3>2. t \in Subrates
      BY <2>1, <3>1, TaskNumbers
    <3> QED BY <2>1, <3>2 DEF Slower
  <2>3. ~ Running(t)
    <3>1. Len(stack) = 1 /\ DOMAIN stack = 1 .. 1 /\ Top = stack[1]
      BY <1>3, <2>1, StackElements DEF IInv
    <3> QED BY <1>3, <3>1 DEF Running, Within
  <2>4. OverrunFlags[t] = 0
    BY <2>1, <2>2, <2>3 DEF IInv, FlagsAreExact, One
  <2> QED BY <1>1, <2>2, <2>4
<1> QED BY <1>2, <1>3, <1>4, LeaveIInv

\* A missed hit is reported.
LEMMA ReportMissedIInv == IInv /\ ReportMissed => IInv'
<1> SUFFICES ASSUME IInv, ReportMissed PROVE IInv'
  OBVIOUS
<1>1. PICK t \in Slower : Is("counted", t)
  BY DEF ReportMissed
<1>2. /\ stack' = Front(stack) /\ status' = "Overrun"
      /\ UNCHANGED <<buildVars, OverrunFlags, eventFlags, taskCounter, mainVars, historyVars>>
  BY DEF ReportMissed, Leave
<1>3. stack # <<>> /\ Top.at = "counted"
  BY <1>1 DEF Is, At
<1>4. ~ attached => \A u \in Tasks : eventFlags[u] = 0
  BY <1>3 DEF IInv, ServedInTurn, Chosen
<1> QED BY <1>2, <1>3, <1>4, LeaveIInv

\* The base rate's flag is lowered when the step is over, or given up.
LEMMA BaseLowered ==
  ASSUME IInv, Lower(0), BaseOpen, ~ BaseOpen', UNCHANGED multitasking,
         wrapped' = wrapped, overran' = overran, unserved' \subseteq Slower,
         status' = "none" => status = "none",
         \A t \in Slower : Running(t)' <=> Running(t)
  PROVE  /\ FlagsCount'
         /\ OverrunFlags' \in [Tasks -> 0 .. FlagSpan - 1]
         /\ \A t \in Slower : OverrunFlags'[t] = OverrunFlags[t]
<1>1. /\ OverrunFlags' \in [Tasks -> 0 .. FlagSpan - 1]
      /\ OverrunFlags[0] \in Nat /\ OverrunFlags'[0] \in Nat
      /\ \A t \in Slower : OverrunFlags'[t] = OverrunFlags[t]
      /\ OverrunFlags[0] >= 1 => OverrunFlags'[0] = OverrunFlags[0] - 1
  BY TaskNumbers, Lowered DEF IInv
<1>2. Slower' = Slower
  BY DEF Slower
<1>3. status' = "none" => OverrunFlags'[0] = 0
  BY <1>1 DEF IInv, FlagsCount, One
<1>4. 0 \notin wrapped => OverrunFlags'[0] >= One(0 \in overran)
  <2>1. 0 \notin wrapped => OverrunFlags[0] >= 1 + One(0 \in overran)
    BY DEF IInv, FlagsCount, One
  <2> QED BY <1>1, <2>1 DEF One
<1>5. \A t \in Slower :
        t \notin wrapped => OverrunFlags'[t] >= One(Running(t)') + One(t \in overran)
  BY <1>1 DEF IInv, FlagsCount, One
<1>6. overran \subseteq {0} \union Slower
  BY DEF IInv, FlagsCount
<1>7. One(BaseOpen') = 0
  BY DEF One
<1>8. 0 \notin wrapped => OverrunFlags'[0] >= One(BaseOpen') + One(0 \in overran)
  BY <1>4, <1>7 DEF One
<1> QED BY <1>1, <1>2, <1>3, <1>5, <1>6, <1>7, <1>8 DEF FlagsCount

\* The step at the base rate ends: the call turns to the slower tasks.
LEMMA EndBaseIInv == IInv /\ EndBase => IInv'
<1> SUFFICES ASSUME IInv, EndBase PROVE IInv'
  OBVIOUS
<1> DEFINE frame == At("loop", FIRST_TID + 1)
<1>1. /\ Is("base", 0) /\ stack' = Append(Front(stack), frame) /\ Lower(0)
      /\ status' \in {status, "Simulation finished"}
      /\ UNCHANGED <<buildVars, eventFlags, taskCounter, mainVars, historyVars>>
  BY DEF EndBase, Goto
<1>2. stack # <<>> /\ Top.at = "base" /\ Top.tid = 0
  BY <1>1 DEF Is, At
<1>3. /\ frame \in Frames /\ Placed(frame) /\ frame.at = "loop" /\ frame.tid = FIRST_TID + 1
  BY TaskNumbers DEF At, Frames, Places, Placed, OfATask
<1> HIDE DEF frame
<1>4. UNCHANGED <<overran, wrapped, unserved, exposed>>
  BY <1>1 DEF historyVars
<1>5. /\ Len(stack) \in Nat /\ stack' \in Seq(Frames) /\ Len(stack') = Len(stack)
      /\ stack' # <<>> /\ Top' = frame /\ EndedIsOver' /\ Slower' = Slower
      /\ ~ attached => Len(stack) = 1
      /\ \A P, t : /\ Within(P, t) <=> (Top.at \in P /\ Top.tid = t) \/ Below(Len(stack), P, t)
                   /\ Within(P, t)' <=> (frame.at \in P /\ frame.tid = t) \/ Below(Len(stack), P, t)
  BY <1>1, <1>2, <1>3, Moves
<1>6. \A t : (Running(t)' <=> Running(t)) /\ (Serving(t)' <=> Serving(t))
  <2>1. /\ Top.at \notin {"subrate"} /\ Top.at \notin {"subrate", "taken"}
        /\ frame.at \notin {"subrate"} /\ frame.at \notin {"subrate", "taken"}
    BY <1>2, <1>3
  <2> QED BY <1>5, <2>1 DEF Running, Serving
<1>7. BaseOpen /\ ~ BaseOpen'
  BY <1>2, <1>3, <1>5 DEF BaseOpen
<1>8. IsLate' <=> IsLate
  BY <1>1, <1>2, <1>3, <1>4, MoveIsNotLate
<1>9. /\ FlagsCount' /\ OverrunFlags' \in [Tasks -> 0 .. FlagSpan - 1]
      /\ \A t \in Slower : OverrunFlags'[t] = OverrunFlags[t]
  <2>1. UNCHANGED multitasking /\ (status' = "none" => status = "none") /\ unserved' \subseteq Slower
    BY <1>1, <1>4 DEF buildVars, IInv, FlagsCount
  <2> QED BY <1>1, <1>4, <1>6, <1>7, <2>1, BaseLowered
<1>10. TypeOK'
  <2>1. stack' \in Seq([at : Places, tid : 0 .. (NUMST + 1)])
    BY <1>5 DEF Frames
  <2>2. status' \in {"none", "Overrun", "Simulation finished"}
    BY <1>1 DEF IInv, TypeOK
  <2> QED BY <1>1, <1>4, <1>5, <1>9, <2>1, <2>2 DEF IInv, TypeOK, buildVars, mainVars
<1>11. Nesting'
  <2>1. ASSUME NEW f \in 1 .. Len(stack) - 1, stack[f].at = "subrate", stack[f].tid \notin wrapped
        PROVE  Higher(frame, stack[f].tid)
    <3>1. stack[f].tid \in Slower
      BY <1>2, <2>1, LastCall
    <3>2. FIRST_TID + 1 <= stack[f].tid
      BY <3>1, TaskNumbers
    <3> QED BY <1>3, <3>2 DEF Higher, Chosen
  <2> QED BY <1>1, <1>2, <1>3, <1>4, <2>1, MoveNests
<1>12. FlagsAreExact'
  BY <1>4, <1>5, <1>6, <1>8, <1>9 DEF IInv, FlagsAreExact, One
<1>13. HitsAreExact'
  <2>1. ~ IsLate /\ ~ exposed =>
          \A f \in DOMAIN stack' :
            /\ f < Len(stack') => stack'[f].at \notin {"count", "taken"}
            /\ stack'[f].at = "count" => stack'[f].tid \in unserved'
    BY <1>1, <1>2, <1>3, MoveCounts
  <2>2. ~ IsLate /\ ~ exposed =>
          \A t \in Slower : /\ eventFlags[t] = One(t \in unserved \/ Serving(t)')
                            /\ t \in unserved => ~ Serving(t)'
    BY <1>6 DEF IInv, HitsAreExact, One
  <2> QED BY <1>1, <1>4, <1>5, <1>8, <2>1, <2>2 DEF HitsAreExact
<1>14. ServedInTurn'
  <2>1. SUFFICES ASSUME ~ attached
                 PROVE  /\ ~ IsLate /\ ~ exposed /\ overran = {} /\ Len(stack) <= 1
                        /\ \A t \in Tasks : eventFlags[t] # 0 => t \in Slower /\ frame.tid <= t
    BY <1>1, <1>3, <1>4, <1>5, <1>8 DEF ServedInTurn, buildVars
  <2>2. \A t \in Slower : frame.tid <= t
    BY <1>3, TaskNumbers
  <2> QED BY <2>1, <2>2 DEF IInv, ServedInTurn
<1> QED BY <1>5, <1>9, <1>10, <1>11, <1>12, <1>13, <1>14 DEF IInv

\* What the loop over the event flags does.
LEMMA Flagged ==
  ASSUME TypeOK, NEW S, S \subseteq Slower, NEW C, Flag(S, C)
  PROVE  /\ eventFlags' \in [Tasks -> 0 .. FlagSpan - 1] /\ taskCounter' \in [Subrates -> Nat]
         /\ \A t \in Tasks :
              /\ t \in S /\ Due(t) => /\ t \in unserved'
                                      /\ eventFlags[t] = 0 => eventFlags'[t] = 1
              /\ ~ (t \in S /\ Due(t)) => /\ t \in unserved' <=> t \in unserved
                                          /\ eventFlags'[t] = eventFlags[t]
         /\ unserved' \subseteq unserved \union Slower
<1>1. \A t \in Tasks : /\ eventFlags[t] \in 0 .. FlagSpan - 1
                       /\ Up(eventFlags[t]) \in 0 .. FlagSpan - 1
                       /\ eventFlags[t] = 0 => Up(eventFlags[t]) = 1
  <2>1. \A t \in Tasks : eventFlags[t] \in 0 .. FlagSpan - 1
    BY DEF TypeOK
  <2> QED BY <2>1, UpAndDown
<1>2. eventFlags' = [t \in Tasks |-> IF t \in S /\ Due(t) THEN Up(eventFlags[t]) ELSE eventFlags[t]]
      /\ unserved' = unserved \union {t \in S : Due(t)}
  BY DEF Flag
<1>3. eventFlags' \in [Tasks -> 0 .. FlagSpan - 1]
  BY <1>1, <1>2
<1>4. taskCounter' \in [Subrates -> Nat]
  <2>1. ASSUME NEW t \in Subrates
        PROVE  (taskCounter[t] + 1) % CounterLimit[t] \in Nat /\ taskCounter[t] \in Nat
    <3>1. taskCounter[t] \in Nat /\ CounterLimit[t] \in Nat \ {0}
      BY RtMainAssumption DEF TypeOK, Subrates
    <3>2. ASSUME NEW a \in Nat, NEW b \in Nat \ {0} PROVE (a + 1) % b \in Nat
      OBVIOUS
    <3> QED BY <3>1, <3>2
  <2> QED BY <2>1 DEF Flag
<1> QED BY <1>1, <1>2, <1>3, <1>4

\* No hit is missed, and the step at the base rate begins.
LEMMA BeginBaseIInv == IInv /\ BeginBase => IInv'
<1> SUFFICES ASSUME IInv, BeginBase PROVE IInv'
  OBVIOUS
<1> DEFINE frame == At("base", 0)
<1>1. /\ Is("flags", 0) /\ Missed = {} /\ stack' = Append(Front(stack), frame)
      /\ UNCHANGED <<buildVars, OverrunFlags, status, mainVars, overran, wrapped, exposed>>
  BY DEF BeginBase, Goto
<1>2. stack # <<>> /\ Top.at = "flags" /\ Top.tid = 0
  BY <1>1 DEF Is, At
<1>3. /\ frame \in Frames /\ Placed(frame) /\ frame.at = "base" /\ frame.tid = 0
  BY TaskNumbers DEF At, Frames, Places, Placed, OfATask
<1> HIDE DEF frame
<1>4. /\ Len(stack) \in Nat /\ stack' \in Seq(Frames) /\ Len(stack') = Len(stack)
      /\ stack' # <<>> /\ Top' = frame /\ EndedIsOver' /\ Slower' = Slower
      /\ ~ attached => Len(stack) = 1
      /\ \A P, t : /\ Within(P, t) <=> (Top.at \in P /\ Top.tid = t) \/ Below(Len(stack), P, t)
                   /\ Within(P, t)' <=> (frame.at \in P /\ frame.tid = t) \/ Below(Len(stack), P, t)
  BY <1>1, <1>2, <1>3, Moves
<1>5. \A t : (Running(t)' <=> Running(t)) /\ (Serving(t)' <=> Serving(t))
  <2>1. /\ Top.at \notin {"subrate"} /\ Top.at \notin {"subrate", "taken"}
        /\ frame.at \notin {"subrate"} /\ frame.at \notin {"subrate", "taken"}
    BY <1>2, <1>3
  <2> QED BY <1>4, <2>1 DEF Running, Serving
<1>6. BaseOpen /\ BaseOpen'
  BY <1>2, <1>3, <1>4 DEF BaseOpen
<1>7. IsLate' <=> IsLate
  BY <1>1, <1>2, <1>3, MoveIsNotLate
<1>8. /\ eventFlags' \in [Tasks -> 0 .. FlagSpan - 1] /\ taskCounter' \in [Subrates -> Nat]
      /\ \A t \in Tasks :
           /\ t \in Slower /\ Due(t) => /\ t \in unserved'
                                        /\ eventFlags[t] = 0 => eventFlags'[t] = 1
           /\ ~ (t \in Slower /\ Due(t)) => /\ t \in unserved' <=> t \in unserved
                                            /\ eventFlags'[t] = eventFlags[t]
      /\ unserved' \subseteq unserved \union Slower
  BY Flagged DEF IInv, BeginBase
<1>9. unserved' \subseteq Slower
  BY <1>8 DEF IInv, FlagsCount
<1>10. TypeOK'
  <2>1. stack' \in Seq([at : Places, tid : 0 .. (NUMST + 1)])
    BY <1>4 DEF Frames
  <2>2. unserved' \subseteq Tasks
    BY <1>9, TaskNumbers
  <2> QED BY <1>1, <1>4, <1>8, <2>1, <2>2 DEF IInv, TypeOK, buildVars, mainVars
<1>11. Nesting'
  <2>1. \A t : Higher(frame, t)
    BY <1>3 DEF Higher, Chosen
  <2> QED BY <1>1, <1>2, <1>3, <2>1, MoveNests
<1>12. FlagsCount'
  BY <1>1, <1>4, <1>5, <1>6, <1>9 DEF IInv, FlagsCount, One
<1>13. FlagsAreExact'
  BY <1>1, <1>4, <1>5, <1>7 DEF IInv, FlagsAreExact, One
<1>14. HitsAreExact'
  <2>1. ~ IsLate /\ ~ exposed =>
          \A f \in DOMAIN stack' :
            /\ f < Len(stack') => stack'[f].at \notin {"count", "taken"}
            /\ stack'[f].at = "count" => stack'[f].tid \in unserved'
    BY <1>1, <1>2, <1>3, MoveCounts
  <2>2. ASSUME ~ IsLate, ~ exposed, NEW t \in Slower
        PROVE  /\ eventFlags'[t] = One(t \in unserved' \/ Serving(t)')
               /\ t \in unserved' => ~ Serving(t)'
    <3>1. t \in Tasks /\ eventFlags[t] = One(t \in unserved \/ Serving(t))
          /\ (t \in unserved => ~ Serving(t))
      BY <2>2, TaskNumbers DEF IInv, HitsAreExact
    <3>2. CASE Due(t)
      <4>1. eventFlags[t] = 0
        BY <1>1, <3>2 DEF Missed
      <4>2. ~ Serving(t) /\ t \in unserved' /\ eventFlags'[t] = 1
        BY <1>8, <3>1, <3>2, <4>1 DEF One
      <4> QED BY <1>5, <4>2 DEF One
    <3>3. CASE ~ Due(t)
      BY <1>5, <1>8, <3>1, <3>3 DEF One
    <3> QED BY <3>2, <3>3
  <2> QED BY <1>1, <1>4, <1>7, <2>1, <2>2 DEF HitsAreExact
<1>15. ServedInTurn'
  <2>1. SUFFICES ASSUME ~ attached
                 PROVE  /\ ~ IsLate /\ ~ exposed /\ overran = {} /\ Len(stack) <= 1
                        /\ \A t \in Tasks : eventFlags'[t] # 0 => t \in Slower
    BY <1>1, <1>3, <1>4, <1>7 DEF ServedInTurn, buildVars
  <2> QED BY <1>8, <2>1 DEF IInv, ServedInTurn
<1> QED BY <1>4, <1>10, <1>11, <1>12, <1>13, <1>14, <1>15 DEF IInv

\* There is a first one among the slower tasks whose hits were missed.
LEMMA FirstMissed ==
  ASSUME Missed # {}
  PROVE  Min(Missed) \in Missed
<1>1. Missed \subseteq Nat
  BY TaskNumbers DEF Missed
<1>2. \E m \in Missed : \A t \in Missed : m <= t
  <2>1. PICK m \in Missed : \A t \in Missed : <<t, m>> \notin OpToRel(<, Nat)
    BY <1>1, NatLessThanWellFounded, WFMin
  <2>2. \A t \in Missed : ~ (t < m)
    BY <1>1, <2>1 DEF OpToRel
  <2> QED BY <1>1, <2>2
<1> QED BY <1>2 DEF Min

\* A call whose last frame names a late task has found one.
LEMMA TopIsLate ==
  ASSUME TypeOK, stack # <<>>, Top.at = "missed"
  PROVE  IsLate
<1>1. Len(stack) \in Nat /\ Len(stack) >= 1 /\ DOMAIN stack = 1 .. Len(stack)
      /\ Top = stack[Len(stack)]
  BY StackElements
<1>2. Len(stack) \in DOMAIN stack
  BY <1>1
<1> QED BY <1>1, <1>2 DEF IsLate

\* A missed hit makes the call give its step up.
LEMMA GiveUpIInv == IInv /\ GiveUp => IInv'
<1> SUFFICES ASSUME IInv, GiveUp PROVE IInv'
  OBVIOUS
<1> DEFINE m == Min(Missed)
           frame == At("missed", m)
<1>1. /\ Is("flags", 0) /\ Missed # {} /\ stack' = Append(Front(stack), frame) /\ Lower(0)
      /\ Flag({t \in Slower : t <= m}, {t \in Slower : t < m})
      /\ UNCHANGED <<buildVars, status, mainVars, overran, wrapped, exposed>>
  BY DEF GiveUp, Goto
<1>2. stack # <<>> /\ Top.at = "flags" /\ Top.tid = 0
  BY <1>1 DEF Is, At
<1>3. m \in Slower /\ m \in Tasks /\ eventFlags[m] # 0
  BY <1>1, FirstMissed, TaskNumbers DEF Missed
<1> HIDE DEF m
<1>4. /\ frame \in Frames /\ Placed(frame) /\ frame.at = "missed" /\ frame.tid = m
  BY <1>3, TaskFrames DEF OfATask
<1> HIDE DEF frame
<1>5. /\ Len(stack) \in Nat /\ Len(stack) >= 1 /\ TopIs(Len(stack), frame)
      /\ stack' \in Seq(Frames) /\ Len(stack') = Len(stack)
      /\ stack' # <<>> /\ Top' = frame /\ EndedIsOver' /\ Slower' = Slower
      /\ \A P, t : /\ Within(P, t) <=> (Top.at \in P /\ Top.tid = t) \/ Below(Len(stack), P, t)
                   /\ Within(P, t)' <=> (frame.at \in P /\ frame.tid = t) \/ Below(Len(stack), P, t)
  BY <1>1, <1>2, <1>4, Moves
<1>6. \A t : Running(t)' <=> Running(t)
  <2>1. Top.at \notin {"subrate"} /\ frame.at \notin {"subrate"}
    BY <1>2, <1>4
  <2> QED BY <1>5, <2>1 DEF Running
<1>7. BaseOpen /\ ~ BaseOpen'
  BY <1>2, <1>4, <1>5 DEF BaseOpen
<1>8. eventFlags' \in [Tasks -> 0 .. FlagSpan - 1] /\ taskCounter' \in [Subrates -> Nat]
      /\ unserved' \subseteq unserved \union Slower
  <2>1. {t \in Slower : t <= m} \subseteq Slower
    OBVIOUS
  <2> QED BY <1>1, <2>1, Flagged DEF IInv
<1>9. unserved' \subseteq Slower
  BY <1>8 DEF IInv, FlagsCount
<1>10. FlagsCount' /\ OverrunFlags' \in [Tasks -> 0 .. FlagSpan - 1]
  BY <1>1, <1>6, <1>7, <1>9, BaseLowered DEF buildVars
<1>11. TypeOK'
  <2>1. stack' \in Seq([at : Places, tid : 0 .. (NUMST + 1)])
    BY <1>5 DEF Frames
  <2>2. unserved' \subseteq Tasks
    BY <1>9, TaskNumbers
  <2> QED BY <1>1, <1>5, <1>8, <1>10, <2>1, <2>2 DEF IInv, TypeOK, buildVars, mainVars
<1>12. Nesting'
  <2>1. \A t : Higher(frame, t)
    BY <1>4 DEF Higher, Chosen
  <2> QED BY <1>1, <1>2, <1>4, <2>1, MoveNests
<1>13. IsLate'
  <2>1. Len(stack) \in DOMAIN stack' /\ stack'[Len(stack)].at = "missed"
    BY <1>4, <1>5 DEF TopIs
  <2> QED BY <2>1 DEF IsLate
<1>14. attached
  BY <1>2, <1>3 DEF IInv, ServedInTurn, Chosen
<1>15. FlagsAreExact' /\ HitsAreExact' /\ ServedInTurn'
  BY <1>1, <1>13, <1>14 DEF FlagsAreExact, HitsAreExact, ServedInTurn, buildVars
<1> QED BY <1>5, <1>10, <1>11, <1>12, <1>15 DEF IInv

\* The missed hit is counted in the flag of its task.
LEMMA CountMissedIInv == IInv /\ CountMissed => IInv'
<1> SUFFICES ASSUME IInv, CountMissed PROVE IInv'
  OBVIOUS
<1>1. PICK t \in Slower :
        /\ Is("missed", t) /\ Goto("counted", t) /\ Raise(t)
        /\ overran' = overran \union {t}
        /\ UNCHANGED <<buildVars, eventFlags, taskCounter, status, mainVars, unserved, exposed>>
  BY DEF CountMissed
<1> DEFINE frame == At("counted", t)
<1>2. stack # <<>> /\ Top.at = "missed" /\ Top.tid = t
  BY <1>1 DEF Is, At
<1>3. /\ frame \in Frames /\ Placed(frame) /\ frame.at = "counted" /\ frame.tid = t
      /\ t \in Tasks /\ t # 0 /\ stack' = Append(Front(stack), frame)
  BY <1>1, TaskFrames DEF OfATask, Goto
<1> HIDE DEF frame
<1>4. /\ Len(stack) \in Nat /\ stack' \in Seq(Frames) /\ Len(stack') = Len(stack)
      /\ stack' # <<>> /\ Top' = frame /\ EndedIsOver' /\ Slower' = Slower
      /\ \A P, u : /\ Within(P, u) <=> (Top.at \in P /\ Top.tid = u) \/ Below(Len(stack), P, u)
                   /\ Within(P, u)' <=> (frame.at \in P /\ frame.tid = u) \/ Below(Len(stack), P, u)
  BY <1>1, <1>2, <1>3, Moves
<1>5. \A u : Running(u)' <=> Running(u)
  <2>1. Top.at \notin {"subrate"} /\ frame.at \notin {"subrate"}
    BY <1>2, <1>3
  <2> QED BY <1>4, <2>1 DEF Running
<1>6. ~ BaseOpen /\ ~ BaseOpen'
  BY <1>2, <1>3, <1>4 DEF BaseOpen
<1>7. /\ OverrunFlags' \in [Tasks -> 0 .. FlagSpan - 1]
      /\ \A u \in Tasks : OverrunFlags[u] \in Nat
      /\ \A u \in Tasks : u # t => OverrunFlags'[u] = OverrunFlags[u]
      /\ wrapped \subseteq wrapped' /\ wrapped' \subseteq wrapped \union {t}
      /\ t \notin wrapped' => OverrunFlags'[t] = OverrunFlags[t] + 1
  BY <1>1, <1>3, Raised DEF IInv
<1>8. TypeOK'
  <2>1. stack' \in Seq([at : Places, tid : 0 .. (NUMST + 1)])
    BY <1>4 DEF Frames
  <2>2. overran' \subseteq Tasks /\ wrapped' \subseteq Tasks
    BY <1>1, <1>3, <1>7 DEF IInv, TypeOK
  <2> QED BY <1>1, <1>4, <1>7, <2>1, <2>2 DEF IInv, TypeOK, buildVars, mainVars
<1>9. Nesting'
  <2>1. \A u : Higher(frame, u)
    BY <1>3 DEF Higher, Chosen
  <2> QED BY <1>1, <1>2, <1>3, <1>7, <2>1, MoveNests
<1>10. FlagsCount'
  <2>1. /\ status = "none" => OverrunFlags'[0] = One(BaseOpen')
        /\ 0 \notin wrapped' => OverrunFlags'[0] >= One(BaseOpen') + One(0 \in overran')
    BY <1>1, <1>3, <1>6, <1>7, TaskNumbers DEF IInv, FlagsCount, One
  <2>2. ASSUME NEW u \in Slower, u \notin wrapped'
        PROVE  OverrunFlags'[u] >= One(Running(u)') + One(u \in overran')
    <3>1. u \in Tasks /\ OverrunFlags[u] >= One(Running(u)) + One(u \in overran)
      BY <1>7, <2>2, TaskNumbers DEF IInv, FlagsCount
    <3>2. CASE u = t
      BY <1>5, <1>7, <2>2, <3>1, <3>2 DEF One
    <3>3. CASE u # t
      BY <1>1, <1>5, <1>7, <3>1, <3>3 DEF One
    <3> QED BY <3>2, <3>3
  <2>3. overran' \subseteq {0} \union Slower /\ unserved' \subseteq Slower
    BY <1>1 DEF IInv, FlagsCount
  <2> QED BY <1>1, <1>4, <2>1, <2>2, <2>3 DEF FlagsCount
<1>11. IsLate' /\ attached
  <2>1. IsLate
    BY <1>2, TopIsLate DEF IInv
  <2> QED BY <1>1, <1>4, <2>1 DEF IsLate, IInv, ServedInTurn
<1>12. FlagsAreExact' /\ HitsAreExact' /\ ServedInTurn'
  BY <1>1, <1>11 DEF FlagsAreExact, HitsAreExact, ServedInTurn, buildVars
<1> QED BY <1>4, <1>8, <1>9, <1>10, <1>12 DEF IInv

\* None of the calls below is at the task that the last one has chosen.
LEMMA ChosenOnce ==
  ASSUME IInv, stack # <<>>, Top.at \in Chosen
  PROVE  /\ Top.tid \notin wrapped => ~ Below(Len(stack), {"subrate"}, Top.tid)
         /\ ~ IsLate /\ ~ exposed => ~ Below(Len(stack), {"subrate", "taken"}, Top.tid)
         /\ ~ IsLate /\ ~ exposed /\ Top.at = "count" => Top.tid \in unserved
         /\ \A f \in 1 .. Len(stack) - 1 :
              stack[f].at = "subrate" /\ stack[f].tid \notin wrapped =>
                stack[f].tid \in Int /\ Top.tid < stack[f].tid
<1>1. /\ Len(stack) \in Nat /\ Len(stack) >= 1 /\ DOMAIN stack = 1 .. Len(stack)
      /\ Top = stack[Len(stack)]
  BY StackElements DEF IInv
<1>2. /\ Len(stack) \in DOMAIN stack
      /\ \A f \in 1 .. Len(stack) - 1 : f \in DOMAIN stack /\ f < Len(stack)
  BY <1>1
<1>3. /\ Top.tid \notin wrapped => ~ Below(Len(stack), {"subrate"}, Top.tid)
      /\ \A f \in 1 .. Len(stack) - 1 :
           stack[f].at = "subrate" /\ stack[f].tid \notin wrapped =>
             stack[f].tid \in Int /\ Top.tid < stack[f].tid
      /\ Top.tid \in Slower
  BY LastCall DEF Higher, Placed, Chosen, OfATask
<1>4. ~ IsLate => Top.tid \notin wrapped
  BY <1>3 DEF IInv, FlagsAreExact
<1>5. ~ IsLate /\ ~ exposed => \A f \in 1 .. Len(stack) - 1 : stack[f].at # "taken"
  BY <1>2 DEF IInv, HitsAreExact
<1>6. ~ IsLate /\ ~ exposed => ~ Below(Len(stack), {"subrate", "taken"}, Top.tid)
  BY <1>3, <1>4, <1>5 DEF Below
<1>7. ~ IsLate /\ ~ exposed /\ Top.at = "count" => Top.tid \in unserved
  BY <1>1, <1>2 DEF IInv, HitsAreExact
<1> QED BY <1>3, <1>6, <1>7

\* A slower task begins: its flag is counted, and its hit is being served.
LEMMA BeginSubrateIInv == IInv /\ BeginSubrate => IInv'
<1> SUFFICES ASSUME IInv, BeginSubrate PROVE IInv'
  OBVIOUS
<1>1. PICK t \in Slower :
        /\ Is("count", t) /\ Goto("subrate", t) /\ Raise(t)
        /\ unserved' = unserved \ {t}
        /\ UNCHANGED <<buildVars, eventFlags, taskCounter, status, mainVars, overran, exposed>>
  BY DEF BeginSubrate
<1> DEFINE frame == At("subrate", t)
<1>2. stack # <<>> /\ Top.at = "count" /\ Top.tid = t /\ Top.at \in Chosen
  BY <1>1 DEF Is, At, Chosen
<1>3. /\ frame \in Frames /\ Placed(frame) /\ frame.at = "subrate" /\ frame.tid = t
      /\ t \in Tasks /\ t # 0 /\ t \in Int /\ stack' = Append(Front(stack), frame)
  BY <1>1, TaskFrames DEF OfATask, Goto
<1> HIDE DEF frame
<1>4. /\ Len(stack) \in Nat /\ stack' \in Seq(Frames) /\ Len(stack') = Len(stack)
      /\ stack' # <<>> /\ Top' = frame /\ EndedIsOver' /\ Slower' = Slower
      /\ ~ attached => Len(stack) = 1
      /\ \A P, u : /\ Within(P, u) <=> (Top.at \in P /\ Top.tid = u) \/ Below(Len(stack), P, u)
                   /\ Within(P, u)' <=> (frame.at \in P /\ frame.tid = u) \/ Below(Len(stack), P, u)
  BY <1>1, <1>2, <1>3, Moves
<1>5. /\ t \notin wrapped => ~ Running(t)
      /\ ~ IsLate /\ ~ exposed => ~ Serving(t) /\ t \in unserved
      /\ Running(t)' /\ Serving(t)'
      /\ \A u : u # t => (Running(u)' <=> Running(u)) /\ (Serving(u)' <=> Serving(u))
      /\ \A f \in 1 .. Len(stack) - 1 :
           stack[f].at = "subrate" /\ stack[f].tid \notin wrapped =>
             stack[f].tid \in Int /\ t < stack[f].tid
  <2>1. /\ Top.at \notin {"subrate"} /\ Top.at \notin {"subrate", "taken"}
        /\ frame.at \in {"subrate"} /\ frame.at \in {"subrate", "taken"}
    BY <1>2, <1>3
  <2>2. /\ \A u : Running(u) <=> Below(Len(stack), {"subrate"}, u)
        /\ \A u : Running(u)' <=> u = t \/ Below(Len(stack), {"subrate"}, u)
        /\ \A u : Serving(u) <=> Below(Len(stack), {"subrate", "taken"}, u)
        /\ \A u : Serving(u)' <=> u = t \/ Below(Len(stack), {"subrate", "taken"}, u)
    BY <1>3, <1>4, <2>1 DEF Running, Serving
  <2> QED BY <1>2, <2>2, ChosenOnce
<1>6. ~ BaseOpen /\ ~ BaseOpen'
  BY <1>2, <1>3, <1>4 DEF BaseOpen
<1>7. IsLate' <=> IsLate
  BY <1>1, <1>2, <1>3, MoveIsNotLate
<1>8. /\ OverrunFlags' \in [Tasks -> 0 .. FlagSpan - 1]
      /\ \A u \in Tasks : OverrunFlags[u] \in Nat
      /\ \A u \in Tasks : u # t => OverrunFlags'[u] = OverrunFlags[u]
      /\ wrapped \subseteq wrapped' /\ wrapped' \subseteq wrapped \union {t}
      /\ t \notin wrapped' => OverrunFlags'[t] = OverrunFlags[t] + 1
      /\ OverrunFlags[t] = 0 => OverrunFlags'[t] = 1 /\ wrapped' = wrapped
  BY <1>1, <1>3, Raised DEF IInv
<1>9. TypeOK'
  <2>1. stack' \in Seq([at : Places, tid : 0 .. (NUMST + 1)])
    BY <1>4 DEF Frames
  <2>2. unserved' \subseteq Tasks /\ wrapped' \subseteq Tasks
    BY <1>1, <1>3, <1>8 DEF IInv, TypeOK
  <2> QED BY <1>1, <1>4, <1>8, <2>1, <2>2 DEF IInv, TypeOK, buildVars, mainVars
<1>10. Nesting'
  <2>1. \A f \in 1 .. Len(stack) - 1 :
          stack[f].at = "subrate" /\ stack[f].tid \notin wrapped => Higher(frame, stack[f].tid)
    BY <1>3, <1>5 DEF Higher, Chosen
  <2> QED BY <1>1, <1>2, <1>3, <1>8, <2>1, MoveNests
<1>11. FlagsCount'
  <2>1. /\ status = "none" => OverrunFlags'[0] = One(BaseOpen')
        /\ 0 \notin wrapped' => OverrunFlags'[0] >= One(BaseOpen') + One(0 \in overran)
    BY <1>3, <1>6, <1>8, TaskNumbers DEF IInv, FlagsCount, One
  <2>2. ASSUME NEW u \in Slower, u \notin wrapped'
        PROVE  OverrunFlags'[u] >= One(Running(u)') + One(u \in overran)
    <3>1. u \in Tasks /\ OverrunFlags[u] >= One(Running(u)) + One(u \in overran)
          /\ u \notin wrapped
      BY <1>8, <2>2, TaskNumbers DEF IInv, FlagsCount
    <3>2. CASE u = t
      BY <1>5, <1>8, <2>2, <3>1, <3>2 DEF One
    <3>3. CASE u # t
      BY <1>5, <1>8, <3>1, <3>3 DEF One
    <3> QED BY <3>2, <3>3
  <2>3. overran \subseteq {0} \union Slower /\ unserved' \subseteq Slower
    BY <1>1 DEF IInv, FlagsCount
  <2> QED BY <1>1, <1>4, <2>1, <2>2, <2>3 DEF FlagsCount
<1>12. FlagsAreExact'
  <2>1. ASSUME ~ IsLate, NEW u \in Slower
        PROVE  OverrunFlags'[u] = One(Running(u)') /\ u \notin wrapped'
    <3>1. /\ OverrunFlags[u] = One(Running(u)) /\ u \notin wrapped /\ u \in Tasks
          /\ OverrunFlags[t] = One(Running(t)) /\ t \notin wrapped
      BY <2>1, TaskNumbers DEF IInv, FlagsAreExact
    <3>2. OverrunFlags[t] = 0 /\ OverrunFlags'[t] = 1 /\ wrapped' = wrapped
      BY <1>5, <1>8, <3>1 DEF One
    <3> QED BY <1>5, <1>8, <3>1, <3>2 DEF One
  <2> QED BY <1>4, <1>7, <2>1 DEF FlagsAreExact
<1>13. HitsAreExact'
  <2>1. ~ IsLate /\ ~ exposed =>
          \A f \in DOMAIN stack' :
            /\ f < Len(stack') => stack'[f].at \notin {"count", "taken"}
            /\ stack'[f].at = "count" => stack'[f].tid \in unserved'
    BY <1>2, <1>3, MoveCounts
  <2>2. ASSUME ~ IsLate, ~ exposed, NEW u \in Slower
        PROVE  /\ eventFlags[u] = One(u \in unserved' \/ Serving(u)')
               /\ u \in unserved' => ~ Serving(u)'
    <3>1. /\ eventFlags[u] = One(u \in unserved \/ Serving(u))
          /\ u \in unserved => ~ Serving(u)
      BY <2>2 DEF IInv, HitsAreExact
    <3>2. CASE u = t
      <4>1. t \in unserved /\ Serving(t)' /\ t \notin unserved'
        BY <1>1, <1>5, <2>2
      <4> QED BY <3>1, <3>2, <4>1 DEF One
    <3>3. CASE u # t
      <4>1. (u \in unserved' <=> u \in unserved) /\ (Serving(u)' <=> Serving(u))
        BY <1>1, <1>5, <3>3
      <4> QED BY <3>1, <4>1 DEF One
    <3> QED BY <3>2, <3>3
  <2> QED BY <1>1, <1>4, <1>7, <2>1, <2>2 DEF HitsAreExact
<1>14. ServedInTurn'
  <2>1. SUFFICES ASSUME ~ attached
                 PROVE  /\ ~ IsLate /\ ~ exposed /\ overran = {} /\ Len(stack) <= 1
                        /\ \A u \in Tasks : eventFlags[u] # 0 => u \in Slower /\ t <= u
    BY <1>1, <1>3, <1>4, <1>7 DEF ServedInTurn, buildVars, Chosen
  <2> QED BY <1>2, <2>1 DEF IInv, ServedInTurn
<1> QED BY <1>4, <1>9, <1>10, <1>11, <1>12, <1>13, <1>14 DEF IInv

\* A slower task ends; its hit is not yet taken.
LEMMA EndSubrateIInv == IInv /\ EndSubrate => IInv'
<1> SUFFICES ASSUME IInv, EndSubrate PROVE IInv'
  OBVIOUS
<1>1. PICK t \in Slower :
        /\ Is("subrate", t) /\ Goto("taken", t) /\ Lower(t)
        /\ UNCHANGED <<buildVars, eventFlags, taskCounter, status, mainVars, historyVars>>
  BY DEF EndSubrate
<1> DEFINE frame == At("taken", t)
<1>2. stack # <<>> /\ Top.at = "subrate" /\ Top.tid = t /\ Top.at \in Chosen
  BY <1>1 DEF Is, At, Chosen
<1>3. /\ frame \in Frames /\ Placed(frame) /\ frame.at = "taken" /\ frame.tid = t
      /\ t \in Tasks /\ t # 0 /\ t \in Int /\ stack' = Append(Front(stack), frame)
      /\ UNCHANGED <<overran, wrapped, unserved, exposed>>
  BY <1>1, TaskFrames DEF OfATask, Goto, historyVars
<1> HIDE DEF frame
<1>4. /\ Len(stack) \in Nat /\ stack' \in Seq(Frames) /\ Len(stack') = Len(stack)
      /\ stack' # <<>> /\ Top' = frame /\ EndedIsOver' /\ Slower' = Slower
      /\ ~ attached => Len(stack) = 1
      /\ \A P, u : /\ Within(P, u) <=> (Top.at \in P /\ Top.tid = u) \/ Below(Len(stack), P, u)
                   /\ Within(P, u)' <=> (frame.at \in P /\ frame.tid = u) \/ Below(Len(stack), P, u)
  BY <1>1, <1>2, <1>3, Moves
<1>5. /\ t \notin wrapped => ~ Running(t)'
      /\ Running(t)
      /\ \A u : u # t => (Running(u)' <=> Running(u))
      /\ \A u : Serving(u)' <=> Serving(u)
      /\ \A f \in 1 .. Len(stack) - 1 :
           stack[f].at = "subrate" /\ stack[f].tid \notin wrapped =>
             stack[f].tid \in Int /\ t < stack[f].tid
  <2>1. /\ Top.at \in {"subrate"} /\ Top.at \in {"subrate", "taken"}
        /\ frame.at \notin {"subrate"} /\ frame.at \in {"subrate", "taken"}
    BY <1>2, <1>3
  <2>2. /\ \A u : Running(u) <=> u = t \/ Below(Len(stack), {"subrate"}, u)
        /\ \A u : Running(u)' <=> Below(Len(stack), {"subrate"}, u)
        /\ \A u : Serving(u) <=> u = t \/ Below(Len(stack), {"subrate", "taken"}, u)
        /\ \A u : Serving(u)' <=> u = t \/ Below(Len(stack), {"subrate", "taken"}, u)
    BY <1>2, <1>3, <1>4, <2>1 DEF Running, Serving
  <2> QED BY <1>2, <2>2, ChosenOnce
<1>6. ~ BaseOpen /\ ~ BaseOpen'
  BY <1>2, <1>3, <1>4 DEF BaseOpen
<1>7. IsLate' <=> IsLate
  BY <1>1, <1>2, <1>3, MoveIsNotLate
<1>8. /\ OverrunFlags' \in [Tasks -> 0 .. FlagSpan - 1]
      /\ \A u \in Tasks : OverrunFlags[u] \in Nat
      /\ \A u \in Tasks : u # t => OverrunFlags'[u] = OverrunFlags[u]
      /\ OverrunFlags[t] >= 1 => OverrunFlags'[t] = OverrunFlags[t] - 1
  BY <1>1, <1>3, Lowered DEF IInv
<1>9. TypeOK'
  <2>1. stack' \in Seq([at : Places, tid : 0 .. (NUMST + 1)])
    BY <1>4 DEF Frames
  <2> QED BY <1>1, <1>3, <1>4, <1>8, <2>1 DEF IInv, TypeOK, buildVars, mainVars
<1>10. Nesting'
  <2>1. \A f \in 1 .. Len(stack) - 1 :
          stack[f].at = "subrate" /\ stack[f].tid \notin wrapped => Higher(frame, stack[f].tid)
    BY <1>3, <1>5 DEF Higher, Chosen
  <2> QED BY <1>1, <1>2, <1>3, <2>1, MoveNests
<1>11. FlagsCount'
  <2>1. /\ status = "none" => OverrunFlags'[0] = One(BaseOpen')
        /\ 0 \notin wrapped => OverrunFlags'[0] >= One(BaseOpen') + One(0 \in overran)
    BY <1>3, <1>6, <1>8, TaskNumbers DEF IInv, FlagsCount, One
  <2>2. ASSUME NEW u \in Slower, u \notin wrapped
        PROVE  OverrunFlags'[u] >= One(Running(u)') + One(u \in overran)
    <3>1. u \in Tasks /\ OverrunFlags[u] >= One(Running(u)) + One(u \in overran)
      BY <2>2, TaskNumbers DEF IInv, FlagsCount
    <3>2. CASE u = t
      BY <1>5, <1>8, <2>2, <3>1, <3>2 DEF One
    <3>3. CASE u # t
      BY <1>5, <1>8, <3>1, <3>3 DEF One
    <3> QED BY <3>2, <3>3
  <2>3. overran \subseteq {0} \union Slower /\ unserved \subseteq Slower
    BY DEF IInv, FlagsCount
  <2> QED BY <1>1, <1>3, <1>4, <2>1, <2>2, <2>3 DEF FlagsCount
<1>12. FlagsAreExact'
  <2>1. ASSUME ~ IsLate, NEW u \in Slower
        PROVE  OverrunFlags'[u] = One(Running(u)') /\ u \notin wrapped
    <3>1. u \in Tasks /\ OverrunFlags[u] = One(Running(u)) /\ u \notin wrapped
      BY <2>1, TaskNumbers DEF IInv, FlagsAreExact
    <3>2. CASE u = t
      BY <1>5, <1>8, <3>1, <3>2 DEF One
    <3>3. CASE u # t
      BY <1>5, <1>8, <3>1, <3>3 DEF One
    <3> QED BY <3>2, <3>3
  <2> QED BY <1>3, <1>4, <1>7, <2>1 DEF FlagsAreExact
<1>13. HitsAreExact'
  <2>1. ~ IsLate /\ ~ exposed =>
          \A f \in DOMAIN stack' :
            /\ f < Len(stack') => stack'[f].at \notin {"count", "taken"}
            /\ stack'[f].at = "count" => stack'[f].tid \in unserved'
    BY <1>2, <1>3, MoveCounts
  <2>2. ~ IsLate /\ ~ exposed =>
          \A u \in Slower : /\ eventFlags[u] = One(u \in unserved \/ Serving(u)')
                            /\ u \in unserved => ~ Serving(u)'
    BY <1>5 DEF IInv, HitsAreExact, One
  <2> QED BY <1>1, <1>3, <1>4, <1>7, <2>1, <2>2 DEF HitsAreExact
<1>14. ServedInTurn'
  <2>1. SUFFICES ASSUME ~ attached
                 PROVE  /\ ~ IsLate /\ ~ exposed /\ overran = {} /\ Len(stack) <= 1
                        /\ \A u \in Tasks : eventFlags[u] # 0 => u \in Slower /\ t <= u
    BY <1>1, <1>3, <1>4, <1>7 DEF ServedInTurn, buildVars, Chosen
  <2> QED BY <1>2, <2>1 DEF IInv, ServedInTurn
<1> QED BY <1>4, <1>9, <1>10, <1>11, <1>12, <1>13, <1>14 DEF IInv

\* The hit that was served is taken, and the call turns to the next task.
LEMMA TakeHitIInv == IInv /\ TakeHit => IInv'
<1> SUFFICES ASSUME IInv, TakeHit PROVE IInv'
  OBVIOUS
<1>1. PICK t \in Slower :
        /\ Is("taken", t) /\ Goto("loop", t + 1)
        /\ eventFlags' = [eventFlags EXCEPT ![t] = Down(@)]
        /\ UNCHANGED <<buildVars, OverrunFlags, taskCounter, status, mainVars, historyVars>>
  BY DEF TakeHit
<1> DEFINE frame == At("loop", t + 1)
<1>2. stack # <<>> /\ Top.at = "taken" /\ Top.tid = t /\ Top.at \in Chosen
  BY <1>1 DEF Is, At, Chosen
<1>3. /\ frame \in Frames /\ Placed(frame) /\ frame.at = "loop" /\ frame.tid = t + 1
      /\ t \in Tasks /\ t # 0 /\ t \in Int /\ stack' = Append(Front(stack), frame)
      /\ UNCHANGED <<overran, wrapped, unserved, exposed>>
  BY <1>1, TaskFrames DEF Goto, historyVars
<1> HIDE DEF frame
<1>4. /\ Len(stack) \in Nat /\ stack' \in Seq(Frames) /\ Len(stack') = Len(stack)
      /\ stack' # <<>> /\ Top' = frame /\ EndedIsOver' /\ Slower' = Slower
      /\ ~ attached => Len(stack) = 1
      /\ \A P, u : /\ Within(P, u) <=> (Top.at \in P /\ Top.tid = u) \/ Below(Len(stack), P, u)
                   /\ Within(P, u)' <=> (frame.at \in P /\ frame.tid = u) \/ Below(Len(stack), P, u)
  BY <1>1, <1>2, <1>3, Moves
<1>5. /\ \A u : Running(u)' <=> Running(u)
      /\ Serving(t)
      /\ ~ IsLate /\ ~ exposed => ~ Serving(t)'
      /\ \A u : u # t => (Serving(u)' <=> Serving(u))
      /\ \A f \in 1 .. Len(stack) - 1 :
           stack[f].at = "subrate" /\ stack[f].tid \notin wrapped =>
             stack[f].tid \in Int /\ t < stack[f].tid
  <2>1. /\ Top.at \notin {"subrate"} /\ Top.at \in {"subrate", "taken"}
        /\ frame.at \notin {"subrate"} /\ frame.at \notin {"subrate", "taken"}
    BY <1>2, <1>3
  <2>2. /\ \A u : Running(u) <=> Below(Len(stack), {"subrate"}, u)
        /\ \A u : Running(u)' <=> Below(Len(stack), {"subrate"}, u)
        /\ \A u : Serving(u) <=> u = t \/ Below(Len(stack), {"subrate", "taken"}, u)
        /\ \A u : Serving(u)' <=> Below(Len(stack), {"subrate", "taken"}, u)
    BY <1>2, <1>3, <1>4, <2>1 DEF Running, Serving
  <2> QED BY <1>2, <2>2, ChosenOnce
<1>6. ~ BaseOpen /\ ~ BaseOpen'
  BY <1>2, <1>3, <1>4 DEF BaseOpen
<1>7. IsLate' <=> IsLate
  BY <1>1, <1>2, <1>3, MoveIsNotLate
<1>8. /\ eventFlags' \in [Tasks -> 0 .. FlagSpan - 1]
      /\ \A u \in Tasks : u # t => eventFlags'[u] = eventFlags[u]
      /\ eventFlags[t] = 1 => eventFlags'[t] = 0
  <2>1. eventFlags \in [Tasks -> 0 .. FlagSpan - 1] /\ eventFlags[t] \in 0 .. FlagSpan - 1
    BY <1>3 DEF IInv, TypeOK
  <2>2. Down(eventFlags[t]) \in 0 .. FlagSpan - 1
        /\ (eventFlags[t] = 1 => Down(eventFlags[t]) = 0)
    <3>1. /\ Down(eventFlags[t]) \in 0 .. FlagSpan - 1
          /\ eventFlags[t] >= 1 => Down(eventFlags[t]) = eventFlags[t] - 1
      BY <2>1, UpAndDown
    <3> QED BY <3>1
  <2> QED BY <1>1, <1>3, <2>1, <2>2
<1>9. TypeOK'
  <2>1. stack' \in Seq([at : Places, tid : 0 .. (NUMST + 1)])
    BY <1>4 DEF Frames
  <2> QED BY <1>1, <1>3, <1>4, <1>8, <2>1 DEF IInv, TypeOK, buildVars, mainVars
<1>10. Nesting'
  <2>1. ASSUME NEW f \in 1 .. Len(stack) - 1, stack[f].at = "subrate", stack[f].tid \notin wrapped
        PROVE  Higher(frame, stack[f].tid)
    <3>1. stack[f].tid \in Int /\ t < stack[f].tid
      BY <1>5, <2>1
    <3> QED BY <1>3, <3>1 DEF Higher, Chosen
  <2> QED BY <1>1, <1>2, <1>3, <2>1, MoveNests
<1>11. FlagsCount'
  BY <1>1, <1>3, <1>4, <1>5, <1>6 DEF IInv, FlagsCount, One
<1>12. FlagsAreExact'
  BY <1>1, <1>3, <1>4, <1>5, <1>7 DEF IInv, FlagsAreExact, One
<1>13. ~ IsLate /\ ~ exposed => eventFlags'[t] = 0 /\ t \notin unserved
  BY <1>5, <1>8 DEF IInv, HitsAreExact, One
<1>14. HitsAreExact'
  <2>1. ~ IsLate /\ ~ exposed =>
          \A f \in DOMAIN stack' :
            /\ f < Len(stack') => stack'[f].at \notin {"count", "taken"}
            /\ stack'[f].at = "count" => stack'[f].tid \in unserved'
    BY <1>2, <1>3, MoveCounts
  <2>2. ASSUME ~ IsLate, ~ exposed, NEW u \in Slower
        PROVE  /\ eventFlags'[u] = One(u \in unserved \/ Serving(u)')
               /\ u \in unserved => ~ Serving(u)'
    <3>1. /\ eventFlags[u] = One(u \in unserved \/ Serving(u)) /\ u \in Tasks
          /\ u \in unserved => ~ Serving(u)
      BY <2>2, TaskNumbers DEF IInv, HitsAreExact
    <3>2. CASE u = t
      BY <1>5, <1>13, <2>2, <3>2 DEF One
    <3>3. CASE u # t
      BY <1>5, <1>8, <3>1, <3>3 DEF One
    <3> QED BY <3>2, <3>3
  <2> QED BY <1>3, <1>4, <1>7, <2>1, <2>2 DEF HitsAreExact
<1>15. ServedInTurn'
  <2>1. SUFFICES ASSUME ~ attached
                 PROVE  /\ ~ IsLate /\ ~ exposed /\ overran = {} /\ Len(stack) <= 1
                        /\ \A u \in Tasks : eventFlags'[u] # 0 => u \in Slower /\ t + 1 <= u
    BY <1>1, <1>3, <1>4, <1>7 DEF ServedInTurn, buildVars, Chosen
  <2>2. /\ ~ IsLate /\ ~ exposed /\ overran = {} /\ Len(stack) <= 1
        /\ \A u \in Tasks : eventFlags[u] # 0 => u \in Slower /\ t <= u
    BY <1>2, <2>1 DEF IInv, ServedInTurn
  <2>3. ASSUME NEW u \in Tasks, eventFlags'[u] # 0 PROVE u \in Slower /\ t + 1 <= u
    <3>1. u # t
      BY <1>13, <2>2, <2>3
    <3>2. u \in Slower /\ t <= u /\ u \in Int
      BY <1>8, <2>2, <2>3, <3>1, TaskNumbers
    <3> QED BY <1>3, <3>1, <3>2
  <2> QED BY <2>2, <2>3
<1> QED BY <1>4, <1>9, <1>10, <1>11, <1>12, <1>14, <1>15 DEF IInv

----------------------------------------------------------------------------
(* The theorems *)

\* Nothing runs before the first call.
LEMMA InitIInv == Init => IInv
<1> SUFFICES ASSUME Init PROVE IInv
  OBVIOUS
<1>1. stack = <<>> /\ Len(stack) = 0 /\ DOMAIN stack = {} /\ stack \in Seq(Frames)
  BY EmptySeq DEF Init
<1>2. \A t \in Tasks : OverrunFlags[t] = 0 /\ eventFlags[t] = 0
  BY DEF Init
<1>3. TypeOK
  <2>1. 0 \in 0 .. FlagSpan - 1 /\ Len(stack) <= MaxCalls
    BY <1>1, TaskNumbers
  <2>2. OverrunFlags \in [Tasks -> 0 .. FlagSpan - 1] /\ eventFlags \in [Tasks -> 0 .. FlagSpan - 1]
        /\ taskCounter \in [Subrates -> Nat]
    BY <2>1 DEF Init
  <2> QED BY <1>1, <2>1, <2>2 DEF Init, TypeOK, Frames
<1>4. /\ Nesting /\ ~ BaseOpen /\ \A t : ~ Running(t) /\ ~ Serving(t)
  BY <1>1 DEF Nesting, BaseOpen, Running, Serving, Within
<1>5. FlagsCount /\ FlagsAreExact
  BY <1>2, <1>4, TaskNumbers DEF Init, FlagsCount, FlagsAreExact, One
<1>6. HitsAreExact
  BY <1>1, <1>2, <1>4, TaskNumbers DEF Init, HitsAreExact, One
<1>7. ServedInTurn /\ EndedIsOver
  BY <1>1, <1>2 DEF Init, ServedInTurn, EndedIsOver, IsLate
<1> QED BY <1>3, <1>4, <1>5, <1>6, <1>7 DEF IInv

\* Every step keeps the invariant.
LEMMA NextIInv == IInv /\ [Next]_vars => IInv'
<1> SUFFICES ASSUME IInv, [Next]_vars PROVE IInv'
  OBVIOUS
<1>1. CASE rt_OneStep
  BY <1>1, RefusedIInv, EnterIInv DEF rt_OneStep
<1>2. CASE Continue
  BY <1>2, BeginBaseIInv, GiveUpIInv, CountMissedIInv, ReportMissedIInv, EndBaseIInv, ReturnIInv,
     MayRunIInv, TestHitIInv, BeginSubrateIInv, EndSubrateIInv, TakeHitIInv
  DEF Continue
<1>3. CASE UNCHANGED vars
  <2>1. UNCHANGED <<buildVars, stack, OverrunFlags, eventFlags, taskCounter, status, mainVars,
                    historyVars>>
    BY <1>3 DEF vars
  <2>2. TypeOK' /\ EndedIsOver'
    BY <2>1 DEF IInv, TypeOK, EndedIsOver, buildVars, mainVars, historyVars
  <2> QED BY <2>1, <2>2, MainKeeps DEF IInv
<1> QED BY <1>1, <1>2, <1>3, RequestStopIInv, TermModelIInv DEF Next

\* The inductive invariant holds of every behaviour of rt_main.c: the calls nest, the
\* flags count at least what runs and what was late as long as they do not wrap, and
\* they tell it exactly as long as no task is late and no hit was exposed.
THEOREM MainInvariant == Spec => []IInv
BY InitIInv, NextIInv, PTL DEF Spec

\* The flags stay within the values of their type, and the calls within MaxCalls.
THEOREM MainIsTyped == Spec => []TypeOK
<1>1. IInv => TypeOK
  BY DEF IInv
<1> QED BY <1>1, MainInvariant, PTL

\* For any rates and periods, any range of the flags, and interrupts between any two
\* lines, nested to any depth: rt_OneStep interrupts no call at the base rate, and
\* begins no task on top of one of the same or a higher priority, unless the flag of
\* the one below was counted up to 0.
THEOREM TasksStayNested == Spec => []TasksAreNested
<1>1. ASSUME IInv PROVE TasksAreNested
  <2>1. /\ Len(stack) \in Nat /\ DOMAIN stack = 1 .. Len(stack) /\ Nesting
    BY <1>1, StackElements DEF IInv
  <2>2. \A f, g \in DOMAIN stack : f < g => f < Len(stack)
    BY <2>1
  <2> QED BY <2>1, <2>2 DEF Nesting, Higher, Chosen, TasksAreNested
<1> QED BY <1>1, MainInvariant, PTL

\* Called from main's loop, rt_OneStep never finds an overrun; attached to an
\* interrupt, rt_TermModel names each task that was too slow, if that is the error
\* and the task's flag was not counted up to 0.
THEOREM OverrunsAreReported == Spec => []OverrunIsReported
<1>1. IInv => OverrunIsReported
  BY DEF IInv, ServedInTurn, EndedIsOver, OverrunIsReported
<1> QED BY <1>1, MainInvariant, PTL

\* For any rates, periods and interrupts: until a slower task is late or a call enters
\* between two lines that count a hit, each hit is served by one call, and none is lost.
THEOREM HitsStayServedOnce == Spec => []HitsAreServedOnce
<1>1. IInv => HitsAreServedOnce
  BY DEF IInv, HitsAreExact, FlagsCount, HitsAreServedOnce, One
<1> QED BY <1>1, MainInvariant, PTL

\* Until a slower task is late, the flags of the slower tasks tell exactly which are
\* running, wherever interrupts come: the test "if task i is running" asks what it means.
THEOREM FlagsStayExact == Spec => []FlagsAreExact
<1>1. IInv => FlagsAreExact
  BY DEF IInv
<1> QED BY <1>1, MainInvariant, PTL
=============================================================================
