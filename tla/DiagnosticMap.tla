--------------------------- MODULE DiagnosticMap ---------------------------
(***************************************************************************)
(* What a diagnostic store promises its users: a finite map from           *)
(* (diagnostic type, device) to the last report made for it.  The caller   *)
(* is answered with its device and report.  A report of a type that was    *)
(* never enabled changes nothing and is answered with Refusal, in the name *)
(* of the host or, before anything was enabled, of nobody.                 *)
(*                                                                         *)
(* DiagnosticStore, the array the code really keeps, implements this map.  *)
(***************************************************************************)
CONSTANTS Types, Devices, Host, NoDevice, Reports, EnabledTypes, InitialReport(_), Refusal

VARIABLES table, answer

vars == <<table, answer>>

Answer(d, r) == [device |-> d, report |-> r]

Init == table = << >> /\ answer = Answer(NoDevice, Refusal)

Enable ==
  /\ DOMAIN table = {}
  /\ table' = [k \in EnabledTypes \X {Host} |-> InitialReport(k[1])]
  /\ UNCHANGED answer

Accepts(t) == \E k \in DOMAIN table : k[1] = t

\* The report becomes the value of its key, every other key keeps its value.
Report(t, d, r) ==
  /\ Accepts(t)
  /\ table' = [k \in DOMAIN table \union {<<t, d>>} |->
                 IF k = <<t, d>> THEN r ELSE table[k]]
  /\ answer' = Answer(d, r)

Refuse(t) ==
  /\ ~ Accepts(t)
  /\ \E d \in {Host, NoDevice} : answer' = Answer(d, Refusal)
  /\ UNCHANGED table

Next ==
  \/ Enable
  \/ \E t \in Types, d \in Devices, r \in Reports : Report(t, d, r) \/ Refuse(t)

Spec == Init /\ [][Next]_vars
============================================================================
