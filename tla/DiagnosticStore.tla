-------------------------- MODULE DiagnosticStore --------------------------
(***************************************************************************)
(* The diagnostics vector that every process of the sensor arm             *)
(* (BaseNodeProcess) and the Gazebo plugin (RobotPlugin) keep: a sequence  *)
(* of entries, one per (Diagnostic_Type, DeviceName), searched linearly.   *)
(*                                                                         *)
(* enable_diagnostics fills it with one entry of the host per enabled      *)
(* type, in ascending type order.  update_diagnostic overwrites the entry  *)
(* of its key; a new device of a known type is inserted in front of the    *)
(* last entry of the type, at an index held in a uint8_t; a type that was  *)
(* not enabled is refused with an ERROR diagnostic that is returned and    *)
(* not stored.  A report is a level with a message; the description text   *)
(* is left out.                                                            *)
(***************************************************************************)
EXTENDS Integers, FiniteSets, SequencesExt

CONSTANTS
  Types,          \* diagnostic type codes callers may use
  EnabledTypes,   \* the types passed to enable_diagnostics
  SystemResource, \* the code of SYSTEM_RESOURCE, which starts at NOTICE
  Devices,        \* device names
  Host,           \* the name of the device the process runs on
  NoDevice,       \* DeviceName of a root_diagnostic that was never filled in
  Levels,         \* levels callers report at
  Messages,       \* messages they report
  IndexSpan       \* how many values insert_index can take: 256 for uint8_t

ASSUME TypesAssumption     ==
  Types \subseteq Int /\ EnabledTypes \subseteq Types /\ IsFiniteSet(EnabledTypes)
ASSUME DevicesAssumption   == Host \in Devices /\ NoDevice \notin Devices
ASSUME LevelsAssumption    == Levels \subseteq 1 .. 4
ASSUME IndexSpanAssumption == IndexSpan \in Nat \ {0}

\* Level codes, in the order of severity that eROS_Definitions.h gives them.
INFO   == 1
NOTICE == 2
WARN   == 3
ERROR  == 4

INITIALIZING    == "INITIALIZING"
UNKNOWN_MESSAGE == "UNKNOWN_MESSAGE"

Reports == [level : INFO .. ERROR,
            message : Messages \union {INITIALIZING, UNKNOWN_MESSAGE}]

Entries == [type : Types, device : Devices, report : Reports]

VARIABLES
  diagnostics,  \* the vector
  root,         \* root_diagnostic.DeviceName
  returned      \* what the last update_diagnostic handed back, device and report

vars == <<diagnostics, root, returned>>

----------------------------------------------------------------------------
\* What an entry says between enable_diagnostics and its first update.
InitialReport(t) ==
  [level |-> IF t = SystemResource THEN NOTICE ELSE WARN,
   message |-> INITIALIZING]

\* The report that answers an update of a type nobody enabled.
Refusal == [level |-> ERROR, message |-> UNKNOWN_MESSAGE]

Entry(t, d, r) == [type |-> t, device |-> d, report |-> r]

Init ==
  /\ diagnostics = << >>
  /\ root = NoDevice
  /\ returned = [device |-> NoDevice, report |-> Refusal]

\* enable_diagnostics, called once while the process or the plugin starts.
EnableDiagnostics ==
  /\ diagnostics = << >> /\ root = NoDevice
  /\ root' = Host
  /\ \E order \in [1 .. Cardinality(EnabledTypes) -> EnabledTypes] :
       /\ \A i, j \in DOMAIN order : i < j => order[i] < order[j]
       /\ diagnostics' = [i \in DOMAIN order |->
                            Entry(order[i], Host, InitialReport(order[i]))]
  /\ UNCHANGED returned

----------------------------------------------------------------------------
IsType(i, t) == diagnostics[i].type = t

\* Mutant of IsKey: the device is not compared.
IsKeyOfAnyDevice(i, t, d) == IsType(i, t)

IsKey(i, t, d)  == IsType(i, t) /\ diagnostics[i].device = d
HasType(t)      == \E i \in DOMAIN diagnostics : IsType(i, t)

\* Mutant of HasEntry: the scan stops at the first entry of the type.
HasFirstEntry(t, d) ==
  \E i \in DOMAIN diagnostics :
    IsKey(i, t, d) /\ \A j \in 1 .. i - 1 : ~ IsType(j, t)

HasEntry(t, d) == \E i \in DOMAIN diagnostics : IsKey(i, t, d)

\* Where the scan leaves i: it keeps going after a match, so the last one wins.
IsLastOfType(i, t) ==
  IsType(i, t) /\ \A j \in DOMAIN diagnostics : IsType(j, t) => j <= i

\* Mutants of InsertIndex: one too low, one too high.
InsertIndexBefore(i) == (i - 2) % IndexSpan
InsertIndexAfter(i)  == i % IndexSpan

\* insert_index is a uint8_t: the (0-based) position of the last entry, wrapped.
InsertIndex(i) == (i - 1) % IndexSpan

\* Every matching entry is rewritten in place.
UpdateEntry(t, d, r) ==
  /\ HasEntry(t, d)
  /\ diagnostics' = [i \in DOMAIN diagnostics |->
                       IF IsKey(i, t, d) THEN [diagnostics[i] EXCEPT !.report = r]
                                         ELSE diagnostics[i]]
  /\ returned' = [device |-> d, report |-> r]
  /\ UNCHANGED root

\* Mutant of InsertEntry: the last entry of the type is overwritten.
InsertEntryOverwrites(t, d, r) ==
  /\ HasType(t) /\ ~ HasEntry(t, d)
  /\ \E i \in DOMAIN diagnostics :
       /\ IsLastOfType(i, t)
       /\ diagnostics' = [diagnostics EXCEPT ![i] = Entry(t, d, r)]
  /\ returned' = [device |-> d, report |-> r]
  /\ UNCHANGED root

InsertEntry(t, d, r) ==
  /\ HasType(t) /\ ~ HasEntry(t, d)
  /\ \E i \in DOMAIN diagnostics :
       /\ IsLastOfType(i, t)
       /\ diagnostics' = InsertAt(diagnostics, InsertIndex(i) + 1, Entry(t, d, r))
  /\ returned' = [device |-> d, report |-> r]
  /\ UNCHANGED root

RefuseType(t) ==
  /\ ~ HasType(t)
  /\ returned' = [device |-> root, report |-> Refusal]
  /\ UNCHANGED <<diagnostics, root>>

UpdateDiagnostic(t, d, r) ==
  UpdateEntry(t, d, r) \/ InsertEntry(t, d, r) \/ RefuseType(t)

CallerReports == [level : Levels, message : Messages]

Next ==
  \/ EnableDiagnostics
  \/ \E t \in Types, d \in Devices, r \in CallerReports : UpdateDiagnostic(t, d, r)

Spec == Init /\ [][Next]_vars

----------------------------------------------------------------------------
(* Invariants *)

TypeOK ==
  /\ diagnostics \in Seq(Entries)
  /\ root \in {Host, NoDevice}
  /\ returned \in [device : Devices \union {NoDevice}, report : Reports]

\* A (type, device) pair has one entry at most: neither the scan nor an
\* insertion at a wrapped index ever makes a second one.
KeysUnique ==
  \A i, j \in DOMAIN diagnostics :
    diagnostics[i].type = diagnostics[j].type
      /\ diagnostics[i].device = diagnostics[j].device => i = j

\* The entries of a type are adjacent and the types ascend, the order in which
\* enable_diagnostics left them, until the vector outgrows the insertion index.
TypesAscend ==
  Len(diagnostics) <= IndexSpan + 1 =>
    \A i, j \in DOMAIN diagnostics :
      i < j => diagnostics[i].type <= diagnostics[j].type

\* The host's own entry closes its type's group: devices are inserted in front
\* of the last entry, so the entry of enable_diagnostics is never overtaken.
HostEntryIsLast ==
  Len(diagnostics) <= IndexSpan + 1 =>
    \A i, j \in DOMAIN diagnostics :
      /\ i < j
      /\ diagnostics[i].type = diagnostics[j].type
      => diagnostics[i].device # Host

\* Every type in the vector has an entry of the host, so a report of the host is
\* never an insertion and only foreign devices go in front of the last entry.
HostHasEachType ==
  \A i \in DOMAIN diagnostics : HasEntry(diagnostics[i].type, Host)

(* Action property *)

\* No update drops an entry or swaps two: whatever was in the vector is still
\* there and in the same relative order, even past the insertion index's span.
EntriesKeepTheirOrder ==
  [][\A i, j \in DOMAIN diagnostics : i <= j =>
       \E k, l \in DOMAIN diagnostics' :
         /\ k <= l
         /\ diagnostics'[k].type = diagnostics[i].type
         /\ diagnostics'[k].device = diagnostics[i].device
         /\ diagnostics'[l].type = diagnostics[j].type
         /\ diagnostics'[l].device = diagnostics[j].device]_vars

----------------------------------------------------------------------------
(* Refinement *)

Keys == {<<diagnostics[i].type, diagnostics[i].device>> : i \in DOMAIN diagnostics}

table ==
  [k \in Keys |->
     LET i == CHOOSE n \in DOMAIN diagnostics : IsKey(n, k[1], k[2])
     IN  diagnostics[i].report]

Map == INSTANCE DiagnosticMap
         WITH Reports <- CallerReports, answer <- returned

\* The vector implements a map from (type, device) to the last report: a report
\* is found again under its key and touches no other key.
ImplementsMap == Map!Spec
============================================================================
