----------------------- MODULE DiagnosticStore_proofs -----------------------
(***************************************************************************)
(* The diagnostics vector for any types, devices, reports and any width of *)
(* the insertion index: keys are unique, types ascend, the host's entry    *)
(* closes its group, and the vector implements a map.                      *)
(***************************************************************************)
EXTENDS DiagnosticStore, SequenceTheorems, FiniteSetTheorems, TLAPS

\* The elements of u followed by e followed by v.
LEMMA ConcatAround ==
  ASSUME NEW S, NEW u \in Seq(S), NEW v \in Seq(S), NEW e \in S
  PROVE  /\ (u \o <<e>>) \o v \in Seq(S)
         /\ Len((u \o <<e>>) \o v) = Len(u) + 1 + Len(v)
         /\ \A k \in 1 .. Len(u) + 1 + Len(v) :
              ((u \o <<e>>) \o v)[k] = IF k <= Len(u) THEN u[k]
                                      ELSE IF k = Len(u) + 1 THEN e
                                      ELSE v[k - (Len(u) + 1)]
<1>1. Len(u) \in Nat /\ Len(v) \in Nat
  BY LenProperties
<1>2. <<e>> \in Seq(S) /\ Len(<<e>>) = 1 /\ <<e>>[1] = e
  OBVIOUS
<1>3. /\ u \o <<e>> \in Seq(S) /\ Len(u \o <<e>>) = Len(u) + 1
      /\ \A k \in 1 .. Len(u) + 1 :
           (u \o <<e>>)[k] = IF k <= Len(u) THEN u[k] ELSE e
  BY <1>1, <1>2, ConcatProperties
<1>4. /\ (u \o <<e>>) \o v \in Seq(S)
      /\ Len((u \o <<e>>) \o v) = Len(u \o <<e>>) + Len(v)
      /\ \A k \in 1 .. Len(u \o <<e>>) + Len(v) :
           ((u \o <<e>>) \o v)[k] = IF k <= Len(u \o <<e>>) THEN (u \o <<e>>)[k]
                                   ELSE v[k - Len(u \o <<e>>)]
  BY <1>3, ConcatProperties
<1>5. QED
  BY <1>1, <1>3, <1>4

\* w is the sequence s of elements of S with e inserted at position p.
IsInsertion(S, s, w, p, e) ==
  /\ w \in Seq(S)
  /\ Len(w) = Len(s) + 1
  /\ \A k \in 1 .. Len(s) + 1 :
       w[k] = IF k < p THEN s[k] ELSE IF k = p THEN e ELSE s[k - 1]

\* Where the elements of a sequence are after an insertion (vector::insert).
LEMMA InsertAtElements ==
  ASSUME NEW S, NEW s \in Seq(S), NEW p \in 1 .. Len(s) + 1, NEW e \in S
  PROVE  IsInsertion(S, s, InsertAt(s, p, e), p, e)
<1>1. Len(s) \in Nat /\ \A k \in 1 .. Len(s) : s[k] \in S
  BY LenProperties, ElementOfSeq
<1>2. /\ SubSeq(s, 1, p - 1) \in Seq(S) /\ Len(SubSeq(s, 1, p - 1)) = p - 1
      /\ \A k \in 1 .. p - 1 : SubSeq(s, 1, p - 1)[k] = s[k]
  <2>1. \A k \in 1 .. p - 1 : s[k] \in S
    BY <1>1
  <2>2. QED
    BY <1>1, <2>1, SubSeqProperties, Z3
<1>3. /\ SubSeq(s, p, Len(s)) \in Seq(S) /\ Len(SubSeq(s, p, Len(s))) = Len(s) - p + 1
      /\ \A k \in 1 .. Len(s) - p + 1 : SubSeq(s, p, Len(s))[k] = s[p + k - 1]
  <2>1. \A k \in p .. Len(s) : s[k] \in S
    BY <1>1
  <2>2. QED
    BY <1>1, <2>1, SubSeqProperties, Z3
<1>4. ASSUME NEW u \in Seq(S), NEW v \in Seq(S), InsertAt(s, p, e) = (u \o <<e>>) \o v,
             Len(u) = p - 1, \A k \in 1 .. p - 1 : u[k] = s[k],
             Len(v) = Len(s) - p + 1, \A k \in 1 .. Len(s) - p + 1 : v[k] = s[p + k - 1]
      PROVE  /\ InsertAt(s, p, e) \in Seq(S)
             /\ Len(InsertAt(s, p, e)) = Len(s) + 1
             /\ \A k \in 1 .. Len(s) + 1 :
                  InsertAt(s, p, e)[k] = IF k < p THEN s[k]
                                         ELSE IF k = p THEN e ELSE s[k - 1]
  <2>1. Len(u) + 1 + Len(v) = Len(s) + 1
    BY <1>1, <1>4
  <2>2. ASSUME NEW k \in 1 .. Len(s) + 1
        PROVE  InsertAt(s, p, e)[k] = IF k < p THEN s[k]
                                      ELSE IF k = p THEN e ELSE s[k - 1]
    <3>1. InsertAt(s, p, e)[k] = IF k <= Len(u) THEN u[k]
                                 ELSE IF k = Len(u) + 1 THEN e
                                 ELSE v[k - (Len(u) + 1)]
      <4>1. k \in 1 .. Len(u) + 1 + Len(v)
        BY <1>1, <1>4
      <4>2. ((u \o <<e>>) \o v)[k] = IF k <= Len(u) THEN u[k]
                                      ELSE IF k = Len(u) + 1 THEN e
                                      ELSE v[k - (Len(u) + 1)]
        BY <4>1, ConcatAround
      <4>3. QED
        BY <1>4, <4>2
    <3>2. k > p => v[k - p] = s[p + (k - p) - 1] /\ p + (k - p) - 1 = k - 1
      BY <1>1, <1>4
    <3>3. QED
      BY <1>1, <1>4, <3>1, <3>2
  <2>3. QED
    BY <1>4, <2>1, <2>2, ConcatAround
<1>5. InsertAt(s, p, e) = (SubSeq(s, 1, p - 1) \o <<e>>) \o SubSeq(s, p, Len(s))
  BY DEF InsertAt
<1>6. QED
  BY <1>2, <1>3, <1>4, <1>5 DEF IsInsertion

----------------------------------------------------------------------------
(* The inductive invariant.  HostHasEachType is what keeps the host's entry *)
(* last: without it a report of the host itself could be inserted.          *)

IInv == TypeOK /\ KeysUnique /\ TypesAscend /\ HostEntryIsLast /\ HostHasEachType

\* What TypeOK says element by element.
LEMMA VectorElements ==
  ASSUME TypeOK
  PROVE  /\ Len(diagnostics) \in Nat
         /\ DOMAIN diagnostics = 1 .. Len(diagnostics)
         /\ \A i \in DOMAIN diagnostics :
              /\ diagnostics[i] \in Entries
              /\ diagnostics[i].type \in Int
<1>1. diagnostics \in Seq(Entries)
  BY DEF TypeOK
<1>2. /\ Len(diagnostics) \in Nat
      /\ DOMAIN diagnostics = 1 .. Len(diagnostics)
  BY <1>1, LenProperties
<1>3. ASSUME NEW i \in DOMAIN diagnostics
      PROVE  diagnostics[i] \in Entries
  BY <1>1, <1>2, ElementOfSeq
<1>4. ASSUME NEW x \in Entries
      PROVE  x.type \in Int
  BY TypesAssumption DEF Entries
<1>5. QED
  BY <1>2, <1>3, <1>4

\* The initial reports, the callers' and the refusal are reports.
LEMMA ReportsTyped ==
  /\ CallerReports \subseteq Reports
  /\ Refusal \in Reports
  /\ \A t \in Types : InitialReport(t) \in Reports
<1>1. ASSUME NEW r \in CallerReports
      PROVE  r \in Reports
  BY LevelsAssumption DEF CallerReports, Reports, INFO, ERROR
<1>2. Refusal \in Reports
  BY DEF Refusal, Reports, INFO, ERROR
<1>3. ASSUME NEW t \in Types
      PROVE  InitialReport(t) \in Reports
  BY DEF InitialReport, Reports, INFO, NOTICE, WARN, ERROR
<1>4. QED
  BY <1>1, <1>2, <1>3

\* enable_diagnostics establishes the invariant from the empty vector.
LEMMA EnableKeepsIInv == IInv /\ EnableDiagnostics => IInv'
<1> SUFFICES ASSUME IInv, EnableDiagnostics PROVE IInv'
  OBVIOUS
<1> DEFINE n == Cardinality(EnabledTypes)
<1>1. n \in Nat
  BY TypesAssumption, FS_CardinalityType
<1>2. PICK order \in [1 .. n -> EnabledTypes] :
        /\ \A i, j \in DOMAIN order : i < j => order[i] < order[j]
        /\ diagnostics' = [i \in DOMAIN order |->
                             Entry(order[i], Host, InitialReport(order[i]))]
  BY DEF EnableDiagnostics
<1> HIDE DEF n
<1>3. diagnostics' = [i \in 1 .. n |-> Entry(order[i], Host, InitialReport(order[i]))]
  BY <1>2
<1>4. /\ DOMAIN diagnostics' = 1 .. n
      /\ \A i \in 1 .. n : /\ diagnostics'[i] \in Entries
                            /\ diagnostics'[i].type = order[i]
                            /\ diagnostics'[i].device = Host
  <2>1. ASSUME NEW i \in 1 .. n
        PROVE  /\ order[i] \in Types
               /\ diagnostics'[i] = Entry(order[i], Host, InitialReport(order[i]))
    BY <1>2, <1>3, TypesAssumption
  <2>2. ASSUME NEW t \in Types
        PROVE  /\ Entry(t, Host, InitialReport(t)) \in Entries
               /\ Entry(t, Host, InitialReport(t)).type = t
               /\ Entry(t, Host, InitialReport(t)).device = Host
    BY ReportsTyped, DevicesAssumption DEF Entries, Entry
  <2>3. QED
    BY <1>3, <2>1, <2>2
<1>5. TypeOK'
  <2>1. diagnostics' \in Seq(Entries)
    BY <1>1, <1>3, <1>4, IsASeq
  <2>2. QED
    BY <2>1 DEF IInv, TypeOK, EnableDiagnostics
<1>6. \A i, j \in 1 .. n : i < j => order[i] < order[j] /\ order[i] \in Int /\ order[j] \in Int
  BY <1>2, TypesAssumption
<1>7. KeysUnique'
  BY <1>1, <1>4, <1>6 DEF KeysUnique
<1>8. TypesAscend'
  BY <1>1, <1>4, <1>6 DEF TypesAscend
<1>9. HostEntryIsLast'
  BY <1>1, <1>4, <1>6 DEF HostEntryIsLast
<1>10. HostHasEachType'
  BY <1>4 DEF HostHasEachType, HasEntry, IsKey, IsType
<1>11. QED
  BY <1>5, <1>7, <1>8, <1>9, <1>10 DEF IInv

\* An update in place moves no key.
LEMMA UpdateKeepsIInv ==
  ASSUME IInv, NEW t \in Types, NEW d \in Devices, NEW r \in CallerReports,
         UpdateEntry(t, d, r)
  PROVE  IInv'
<1>1. TypeOK /\ r \in Reports
  BY ReportsTyped DEF IInv
<1>2. diagnostics' = [i \in 1 .. Len(diagnostics) |->
                        IF IsKey(i, t, d) THEN [diagnostics[i] EXCEPT !.report = r]
                                          ELSE diagnostics[i]]
  BY <1>1, VectorElements DEF UpdateEntry
<1>3. /\ DOMAIN diagnostics' = DOMAIN diagnostics
      /\ \A i \in DOMAIN diagnostics : /\ diagnostics'[i] \in Entries
                                       /\ diagnostics'[i].type = diagnostics[i].type
                                       /\ diagnostics'[i].device = diagnostics[i].device
  <2>1. ASSUME NEW x \in Entries
        PROVE  /\ [x EXCEPT !.report = r] \in Entries
               /\ [x EXCEPT !.report = r].type = x.type
               /\ [x EXCEPT !.report = r].device = x.device
    BY <1>1 DEF Entries
  <2>2. QED
    BY <1>1, <1>2, <2>1, VectorElements
<1>4. diagnostics' \in Seq(Entries) /\ Len(diagnostics') = Len(diagnostics)
  <2>1. diagnostics' \in Seq(Entries)
    BY <1>1, <1>2, <1>3, VectorElements, IsASeq
  <2>2. QED
    BY <1>1, <1>3, <2>1, VectorElements, LenProperties
<1>5. TypeOK'
  BY <1>1, <1>4 DEF TypeOK, UpdateEntry
<1>6. KeysUnique'
  BY <1>3 DEF IInv, KeysUnique
<1>7. TypesAscend'
  BY <1>3, <1>4 DEF IInv, TypesAscend
<1>8. HostEntryIsLast'
  BY <1>3, <1>4 DEF IInv, HostEntryIsLast
<1>9. HostHasEachType'
  BY <1>3 DEF IInv, HostHasEachType, HasEntry, IsKey, IsType
<1>10. QED
  BY <1>5, <1>6, <1>7, <1>8, <1>9 DEF IInv

\* The wrapped insertion index never exceeds the position it is taken from, and
\* is that position as long as it fits.
LEMMA InsertIndexBounds ==
  ASSUME NEW i \in Nat \ {0}
  PROVE  /\ InsertIndex(i) + 1 \in 1 .. i
         /\ i <= IndexSpan => InsertIndex(i) + 1 = i
<1>1. ASSUME NEW a \in Nat, NEW b \in Nat \ {0}
      PROVE  a % b \in 0 .. a /\ (a < b => a % b = a)
  OBVIOUS
<1>2. QED
  BY <1>1, IndexSpanAssumption DEF InsertIndex

\* Where everything is after an insertion: i is the last entry of the type, p
\* the place of the new one.
LEMMA InsertionElements ==
  ASSUME TypeOK, NEW t \in Types, NEW d \in Devices, NEW r \in CallerReports,
         InsertEntry(t, d, r)
  PROVE  \E i \in DOMAIN diagnostics, p \in 1 .. Len(diagnostics) :
           /\ IsLastOfType(i, t)
           /\ p <= i /\ (i <= IndexSpan => p = i)
           /\ diagnostics' \in Seq(Entries)
           /\ Len(diagnostics') = Len(diagnostics) + 1
           /\ DOMAIN diagnostics' = 1 .. Len(diagnostics) + 1
           /\ \A k \in 1 .. Len(diagnostics) + 1 :
                diagnostics'[k] = IF k < p THEN diagnostics[k]
                                  ELSE IF k = p THEN Entry(t, d, r)
                                  ELSE diagnostics[k - 1]
<1>1. PICK i \in DOMAIN diagnostics :
        /\ IsLastOfType(i, t)
        /\ diagnostics' = InsertAt(diagnostics, InsertIndex(i) + 1, Entry(t, d, r))
  BY DEF InsertEntry
<1>2. Len(diagnostics) \in Nat /\ i \in 1 .. Len(diagnostics) /\ diagnostics \in Seq(Entries)
  BY VectorElements DEF TypeOK
<1>3. /\ InsertIndex(i) + 1 \in 1 .. i
      /\ i <= IndexSpan => InsertIndex(i) + 1 = i
  BY <1>2, InsertIndexBounds
<1>4. Entry(t, d, r) \in Entries
  BY ReportsTyped DEF Entry, Entries
<1>5. ASSUME NEW p \in 1 .. i, p = InsertIndex(i) + 1
      PROVE  /\ p \in 1 .. Len(diagnostics) + 1
             /\ diagnostics' \in Seq(Entries)
             /\ Len(diagnostics') = Len(diagnostics) + 1
             /\ DOMAIN diagnostics' = 1 .. Len(diagnostics) + 1
             /\ \A k \in 1 .. Len(diagnostics) + 1 :
                  diagnostics'[k] = IF k < p THEN diagnostics[k]
                                    ELSE IF k = p THEN Entry(t, d, r)
                                    ELSE diagnostics[k - 1]
  <2>1. p \in 1 .. Len(diagnostics) + 1
    BY <1>2
  <2>2. /\ diagnostics' \in Seq(Entries)
        /\ Len(diagnostics') = Len(diagnostics) + 1
        /\ \A k \in 1 .. Len(diagnostics) + 1 :
             diagnostics'[k] = IF k < p THEN diagnostics[k]
                               ELSE IF k = p THEN Entry(t, d, r)
                               ELSE diagnostics[k - 1]
    <3>1. IsInsertion(Entries, diagnostics, InsertAt(diagnostics, p, Entry(t, d, r)),
                      p, Entry(t, d, r))
      BY <1>2, <1>4, <2>1, InsertAtElements
    <3>2. IsInsertion(Entries, diagnostics, diagnostics', p, Entry(t, d, r))
      BY <1>1, <1>5, <3>1
    <3>3. QED
      BY <3>2 DEF IsInsertion
  <2>3. QED
    BY <2>1, <2>2, LenProperties
<1>6. QED
  BY <1>1, <1>2, <1>3, <1>5

\* An insertion keeps keys unique wherever the index points, and keeps the groups
\* in order while the index does not wrap.
LEMMA InsertKeepsIInv ==
  ASSUME IInv, NEW t \in Types, NEW d \in Devices, NEW r \in CallerReports,
         InsertEntry(t, d, r)
  PROVE  IInv'
<1> DEFINE n == Len(diagnostics)
<1>1. PICK i \in DOMAIN diagnostics, p \in 1 .. n :
        /\ IsLastOfType(i, t)
        /\ p <= i /\ (i <= IndexSpan => p = i)
        /\ diagnostics' \in Seq(Entries)
        /\ Len(diagnostics') = n + 1
        /\ DOMAIN diagnostics' = 1 .. n + 1
        /\ \A k \in 1 .. n + 1 :
             diagnostics'[k] = IF k < p THEN diagnostics[k]
                               ELSE IF k = p THEN Entry(t, d, r)
                               ELSE diagnostics[k - 1]
  BY InsertionElements DEF IInv
<1>2. /\ n \in Nat /\ DOMAIN diagnostics = 1 .. n /\ i \in 1 .. n
      /\ \A k \in 1 .. n : diagnostics[k].type \in Int
  BY VectorElements DEF IInv
<1>3. IndexSpan \in Nat /\ t \in Int
  BY IndexSpanAssumption, TypesAssumption
<1>4. /\ Entry(t, d, r).type = t /\ Entry(t, d, r).device = d
  BY DEF Entry
<1>5. /\ diagnostics[i].type = t
      /\ \A k \in 1 .. n : diagnostics[k].type = t => k <= i
      /\ \A k \in 1 .. n : ~ (diagnostics[k].type = t /\ diagnostics[k].device = d)
  BY <1>1, <1>2 DEF IsLastOfType, IsType, InsertEntry, HasEntry, IsKey
<1>6. d # Host
  <2>1. HasEntry(diagnostics[i].type, Host)
    BY <1>1 DEF IInv, HostHasEachType
  <2>2. QED
    BY <1>2, <1>5, <2>1 DEF HasEntry, IsKey, IsType
\* Where the entry at k comes from.
<1> DEFINE old(k) == IF k < p THEN k ELSE k - 1
<1>7. ASSUME NEW k \in 1 .. n + 1, k # p
      PROVE  old(k) \in 1 .. n /\ diagnostics'[k] = diagnostics[old(k)]
  <2>1. CASE k < p
    BY <1>1, <1>2, <1>7, <2>1
  <2>2. CASE k > p
    <3>1. ~ (k < p) /\ k - 1 \in 1 .. n
      BY <1>1, <1>2, <2>2
    <3>2. diagnostics'[k] = diagnostics[k - 1]
      BY <1>1, <1>7, <3>1
    <3>3. QED
      BY <3>1, <3>2
  <2>3. QED
    BY <1>1, <1>2, <1>7, <2>1, <2>2
<1>8. diagnostics'[p].type = t /\ diagnostics'[p].device = d /\ p \in 1 .. n + 1
  BY <1>1, <1>2, <1>4
<1>9. TypeOK'
  BY <1>1, ReportsTyped, DevicesAssumption DEF IInv, TypeOK, InsertEntry
<1>10. KeysUnique'
  <2>1. ASSUME NEW j \in 1 .. n + 1, NEW k \in 1 .. n + 1,
               diagnostics'[j].type = diagnostics'[k].type,
               diagnostics'[j].device = diagnostics'[k].device
        PROVE  j = k
    <3>1. CASE j = p \/ k = p
      BY <1>5, <1>7, <1>8, <2>1, <3>1
    <3>2. CASE j # p /\ k # p
      <4>1. old(j) = old(k)
        BY <1>2, <1>7, <2>1, <3>2 DEF IInv, KeysUnique
      <4>2. QED
        BY <1>2, <3>2, <4>1
    <3>3. QED
      BY <3>1, <3>2
  <2>2. QED
    BY <1>1, <2>1 DEF KeysUnique
<1>11. ASSUME n + 1 <= IndexSpan + 1
       PROVE  /\ p = i
              /\ \A j, k \in 1 .. n : j < k => diagnostics[j].type <= diagnostics[k].type
              /\ \A j, k \in 1 .. n :
                   j < k /\ diagnostics[j].type = diagnostics[k].type
                     => diagnostics[j].device # Host
  <2>1. n <= IndexSpan + 1 /\ i <= IndexSpan
    BY <1>2, <1>3, <1>11
  <2>2. QED
    BY <1>1, <1>2, <2>1 DEF IInv, TypesAscend, HostEntryIsLast
<1>12. TypesAscend'
  <2>1. ASSUME n + 1 <= IndexSpan + 1, NEW j \in 1 .. n + 1, NEW k \in 1 .. n + 1, j < k
        PROVE  diagnostics'[j].type <= diagnostics'[k].type
    <3>1. CASE j = p
      BY <1>2, <1>5, <1>7, <1>8, <1>11, <2>1, <3>1
    <3>2. CASE k = p
      BY <1>2, <1>5, <1>7, <1>8, <1>11, <2>1, <3>2
    <3>3. CASE j # p /\ k # p
      <4>1. old(j) < old(k)
        BY <1>2, <2>1, <3>3
      <4>2. QED
        BY <1>7, <1>11, <2>1, <3>3, <4>1
    <3>4. QED
      BY <3>1, <3>2, <3>3
  <2>2. QED
    BY <1>1, <2>1 DEF TypesAscend
<1>13. HostEntryIsLast'
  <2>1. ASSUME n + 1 <= IndexSpan + 1, NEW j \in 1 .. n + 1, NEW k \in 1 .. n + 1, j < k,
               diagnostics'[j].type = diagnostics'[k].type
        PROVE  diagnostics'[j].device # Host
    <3>1. CASE j = p
      BY <1>6, <1>8, <3>1
    <3>2. CASE k = p
      BY <1>2, <1>5, <1>7, <1>8, <1>11, <2>1, <3>2
    <3>3. CASE j # p /\ k # p
      <4>1. old(j) < old(k)
        BY <1>2, <2>1, <3>3
      <4>2. QED
        BY <1>7, <1>11, <2>1, <3>3, <4>1
    <3>4. QED
      BY <3>1, <3>2, <3>3
  <2>2. QED
    BY <1>1, <2>1 DEF HostEntryIsLast
<1>14. HostHasEachType'
  <2>1. ASSUME NEW k \in 1 .. n
        PROVE  \E j \in 1 .. n + 1 : diagnostics'[j] = diagnostics[k]
    <3>1. CASE k < p
      BY <1>1, <1>2, <3>1
    <3>2. CASE k >= p
      <4>1. k + 1 \in 1 .. n + 1 /\ diagnostics'[k + 1] = diagnostics[k]
        BY <1>1, <1>2, <3>2
      <4>2. QED
        BY <4>1
    <3>3. QED
      BY <1>2, <3>1, <3>2
  <2>2. ASSUME NEW j \in 1 .. n + 1
        PROVE  \E k \in 1 .. n : diagnostics[k].type = diagnostics'[j].type
    BY <1>2, <1>5, <1>7, <1>8
  <2>3. \A k \in 1 .. n : \E l \in 1 .. n :
          diagnostics[l].type = diagnostics[k].type /\ diagnostics[l].device = Host
    BY <1>2 DEF IInv, HostHasEachType, HasEntry, IsKey, IsType
  <2>4. ASSUME NEW j \in 1 .. n + 1
        PROVE  \E m \in 1 .. n + 1 :
                 diagnostics'[m].type = diagnostics'[j].type /\ diagnostics'[m].device = Host
    <3>1. PICK k \in 1 .. n : diagnostics[k].type = diagnostics'[j].type
      BY <2>2
    <3>2. PICK l \in 1 .. n :
            diagnostics[l].type = diagnostics[k].type /\ diagnostics[l].device = Host
      BY <2>3
    <3>3. PICK m \in 1 .. n + 1 : diagnostics'[m] = diagnostics[l]
      BY <2>1
    <3>4. QED
      BY <3>1, <3>2, <3>3
  <2>5. QED
    BY <1>1, <2>4 DEF HostHasEachType, HasEntry, IsKey, IsType
<1>15. QED
  BY <1>9, <1>10, <1>12, <1>13, <1>14 DEF IInv

\* A refused report, or no report, leaves the invariant as it is.
LEMMA UnchangedVectorKeepsIInv ==
  ASSUME IInv, UNCHANGED diagnostics, TypeOK'
  PROVE  IInv'
BY DEF IInv, KeysUnique, TypesAscend, HostEntryIsLast, HostHasEachType, HasEntry, IsKey, IsType

----------------------------------------------------------------------------
(* The theorems *)

\* The empty vector satisfies the invariant.
LEMMA InitIInv == Init => IInv
<1> SUFFICES ASSUME Init PROVE IInv
  OBVIOUS
<1>1. diagnostics = << >> /\ DOMAIN diagnostics = {} /\ diagnostics \in Seq(Entries)
  BY DEF Init
<1>2. TypeOK
  BY <1>1, ReportsTyped DEF Init, TypeOK
<1>3. QED
  BY <1>1, <1>2 DEF IInv, KeysUnique, TypesAscend, HostEntryIsLast, HostHasEachType

\* Every call of enable_diagnostics and update_diagnostic preserves it.
LEMMA NextKeepsIInv == IInv /\ [Next]_vars => IInv'
<1> SUFFICES ASSUME IInv, [Next]_vars PROVE IInv'
  OBVIOUS
<1>1. CASE EnableDiagnostics
  BY <1>1, EnableKeepsIInv
<1>2. ASSUME NEW t \in Types, NEW d \in Devices, NEW r \in CallerReports,
             UpdateDiagnostic(t, d, r)
      PROVE  IInv'
  <2>1. CASE UpdateEntry(t, d, r)
    BY <2>1, UpdateKeepsIInv
  <2>2. CASE InsertEntry(t, d, r)
    BY <2>2, InsertKeepsIInv
  <2>3. CASE RefuseType(t)
    BY <2>3, UnchangedVectorKeepsIInv, ReportsTyped, DevicesAssumption
    DEF RefuseType, IInv, TypeOK
  <2>4. QED
    BY <1>2, <2>1, <2>2, <2>3 DEF UpdateDiagnostic
<1>3. CASE UNCHANGED vars
  BY <1>3, UnchangedVectorKeepsIInv DEF vars, IInv, TypeOK
<1>4. QED
  BY <1>1, <1>2, <1>3 DEF Next

\* The whole inductive invariant holds in every behaviour of the store.
THEOREM StoreInvariant == Spec => []IInv
  BY InitIInv, NextKeepsIInv, PTL DEF Spec

\* Each diagnostic vector is well typed whatever is reported (BaseNodeProcess.h).
THEOREM StoreIsTyped == Spec => []TypeOK
<1>1. IInv => TypeOK
  BY DEF IInv
<1>2. QED
  BY <1>1, StoreInvariant, PTL

\* update_diagnostic never makes a second entry for a (type, device) pair, for
\* any number of devices and any width of insert_index.
THEOREM StoreKeysUnique == Spec => []KeysUnique
<1>1. IInv => KeysUnique
  BY DEF IInv
<1>2. QED
  BY <1>1, StoreInvariant, PTL

\* Until the vector outgrows the insertion index the groups of the types stay in
\* the ascending order of enable_diagnostics.
THEOREM StoreOrder == Spec => []TypesAscend
<1>1. IInv => TypesAscend
  BY DEF IInv
<1>2. QED
  BY <1>1, StoreInvariant, PTL

\* Until then each group ends with the entry of the host that enable_diagnostics
\* made: no device that update_diagnostic inserts gets behind it.
THEOREM StoreHostEntryIsLast == Spec => []HostEntryIsLast
<1>1. IInv => HostEntryIsLast
  BY DEF IInv
<1>2. QED
  BY <1>1, StoreInvariant, PTL

\* A report that update_diagnostic makes for the host is never an insertion: every
\* type of the vector has an entry of the host.
THEOREM StoreHostHasEachType == Spec => []HostHasEachType
<1>1. IInv => HostHasEachType
  BY DEF IInv
<1>2. QED
  BY <1>1, StoreInvariant, PTL

----------------------------------------------------------------------------
(* Where the entries go *)

\* Two entries i <= j are still there after a step, and in that order.
KeepsInOrder(i, j) ==
  \E k, l \in DOMAIN diagnostics' :
    /\ k <= l
    /\ diagnostics'[k].type = diagnostics[i].type
    /\ diagnostics'[k].device = diagnostics[i].device
    /\ diagnostics'[l].type = diagnostics[j].type
    /\ diagnostics'[l].device = diagnostics[j].device

\* An update in place leaves every entry where it is.
LEMMA UpdateKeepsInOrder ==
  ASSUME TypeOK, NEW t \in Types, NEW d \in Devices, NEW r \in CallerReports,
         UpdateEntry(t, d, r),
         NEW i \in DOMAIN diagnostics, NEW j \in DOMAIN diagnostics, i <= j
  PROVE  KeepsInOrder(i, j)
<1>1. DOMAIN diagnostics' = DOMAIN diagnostics
  BY DEF UpdateEntry
<1>2. ASSUME NEW k \in DOMAIN diagnostics
      PROVE  /\ diagnostics'[k].type = diagnostics[k].type
             /\ diagnostics'[k].device = diagnostics[k].device
  <2>1. ASSUME NEW x \in Entries
        PROVE  [x EXCEPT !.report = r].type = x.type /\ [x EXCEPT !.report = r].device = x.device
    BY DEF Entries
  <2>2. QED
    BY <2>1, VectorElements DEF UpdateEntry
<1>3. QED
  BY <1>1, <1>2 DEF KeepsInOrder

\* An insertion moves the entries from its place on by one, wherever that place is.
LEMMA InsertKeepsInOrder ==
  ASSUME TypeOK, NEW t \in Types, NEW d \in Devices, NEW r \in CallerReports,
         InsertEntry(t, d, r),
         NEW i \in DOMAIN diagnostics, NEW j \in DOMAIN diagnostics, i <= j
  PROVE  KeepsInOrder(i, j)
<1>1. PICK p \in 1 .. Len(diagnostics) :
        /\ DOMAIN diagnostics' = 1 .. Len(diagnostics) + 1
        /\ \A k \in 1 .. Len(diagnostics) + 1 :
             diagnostics'[k] = IF k < p THEN diagnostics[k]
                               ELSE IF k = p THEN Entry(t, d, r)
                               ELSE diagnostics[k - 1]
  BY InsertionElements
<1> DEFINE Place(k) == IF k < p THEN k ELSE k + 1
<1>2. Len(diagnostics) \in Nat /\ i \in 1 .. Len(diagnostics) /\ j \in 1 .. Len(diagnostics)
  BY VectorElements
<1>3. /\ Place(i) \in DOMAIN diagnostics' /\ Place(j) \in DOMAIN diagnostics'
      /\ Place(i) <= Place(j)
  BY <1>1, <1>2
<1>4. diagnostics'[Place(i)] = diagnostics[i] /\ diagnostics'[Place(j)] = diagnostics[j]
  BY <1>1, <1>2
<1> HIDE DEF Place
<1>5. QED
  BY <1>3, <1>4 DEF KeepsInOrder

\* update_diagnostic drops and swaps no entry, for any vector and any width of
\* insert_index.
THEOREM StoreKeepsOrder == Spec => EntriesKeepTheirOrder
<1>1. ASSUME TypeOK, [Next]_vars
      PROVE  [\A i, j \in DOMAIN diagnostics : i <= j => KeepsInOrder(i, j)]_vars
  <2>1. CASE EnableDiagnostics
    BY <2>1 DEF EnableDiagnostics
  <2>2. ASSUME NEW t \in Types, NEW d \in Devices, NEW r \in CallerReports,
               UpdateDiagnostic(t, d, r)
        PROVE  \A i, j \in DOMAIN diagnostics : i <= j => KeepsInOrder(i, j)
    <3>1. SUFFICES ASSUME NEW i \in DOMAIN diagnostics, NEW j \in DOMAIN diagnostics, i <= j
                   PROVE  KeepsInOrder(i, j)
      OBVIOUS
    <3>2. CASE RefuseType(t)
      BY <3>1, <3>2 DEF RefuseType, KeepsInOrder
    <3>3. CASE UpdateEntry(t, d, r)
      BY <1>1, <3>1, <3>3, UpdateKeepsInOrder
    <3>4. CASE InsertEntry(t, d, r)
      BY <1>1, <3>1, <3>4, InsertKeepsInOrder
    <3>5. QED
      BY <2>2, <3>2, <3>3, <3>4 DEF UpdateDiagnostic
  <2>3. QED
    BY <1>1, <2>1, <2>2 DEF Next
<1>2. TypeOK /\ [Next]_vars =>
        [\A i, j \in DOMAIN diagnostics : i <= j =>
           \E k, l \in DOMAIN diagnostics' :
             /\ k <= l
             /\ diagnostics'[k].type = diagnostics[i].type
             /\ diagnostics'[k].device = diagnostics[i].device
             /\ diagnostics'[l].type = diagnostics[j].type
             /\ diagnostics'[l].device = diagnostics[j].device]_vars
  BY <1>1 DEF KeepsInOrder
<1>3. QED
  BY <1>2, StoreIsTyped, PTL DEF Spec, EntriesKeepTheirOrder
----------------------------------------------------------------------------
(* The refinement of DiagnosticMap: what table is, for any vector s *)

KeyOf(e) == <<e.type, e.device>>

KeysOf(s) == {KeyOf(s[i]) : i \in DOMAIN s}

UniqueIn(s) ==
  \A i, j \in DOMAIN s : s[i].type = s[j].type /\ s[i].device = s[j].device => i = j

TableOf(s) ==
  [k \in KeysOf(s) |->
     s[CHOOSE n \in DOMAIN s : s[n].type = k[1] /\ s[n].device = k[2]].report]

\* The refinement mapping in those terms.
LEMMA TableIsTableOf ==
  /\ table = TableOf(diagnostics) /\ (KeysUnique <=> UniqueIn(diagnostics))
  /\ table' = TableOf(diagnostics') /\ (KeysUnique' <=> UniqueIn(diagnostics'))
BY DEF table, Keys, IsKey, IsType, TableOf, KeysOf, KeyOf, KeysUnique, UniqueIn

\* A search finds the report of the entry with the key, which is the only one.
LEMMA TableOfEntry ==
  ASSUME NEW s, UniqueIn(s), NEW i \in DOMAIN s
  PROVE  KeyOf(s[i]) \in KeysOf(s) /\ TableOf(s)[KeyOf(s[i])] = s[i].report
<1> DEFINE k == KeyOf(s[i])
           n == CHOOSE j \in DOMAIN s : s[j].type = k[1] /\ s[j].device = k[2]
<1>1. k[1] = s[i].type /\ k[2] = s[i].device
  BY DEF KeyOf
<1>2. n \in DOMAIN s /\ s[n].type = k[1] /\ s[n].device = k[2]
  BY <1>1
<1>3. n = i
  BY <1>1, <1>2 DEF UniqueIn
<1>4. k \in KeysOf(s)
  BY DEF KeysOf
<1>5. TableOf(s)[k] = s[n].report
  BY <1>4 DEF TableOf
<1>6. QED
  BY <1>3, <1>4, <1>5

\* A function that has the keys of the vector, and the report of each entry, is its
\* table.
LEMMA TableOfIs ==
  ASSUME NEW s, UniqueIn(s), NEW g, g = [k \in KeysOf(s) |-> g[k]],
         \A i \in DOMAIN s : g[KeyOf(s[i])] = s[i].report
  PROVE  TableOf(s) = g
<1>1. TableOf(s) = [k \in KeysOf(s) |-> TableOf(s)[k]]
  BY DEF TableOf
<1>2. ASSUME NEW k \in KeysOf(s)
      PROVE  TableOf(s)[k] = g[k]
  <2>1. PICK i \in DOMAIN s : k = KeyOf(s[i])
    BY DEF KeysOf
  <2>2. QED
    BY <2>1, TableOfEntry
<1>3. QED
  BY <1>1, <1>2

\* The empty vector is the empty map.
LEMMA InitRefines == Init => Map!Init
<1> SUFFICES ASSUME Init PROVE Map!Init
  OBVIOUS
<1>1. KeysOf(diagnostics) = {}
  BY DEF Init, KeysOf
<1>2. TableOf(diagnostics) = << >>
  BY <1>1 DEF TableOf
<1>3. QED
  BY <1>2, TableIsTableOf DEF Init, Map!Init, Map!Answer

\* As many types in ascending order as there are enabled ones are all of them.
LEMMA OrderIsComplete ==
  ASSUME NEW order \in [1 .. Cardinality(EnabledTypes) -> EnabledTypes],
         \A i, j \in DOMAIN order : i < j => order[i] < order[j]
  PROVE  \A t \in EnabledTypes : \E i \in DOMAIN order : order[i] = t
<1> DEFINE n == Cardinality(EnabledTypes)
<1>1. n \in Nat /\ IsFiniteSet(EnabledTypes)
  BY TypesAssumption, FS_CardinalityType
<1> HIDE DEF n
<1>2. \A i \in 1 .. n : order[i] \in Int
  BY TypesAssumption DEF n
<1>3. \A i, j \in 1 .. n : order[i] = order[j] => i = j
  BY <1>1, <1>2 DEF n
<1>4. order \in Injection(1 .. n, EnabledTypes)
  BY <1>3 DEF Injection, IsInjective, n
<1>5. Cardinality(1 .. n) = n
  BY <1>1, FS_Interval
<1>6. order \in Surjection(1 .. n, EnabledTypes)
  BY <1>1, <1>4, <1>5, FS_Injection DEF n
<1>7. QED
  BY <1>6 DEF Surjection, n
\* enable_diagnostics maps the host and each enabled type to its initial report.
LEMMA EnableRefines ==
  ASSUME IInv, EnableDiagnostics
  PROVE  Map!Enable
<1> DEFINE g == [k \in EnabledTypes \X {Host} |-> InitialReport(k[1])]
<1>1. PICK order \in [1 .. Cardinality(EnabledTypes) -> EnabledTypes] :
        /\ \A i, j \in DOMAIN order : i < j => order[i] < order[j]
        /\ diagnostics' = [i \in DOMAIN order |->
                             Entry(order[i], Host, InitialReport(order[i]))]
  BY DEF EnableDiagnostics
<1>2. /\ DOMAIN diagnostics' = DOMAIN order
      /\ \A i \in DOMAIN order : /\ order[i] \in EnabledTypes
                                 /\ KeyOf(diagnostics'[i]) = <<order[i], Host>>
                                 /\ diagnostics'[i].report = InitialReport(order[i])
  BY <1>1 DEF Entry, KeyOf
<1>3. \A t \in EnabledTypes : \E i \in DOMAIN order : order[i] = t
  BY <1>1, OrderIsComplete
<1>4. KeysOf(diagnostics') = EnabledTypes \X {Host}
  BY <1>2, <1>3 DEF KeysOf
<1>5. \A i \in DOMAIN diagnostics' : g[KeyOf(diagnostics'[i])] = diagnostics'[i].report
  BY <1>2
<1>6. UniqueIn(diagnostics')
  BY EnableKeepsIInv, TableIsTableOf DEF IInv
<1>7. TableOf(diagnostics') = g
  BY <1>4, <1>5, <1>6, TableOfIs
<1>8. DOMAIN table = {}
  BY TableIsTableOf DEF EnableDiagnostics, TableOf, KeysOf
<1>9. QED
  BY <1>7, <1>8, TableIsTableOf DEF Map!Enable, EnableDiagnostics

\* The table after a report of a device of an enabled type, as DiagnosticMap has it.
Reported(t, d, r) ==
  [k \in DOMAIN table \union {<<t, d>>} |-> IF k = <<t, d>> THEN r ELSE table[k]]

\* What is common to a report that overwrites an entry and one that is inserted: the
\* keys and the answer of the vector are the map's.
LEMMA ReportRefines ==
  ASSUME IInv, IInv', NEW t \in Types, NEW d \in Devices, NEW r \in CallerReports,
         HasType(t), returned' = [device |-> d, report |-> r],
         KeysOf(diagnostics') = KeysOf(diagnostics) \union {<<t, d>>},
         \A j \in DOMAIN diagnostics' :
           \/ KeyOf(diagnostics'[j]) = <<t, d>> /\ diagnostics'[j].report = r
           \/ /\ KeyOf(diagnostics'[j]) # <<t, d>>
              /\ \E i \in DOMAIN diagnostics : diagnostics'[j] = diagnostics[i]
  PROVE  Map!Report(t, d, r)
<1>1. /\ table = TableOf(diagnostics) /\ UniqueIn(diagnostics)
      /\ table' = TableOf(diagnostics') /\ UniqueIn(diagnostics')
  BY TableIsTableOf DEF IInv
<1>2. DOMAIN table = KeysOf(diagnostics)
  BY <1>1 DEF TableOf
<1>3. ASSUME NEW j \in DOMAIN diagnostics'
      PROVE  Reported(t, d, r)[KeyOf(diagnostics'[j])] = diagnostics'[j].report
  <2>1. CASE KeyOf(diagnostics'[j]) = <<t, d>> /\ diagnostics'[j].report = r
    BY <2>1 DEF Reported
  <2>2. ASSUME KeyOf(diagnostics'[j]) # <<t, d>>, NEW i \in DOMAIN diagnostics,
               diagnostics'[j] = diagnostics[i]
        PROVE  Reported(t, d, r)[KeyOf(diagnostics'[j])] = diagnostics'[j].report
    <3>1. /\ KeyOf(diagnostics[i]) \in DOMAIN table
          /\ table[KeyOf(diagnostics[i])] = diagnostics[i].report
      BY <1>1, <1>2, TableOfEntry
    <3>2. QED
      BY <2>2, <3>1 DEF Reported
  <2>3. QED
    BY <2>1, <2>2
<1>4. Reported(t, d, r) = [k \in KeysOf(diagnostics') |-> Reported(t, d, r)[k]]
  BY <1>2 DEF Reported
<1>5. table' = Reported(t, d, r)
  BY <1>1, <1>3, <1>4, TableOfIs
<1>6. Map!Accepts(t)
  <2>1. PICK i \in DOMAIN diagnostics : diagnostics[i].type = t
    BY DEF HasType, IsType
  <2>2. KeyOf(diagnostics[i]) \in DOMAIN table /\ KeyOf(diagnostics[i])[1] = t
    BY <1>2, <2>1 DEF KeyOf, KeysOf
  <2>3. QED
    BY <2>2 DEF Map!Accepts
<1>7. QED
  BY <1>5, <1>6 DEF Reported, Map!Report, Map!Answer

\* A report that overwrites its entry changes the value of its key and no other.
LEMMA UpdateRefines ==
  ASSUME IInv, IInv', NEW t \in Types, NEW d \in Devices, NEW r \in CallerReports,
         UpdateEntry(t, d, r)
  PROVE  Map!Report(t, d, r)
<1>1. /\ DOMAIN diagnostics' = DOMAIN diagnostics
      /\ \A i \in DOMAIN diagnostics :
           /\ diagnostics[i] \in Entries
           /\ diagnostics'[i] = IF IsKey(i, t, d) THEN [diagnostics[i] EXCEPT !.report = r]
                                                   ELSE diagnostics[i]
  BY VectorElements DEF UpdateEntry, IInv
<1>2. ASSUME NEW x \in Entries
      PROVE  KeyOf([x EXCEPT !.report = r]) = KeyOf(x) /\ [x EXCEPT !.report = r].report = r
  BY DEF Entries, KeyOf
<1>3. \A i \in DOMAIN diagnostics : KeyOf(diagnostics'[i]) = KeyOf(diagnostics[i])
  BY <1>1, <1>2
<1>4. \A i \in DOMAIN diagnostics : KeyOf(diagnostics[i]) = <<t, d>> <=> IsKey(i, t, d)
  BY DEF KeyOf, IsKey, IsType
<1>5. PICK n \in DOMAIN diagnostics : KeyOf(diagnostics[n]) = <<t, d>>
  BY <1>4 DEF UpdateEntry, HasEntry
<1>6. KeysOf(diagnostics') = KeysOf(diagnostics) \union {<<t, d>>}
  BY <1>1, <1>3, <1>5 DEF KeysOf
<1>7. \A j \in DOMAIN diagnostics' :
        \/ KeyOf(diagnostics'[j]) = <<t, d>> /\ diagnostics'[j].report = r
        \/ /\ KeyOf(diagnostics'[j]) # <<t, d>>
           /\ \E i \in DOMAIN diagnostics : diagnostics'[j] = diagnostics[i]
  BY <1>1, <1>2, <1>3, <1>4
<1>8. HasType(t)
  BY DEF UpdateEntry, HasEntry, HasType, IsKey
<1>9. QED
  BY <1>6, <1>7, <1>8, ReportRefines DEF UpdateEntry

\* A report of a new device adds its key, wherever the index put the entry.
LEMMA InsertRefines ==
  ASSUME IInv, IInv', NEW t \in Types, NEW d \in Devices, NEW r \in CallerReports,
         InsertEntry(t, d, r)
  PROVE  Map!Report(t, d, r)
<1> DEFINE n == Len(diagnostics)
<1>1. PICK p \in 1 .. n :
        /\ DOMAIN diagnostics' = 1 .. n + 1
        /\ \A k \in 1 .. n + 1 :
             diagnostics'[k] = IF k < p THEN diagnostics[k]
                               ELSE IF k = p THEN Entry(t, d, r)
                               ELSE diagnostics[k - 1]
  BY InsertionElements DEF IInv
<1>2. n \in Nat /\ DOMAIN diagnostics = 1 .. n
  BY VectorElements DEF IInv
<1> HIDE DEF n
<1>3. p \in 1 .. n + 1 /\ KeyOf(diagnostics'[p]) = <<t, d>> /\ diagnostics'[p].report = r
  BY <1>1, <1>2 DEF Entry, KeyOf
<1>4. \A i \in 1 .. n : KeyOf(diagnostics[i]) # <<t, d>>
  BY <1>2 DEF InsertEntry, HasEntry, IsKey, IsType, KeyOf
<1>5. ASSUME NEW k \in 1 .. n + 1, k # p
      PROVE  \E i \in 1 .. n : diagnostics'[k] = diagnostics[i]
  <2>1. CASE k < p
    BY <1>1, <1>2, <2>1
  <2>2. CASE k > p
    <3>1. k - 1 \in 1 .. n /\ ~ (k < p)
      BY <1>2, <2>2
    <3>2. QED
      BY <1>1, <1>5, <3>1
  <2>3. QED
    BY <1>2, <1>5, <2>1, <2>2
<1>6. ASSUME NEW i \in 1 .. n
      PROVE  \E k \in 1 .. n + 1 : diagnostics'[k] = diagnostics[i]
  <2>1. CASE i < p
    BY <1>1, <1>2, <2>1
  <2>2. CASE i >= p
    <3>1. i + 1 \in 1 .. n + 1 /\ ~ (i + 1 < p) /\ i + 1 # p /\ (i + 1) - 1 = i
      BY <1>2, <2>2
    <3>2. diagnostics'[i + 1] = diagnostics[i]
      BY <1>1, <3>1
    <3>3. QED
      BY <3>1, <3>2
  <2>3. QED
    BY <1>2, <2>1, <2>2
<1>7. KeysOf(diagnostics') = KeysOf(diagnostics) \union {<<t, d>>}
  BY <1>1, <1>2, <1>3, <1>5, <1>6 DEF KeysOf
<1>8. \A j \in DOMAIN diagnostics' :
        \/ KeyOf(diagnostics'[j]) = <<t, d>> /\ diagnostics'[j].report = r
        \/ /\ KeyOf(diagnostics'[j]) # <<t, d>>
           /\ \E i \in DOMAIN diagnostics : diagnostics'[j] = diagnostics[i]
  BY <1>1, <1>2, <1>3, <1>4, <1>5
<1>9. QED
  BY <1>7, <1>8, ReportRefines DEF InsertEntry

\* A report of a type that was not enabled is refused by both.
LEMMA RefuseRefines ==
  ASSUME IInv, NEW t \in Types, RefuseType(t)
  PROVE  Map!Refuse(t)
<1>1. table' = table
  BY DEF RefuseType, table, Keys, IsKey, IsType
<1>2. ~ Map!Accepts(t)
  <2>1. ASSUME NEW k \in KeysOf(diagnostics), k[1] = t PROVE FALSE
    <3>1. PICK i \in DOMAIN diagnostics : k = KeyOf(diagnostics[i])
      BY DEF KeysOf
    <3>2. diagnostics[i].type = t
      BY <2>1, <3>1 DEF KeyOf
    <3>3. QED
      BY <3>2 DEF RefuseType, HasType, IsType
  <2>2. DOMAIN table = KeysOf(diagnostics)
    BY TableIsTableOf DEF TableOf
  <2>3. QED
    BY <2>1, <2>2 DEF Map!Accepts
<1>3. \E d \in {Host, NoDevice} : returned' = Map!Answer(d, Refusal)
  BY DEF RefuseType, IInv, TypeOK, Map!Answer
<1>4. QED
  BY <1>1, <1>2, <1>3 DEF Map!Refuse

\* A step of the vector is one of the map.
LEMMA StepRefines == IInv /\ IInv' /\ [Next]_vars => [Map!Next]_(Map!vars)
<1> SUFFICES ASSUME IInv, IInv', [Next]_vars PROVE [Map!Next]_(Map!vars)
  OBVIOUS
<1>1. CASE EnableDiagnostics
  BY <1>1, EnableRefines DEF Map!Next
<1>2. ASSUME NEW t \in Types, NEW d \in Devices, NEW r \in CallerReports,
             UpdateDiagnostic(t, d, r)
      PROVE  Map!Next
  <2>1. Map!Report(t, d, r) \/ Map!Refuse(t)
    BY <1>2, UpdateRefines, InsertRefines, RefuseRefines DEF UpdateDiagnostic
  <2>2. QED
    BY <2>1 DEF Map!Next
<1>3. CASE UNCHANGED vars
  BY <1>3 DEF vars, Map!vars, table, Keys, IsKey, IsType
<1>4. QED
  BY <1>1, <1>2, <1>3 DEF Next

\* update_diagnostic implements a map from (type, device) to the last report, for
\* any number of devices and any width of insert_index: where an entry ends up
\* never matters to what is found.
THEOREM StoreImplementsMap == Spec => ImplementsMap
BY InitRefines, NextKeepsIInv, StepRefines, StoreInvariant, PTL
DEF Spec, ImplementsMap, Map!Spec
============================================================================
