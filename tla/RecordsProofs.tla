--------------------------- MODULE RecordsProofs ---------------------------
(***************************************************************************)
(* Proofs about what the gateway keeps of its requests.  The access log    *)
(* (AccessLog), for any number of logs, any retention and limit, and       *)
(* crashes at any point:                                                   *)
(*                                                                         *)
(*   - an export gives the payload of every log that is younger than the   *)
(*     retention and whose payload is read, while cleanups run             *)
(*     (RecentHavePayload);                                                *)
(*   - an export is complete or refused, or the query failed               *)
(*     (ExportComplete).                                                   *)
(*                                                                         *)
(* The dashboard (Dashboard), for any set of requests, any hours a day and *)
(* any ring:                                                               *)
(*                                                                         *)
(*   - the view shows for each of the last hours what was counted in it    *)
(*     (HourlyShown);                                                      *)
(*   - the peaks are what requests found, and no more than was in progress *)
(*     (PeaksTold).                                                        *)
(***************************************************************************)
EXTENDS AccessLog, Dashboard, FiniteSetTheorems, SequenceTheorems, TLAPS

(***************************************************************************)
(* The inductive invariant.                                                *)
(***************************************************************************)

\* A log that is stored without its mark was overtaken by a cleanup, or has no payload
\* and will have none.
RecordsOK ==
  \A l \in Logs :
    /\ recorder[l] \in {"serves", "log"} => l \notin Stored
    /\ l \in Stored /\ ~ rows[l] => l \in overtaken \/ (recorder[l] = "ended" /\ l \notin payloads)

\* A cleanup deletes what was old when it began.
CleanerOK == cleaner.at = "delete" => cleaner.cutoff <= now - Retention

Entries == [log : Logs, has : BOOLEAN]
Results == [log : Logs, status : {"none", "available", "expired"}]

Recent(l) == Second(stamp[l]) + Second(Retention) > Second(now)

\* What an export has looked up, and what it will find.
PayloadsOK ==
  export.at = "payloads" =>
    /\ export.got \in Seq(Results)
    /\ \A l \in export.whole : recorder[l] = "ended" /\ (Recent(l) => l \in payloads)
    /\ \A i \in 1..Len(export.todo) :
         export.todo[i].log \in export.whole \ overtaken => export.todo[i].has
    /\ \A i \in 1..Len(export.got) :
         export.got[i].log \in export.whole \ overtaken /\ Recent(export.got[i].log)
           => export.got[i].status = "available"

\* The logs that an export lists, those that it has looked up first.
Listed(n) == IF n <= Len(export.got) THEN export.got[n].log ELSE export.todo[n - Len(export.got)].log
Count     == Len(export.got) + Len(export.todo)

\* They are of the range, none is listed twice, and none is left out unless the list is too long.
ListingOK ==
  export.at = "payloads" =>
    /\ ~ export.failed
    /\ \A i, j \in 1..Count : Listed(i) = Listed(j) => i = j
    /\ \A i \in 1..Count : Listed(i) \in export.near
    /\ Count > ExportMaxRows \/ \A l \in export.due : \E i \in 1..Count : l = Listed(i)

IInv == TypeOK /\ RecordsOK /\ CleanerOK /\ PayloadsOK /\ ListingOK /\ ExportComplete

(***************************************************************************)
(* Times.                                                                  *)
(***************************************************************************)

\* Text keeps the order of seconds, and that of times from a whole second on.
LEMMA TextOrder ==
  ASSUME NEW s \in Int, NEW t \in Int
  PROVE  /\ Text(s) < Text(t) => Second(s) <= Second(t)
         /\ Second(s) < Second(t) => Text(s) < Text(t)
         /\ t % 2 = 0 /\ Text(t) <= Text(s) => t <= s
         /\ s <= t => Second(s) <= Second(t)
         /\ Second(s) \in Int /\ Text(s) \in Int
BY DEF Text, Second

\* What is as old as the retention is not recent, to the second.
LEMMA AgeInSeconds ==
  ASSUME NEW t \in Int, NEW retention \in Nat, NEW cutoff \in Int, cutoff <= t - retention
  PROVE  Second(cutoff) + Second(retention) <= Second(t)
BY DEF Second

\* A day begins at a whole second.
LEMMA WholeSeconds ==
  ASSUME NEW d \in Nat, d % Day = 0
  PROVE  d % 2 = 0
<1>1. PICK k \in Nat : Day = 2 * k
  <2>1. Day \div 2 \in Nat /\ Day = 2 * (Day \div 2)
    BY DayAssumption
  <2> QED
    BY <2>1
<1>2. PICK q \in Int : d = Day * q
  <2>1. d \div Day \in Int /\ d = Day * (d \div Day)
    BY DayAssumption
  <2> QED
    BY <2>1
<1>3. k * q \in Int
  OBVIOUS
<1>4. d = 2 * (k * q)
  BY <1>1, <1>2
<1>5. \A m \in Int : (2 * m) % 2 = 0
  OBVIOUS
<1> QED
  BY <1>3, <1>4, <1>5

(***************************************************************************)
(* Types.                                                                  *)
(***************************************************************************)

ExportType ==
  [at : {"idle", "payloads", "answered", "refused"}, todo : Seq(Entries),
   got : Seq(Results) \cup Seq(Logs), failed : BOOLEAN,
   due : SUBSET Logs, near : SUBSET Logs, whole : SUBSET Logs]

LEMMA Types ==
  ASSUME TypeOK
  PROVE  /\ now \in Int /\ Retention \in Nat /\ 0 <= now /\ now <= MaxTime /\ MaxTime \in Nat
         /\ Stored \subseteq Logs /\ \A l \in Stored : rows[l] \in BOOLEAN
         /\ payloads \subseteq Logs
         /\ \A l \in Logs : stamp[l] \in Int
         /\ stamp \in [Logs -> 0..MaxTime]
         /\ recorder \in [Logs -> {"serves", "log", "payload", "ended"}]
         /\ cleaner.cutoff \in Int /\ cleaner \in [at : {"waits", "delete", "mark"}, cutoff : (0 - Retention)..MaxTime]
         /\ export \in ExportType
<1>1. PICK L \in SUBSET Logs : rows \in [L -> BOOLEAN]
  BY DEF TypeOK
<1>2. Stored = L
  BY <1>1 DEF Stored
<1>3. cleaner \in [at : {"waits", "delete", "mark"}, cutoff : (0 - Retention)..MaxTime]
  BY DEF TypeOK
<1>4. cleaner.cutoff \in Int
  BY <1>3, TimeAssumption
<1>5. stamp \in [Logs -> 0..MaxTime] /\ MaxTime \in Nat
  BY TimeAssumption DEF TypeOK
<1>6. \A l \in Logs : stamp[l] \in Int
  BY <1>5
<1>7. export \in ExportType
  BY DEF TypeOK, ExportType, Entries, Results
<1> QED
  BY <1>1, <1>2, <1>3, <1>4, <1>5, <1>6, <1>7, TimeAssumption DEF TypeOK

\* The type invariant from its parts.
LEMMA TypesBack ==
  ASSUME now \in 0..MaxTime, migrated \in BOOLEAN,
         rows \in UNION {[L -> BOOLEAN] : L \in SUBSET Logs},
         payloads \subseteq Logs, stamp \in [Logs -> 0..MaxTime],
         recorder \in [Logs -> {"serves", "log", "payload", "ended"}],
         cleaner \in [at : {"waits", "delete", "mark"}, cutoff : (0 - Retention)..MaxTime],
         export \in ExportType, crashes \in 0..MaxCrashes, overtaken \subseteq Logs
  PROVE  TypeOK
BY DEF TypeOK, ExportType, Entries, Results

\* The same of the next state.
LEMMA TypesNext ==
  ASSUME now' \in 0..MaxTime, migrated' \in BOOLEAN,
         rows' \in UNION {[L -> BOOLEAN] : L \in SUBSET Logs},
         payloads' \subseteq Logs, stamp' \in [Logs -> 0..MaxTime],
         recorder' \in [Logs -> {"serves", "log", "payload", "ended"}],
         cleaner' \in [at : {"waits", "delete", "mark"}, cutoff : (0 - Retention)..MaxTime],
         export' \in ExportType, crashes' \in 0..MaxCrashes, overtaken' \subseteq Logs
  PROVE  TypeOK'
BY DEF TypeOK, ExportType, Entries, Results

LEMMA ExportFields ==
  ASSUME NEW at \in {"idle", "payloads", "answered", "refused"}, NEW todo \in Seq(Entries),
         NEW got, got \in Seq(Results) \cup Seq(Logs), NEW failed \in BOOLEAN,
         NEW due \in SUBSET Logs, NEW near \in SUBSET Logs, NEW whole \in SUBSET Logs
  PROVE  [at |-> at, todo |-> todo, got |-> got, failed |-> failed,
          due |-> due, near |-> near, whole |-> whole] \in ExportType
BY DEF ExportType

LEMMA NoExportIs ==
  /\ NoExport \in ExportType /\ NoExport.at = "idle" /\ NoExport.got = <<>>
  /\ NoExport.failed = FALSE /\ NoExport.near = {}
<1>1. PICK e, none, f : e = <<>> /\ none = {} /\ f = FALSE
  OBVIOUS
<1>2. e \in Seq(Entries) /\ e \in Seq(Results) /\ none \in SUBSET Logs /\ f \in BOOLEAN
  BY <1>1, EmptySeq
<1>3. NoExport = [at |-> "idle", todo |-> e, got |-> e, failed |-> f,
                  due |-> none, near |-> none, whole |-> none]
  BY <1>1, Zenon DEF NoExport
<1>4. NoExport \in ExportType
  BY <1>2, <1>3, ExportFields
<1>5. NoExport.at = "idle" /\ NoExport.got = e /\ NoExport.failed = f /\ NoExport.near = none
  BY <1>3
<1> QED
  BY <1>1, <1>4, <1>5, Zenon

\* An export that is answered at once, and one that has its list.
LEMMA FailedIs ==
  ASSUME NEW due \in SUBSET Logs, NEW x,
         x = [NoExport EXCEPT !.at = "answered", !.failed = TRUE, !.due = due]
  PROVE  x \in ExportType /\ x.at = "answered" /\ x.failed = TRUE /\ x.got = <<>> /\ x.near = {}
<1>1. PICK e, none, n, t :
        e = NoExport.got /\ none = NoExport.near /\ n = NoExport /\ t = TRUE
  OBVIOUS
<1>2. n \in ExportType /\ t \in BOOLEAN /\ n.got = e /\ n.near = none
  BY <1>1, NoExportIs
<1>3. x = [n EXCEPT !.at = "answered", !.failed = t, !.due = due]
  BY <1>1, Zenon
<1>4. x \in ExportType /\ x.at = "answered" /\ x.failed = t /\ x.got = e /\ x.near = none
  BY <1>2, <1>3 DEF ExportType
<1> QED
  BY <1>1, <1>4, NoExportIs, Zenon

LEMMA TypeInit == Init => TypeOK
<1> SUFFICES ASSUME Init PROVE TypeOK
  OBVIOUS
<1>1. rows \in [{} -> BOOLEAN]
  BY DEF Init
<1>2. rows \in UNION {[L -> BOOLEAN] : L \in SUBSET Logs}
  BY <1>1
<1>4. cleaner \in [at : {"waits", "delete", "mark"}, cutoff : (0 - Retention)..MaxTime]
  BY TimeAssumption DEF Init, NoCleanup
<1>5. export \in ExportType
  BY NoExportIs DEF Init
<1>6. now \in 0..MaxTime /\ crashes \in 0..MaxCrashes /\ stamp \in [Logs -> 0..MaxTime]
      /\ recorder \in [Logs -> {"serves", "log", "payload", "ended"}]
  <2>1. now = 0 /\ crashes = 0 /\ stamp = [l \in Logs |-> 0] /\ recorder = [l \in Logs |-> "serves"]
    BY DEF Init
  <2> QED
    BY <2>1, TimeAssumption, BoundAssumption
<1>7. migrated \in BOOLEAN /\ payloads \subseteq Logs /\ overtaken \subseteq Logs
  BY DEF Init
<1> QED
  BY <1>2, <1>4, <1>5, <1>6, <1>7, TypesBack

(***************************************************************************)
(* The steps of an export.                                                 *)
(***************************************************************************)

exportVars == <<now, migrated, rows, payloads, recordVars, cleaner, crashes, overtaken>>

\* The range is listed from the newest log on, each log once.
LEMMA NewestIs ==
  ASSUME NEW L, IsFiniteSet(L), NEW s \in Newest(L)
  PROVE  /\ s \in Seq(L) /\ Len(s) \in Nat
         /\ \A i, j \in 1..Len(s) : s[i] = s[j] => i = j
         /\ \A l \in L : \E i \in 1..Len(s) : l = s[i]
         /\ \A i \in 1..Len(s) : s[i] \in L
<1> DEFINE n == Cardinality(L)
<1>1. n \in Nat
  BY FS_CardinalityType
<1>2. s \in [1..n -> L] /\ Range(s) = L
  BY DEF Newest
<1>3. Cardinality(1..n) = n /\ IsFiniteSet(1..n)
  BY <1>1, FS_Interval
<1>4. \A l \in L : \E i \in 1..n : s[i] = l
  BY <1>2 DEF Range
<1>5. s \in Surjection(1..n, L)
  BY <1>2, <1>4 DEF Surjection
<1>6. s \in Injection(1..n, L)
  BY <1>3, <1>5, FS_SurjSameCardinalityImpliesInj
<1>7. \A i, j \in 1..n : s[i] = s[j] => i = j
  BY <1>6 DEF Injection, IsInjective
<1>8. s \in Seq(L) /\ Len(s) = n
  BY <1>1, <1>2
<1> QED
  BY <1>1, <1>2, <1>4, <1>7, <1>8

\* What is in a range is near it, and what is surely in it is in it.
LEMMA RangeIs ==
  ASSUME TypeOK, NEW from \in Starts, NEW to \in Ends
  PROVE  /\ \A l \in Stored : Between(l, from, to) => l \in Near(from, to)
         /\ \A l \in Due(from, to) : l \in Stored /\ Between(l, from, to)
         /\ Near(from, to) \subseteq Logs /\ Due(from, to) \subseteq Logs
<1>1. now \in Int /\ 0 <= now /\ Stored \subseteq Logs /\ \A l \in Stored : stamp[l] \in Int
  BY Types
<1>2. \A d \in Starts : d \in Nat /\ d % Day = 0
  BY <1>1 DEF Starts
<1>3. from \in Int /\ from % 2 = 0
  BY <1>2, WholeSeconds
<1>4. to \in Int
  BY <1>1, <1>2, DayAssumption DEF Ends
<1>5. ASSUME NEW l \in Stored, Between(l, from, to)
      PROVE  l \in Near(from, to)
  <2>1. Text(from) <= Text(stamp[l]) /\ Text(stamp[l]) < Text(to) /\ stamp[l] \in Int
    BY <1>1, <1>5 DEF Between
  <2>2. from <= stamp[l]
    BY <1>3, <2>1, TextOrder
  <2>3. Second(stamp[l]) <= Second(to)
    BY <1>4, <2>1, TextOrder
  <2> QED
    BY <2>2, <2>3 DEF Near
<1>6. ASSUME NEW l \in Due(from, to)
      PROVE  l \in Stored /\ Between(l, from, to)
  <2>1. l \in Stored /\ Second(from) < Second(stamp[l]) /\ Second(stamp[l]) < Second(to)
    BY DEF Due
  <2>2. stamp[l] \in Int
    BY <1>1, <2>1
  <2>3. Text(from) < Text(stamp[l])
    BY <1>3, <2>1, <2>2, TextOrder
  <2>4. Text(stamp[l]) < Text(to)
    BY <1>4, <2>1, <2>2, TextOrder
  <2>5. Text(from) \in Int /\ Text(stamp[l]) \in Int
    BY <1>3, <2>2, TextOrder
  <2> QED
    BY <2>1, <2>3, <2>4, <2>5 DEF Between
<1> QED
  BY <1>1, <1>5, <1>6 DEF Near, Due

LEMMA ListIs ==
  ASSUME TypeOK, List
  PROVE  /\ export' \in ExportType /\ export'.at = "payloads" /\ export'.got = <<>>
         /\ ~ export'.failed /\ export'.whole = Whole
         /\ \A i \in 1..Len(export'.todo) :
              /\ export'.todo[i].log \in Stored
              /\ export'.todo[i].has = rows[export'.todo[i].log]
              /\ export'.todo[i].log \in export'.near
         /\ \A i, j \in 1..Len(export'.todo) : export'.todo[i].log = export'.todo[j].log => i = j
         /\ \/ Len(export'.todo) > ExportMaxRows
            \/ \A l \in export'.due : \E i \in 1..Len(export'.todo) : l = export'.todo[i].log
         /\ UNCHANGED exportVars
<1>0. PICK from \in Starts, to \in Ends : \E s \in Newest({l \in Stored : Between(l, from, to)}) :
        LET listed == SubSeq(s, 1, IF Len(s) < Limit THEN Len(s) ELSE Limit)
        IN  export' = [NoExport EXCEPT
                         !.at = "payloads",
                         !.todo = [i \in DOMAIN listed |-> [log |-> listed[i], has |-> rows[listed[i]]]],
                         !.due = Due(from, to), !.near = Near(from, to), !.whole = Whole]
  BY DEF List
<1>1. PICK s \in Newest({l \in Stored : Between(l, from, to)}) :
        LET listed == SubSeq(s, 1, IF Len(s) < Limit THEN Len(s) ELSE Limit)
        IN  export' = [NoExport EXCEPT
                         !.at = "payloads",
                         !.todo = [i \in DOMAIN listed |-> [log |-> listed[i], has |-> rows[listed[i]]]],
                         !.due = Due(from, to), !.near = Near(from, to), !.whole = Whole]
  BY <1>0
<1> DEFINE L == {l \in Stored : Between(l, from, to)}
           k == IF Len(s) < Limit THEN Len(s) ELSE Limit
           listed == SubSeq(s, 1, k)
           todo == [i \in DOMAIN listed |-> [log |-> listed[i], has |-> rows[listed[i]]]]
<1>2. Stored \subseteq Logs /\ (\A l \in Stored : rows[l] \in BOOLEAN) /\ L \subseteq Stored
  BY Types
<1>3. IsFiniteSet(L)
  BY <1>2, LogsAssumption, FS_Subset
<1> HIDE DEF L
<1>4. s \in Newest(L)
  BY <1>1 DEF L
<1>5. /\ s \in Seq(L) /\ Len(s) \in Nat
      /\ \A i, j \in 1..Len(s) : s[i] = s[j] => i = j
      /\ \A l \in L : \E i \in 1..Len(s) : l = s[i]
      /\ \A i \in 1..Len(s) : s[i] \in L
  BY <1>3, <1>4, NewestIs
<1>6. k \in Nat /\ k <= Len(s) /\ (k = Len(s) \/ k > ExportMaxRows) /\ Limit \in Nat
  BY <1>5, BoundAssumption DEF Limit
<1> HIDE DEF k
<1>7. /\ listed \in Seq(L) /\ Len(listed) = k
      /\ \A i \in 1..k : listed[i] = s[i]
  <2>1. \A i \in 1..k : i \in 1..Len(s)
    BY <1>5, <1>6
  <2>2. \A i \in 1..k : s[i] \in L
    BY <1>5, <2>1
  <2>3. /\ listed \in Seq(L) /\ Len(listed) = IF 1 <= k THEN (k - 1) + 1 ELSE 0
        /\ \A i \in 1..((k - 1) + 1) : listed[i] = s[(1 + i) - 1]
    BY <1>6, <2>2, SubSeqProperties
  <2>4. \A i \in 1..k : i \in 1..((k - 1) + 1) /\ (1 + i) - 1 = i
    BY <1>6
  <2> QED
    BY <1>6, <2>3, <2>4
<1> HIDE DEF listed
<1>8. DOMAIN listed = 1..k
  BY <1>6, <1>7
<1>9. todo \in Seq(Entries) /\ Len(todo) = k
      /\ \A i \in 1..k : todo[i].log = s[i] /\ todo[i].has = rows[s[i]] /\ s[i] \in L
  <2>1. ASSUME NEW i \in 1..k
        PROVE  listed[i] = s[i] /\ s[i] \in L
    <3>1. i \in 1..Len(s)
      BY <1>5, <1>6
    <3>2. s[i] \in L
      BY <1>5, <3>1
    <3>3. listed[i] = s[i]
      BY <1>7
    <3> QED
      BY <3>2, <3>3
  <2>2. \A i \in 1..k : [log |-> listed[i], has |-> rows[listed[i]]] \in Entries
    BY <1>2, <2>1 DEF Entries
  <2> QED
    BY <1>6, <1>8, <2>1, <2>2
<1>10. export' = [NoExport EXCEPT !.at = "payloads", !.todo = todo, !.due = Due(from, to),
                                  !.near = Near(from, to), !.whole = Whole]
  BY <1>1 DEF todo, listed, k
<1> HIDE DEF todo
<1>11. Near(from, to) \subseteq Logs /\ Due(from, to) \subseteq Logs
  BY RangeIs
<1>12. Whole \subseteq Logs
  BY Types DEF Whole
<1>13. /\ export' \in ExportType /\ export'.at = "payloads" /\ export'.got = <<>> /\ export'.todo = todo
       /\ export'.due = Due(from, to) /\ export'.near = Near(from, to) /\ export'.whole = Whole
       /\ ~ export'.failed
  <2>1. PICK q, due, near, whole :
          q = todo /\ due = Due(from, to) /\ near = Near(from, to) /\ whole = Whole
    OBVIOUS
  <2>2. due \in SUBSET Logs /\ near \in SUBSET Logs /\ whole \in SUBSET Logs /\ q \in Seq(Entries)
    BY <1>9, <1>11, <1>12, <2>1
  <2>3. PICK x : x = export'
    OBVIOUS
  <2>4. PICK e, f, n : e = NoExport.got /\ f = NoExport.failed /\ n = NoExport
    OBVIOUS
  <2>5. /\ x \in ExportType /\ x.at = "payloads" /\ x.todo = q /\ x.got = <<>>
        /\ ~ x.failed /\ x.due = due /\ x.near = near /\ x.whole = whole
    <3>1. n \in ExportType /\ n.got = e /\ n.failed = f
      BY <2>4, NoExportIs
    <3>2. x = [n EXCEPT !.at = "payloads", !.todo = q, !.due = due, !.near = near, !.whole = whole]
      BY <1>10, <2>1, <2>3, <2>4, Zenon
    <3>3. /\ x \in ExportType /\ x.at = "payloads" /\ x.todo = q /\ x.got = e
          /\ x.failed = f /\ x.due = due /\ x.near = near /\ x.whole = whole
      BY <2>2, <3>1, <3>2 DEF ExportType
    <3>4. ~ x.failed
      BY <2>4, <3>3, NoExportIs
    <3> QED
      BY <2>4, <3>3, <3>4, NoExportIs, Zenon
  <2>6. /\ x \in ExportType /\ x.at = "payloads" /\ x.todo = todo /\ x.got = <<>>
        /\ x.due = Due(from, to) /\ x.near = Near(from, to) /\ x.whole = Whole /\ ~ x.failed
    BY <2>1, <2>5, Zenon
  <2> QED
    BY <2>3, <2>6, Zenon
<1>14. \A l \in L : l \in Stored /\ l \in Near(from, to)
  BY <1>2, RangeIs DEF L
<1>15. \A l \in Due(from, to) : l \in L
  BY RangeIs DEF L
<1>16. \A i, j \in 1..k : todo[i].log = todo[j].log => i = j
  <2>1. \A i \in 1..k : i \in 1..Len(s)
    BY <1>5, <1>6
  <2> QED
    BY <1>5, <1>9, <2>1
<1>17. k > ExportMaxRows \/ \A l \in Due(from, to) : \E i \in 1..k : l = todo[i].log
  BY <1>5, <1>6, <1>9, <1>15
<1>18. UNCHANGED exportVars
  BY DEF List, exportVars
<1>19. \A i \in 1..k : /\ todo[i].log \in Stored
                       /\ todo[i].has = rows[todo[i].log]
                       /\ todo[i].log \in Near(from, to)
  BY <1>9, <1>14
<1> QED
  BY <1>9, <1>13, <1>16, <1>17, <1>18, <1>19

\* A look-up moves the first log of the list from the front of one half to the end of the
\* other; if it fails, the log is no longer one of which the payload should be found.
LookUp == GetPayload \/ GetPayloadFails

LEMMA GetPayloadIs ==
  ASSUME TypeOK, PayloadsOK, LookUp
  PROVE  LET g == export.got
             t == export.todo
         IN  /\ export.at = "payloads" /\ g \in Seq(Results) /\ t \in Seq(Entries) /\ Len(t) > 0
             /\ Len(g) \in Nat /\ Len(t) \in Nat
             /\ export' \in ExportType /\ export'.at = "payloads"
             /\ export'.due = export.due /\ export'.near = export.near
             /\ export'.failed = export.failed /\ export'.whole \subseteq export.whole
             /\ export'.got \in Seq(Results) /\ Len(export'.got) = Len(g) + 1
             /\ \A i \in 1..Len(g) : export'.got[i] = g[i]
             /\ export'.got[Len(g) + 1].log = t[1].log
             /\ t[1].log \in export'.whole => export'.got[Len(g) + 1].status = PayloadStatus(t[1])
             /\ Len(export'.todo) = Len(t) - 1
             /\ \A i \in 1..(Len(t) - 1) : export'.todo[i] = t[i + 1]
             /\ UNCHANGED exportVars
<1> DEFINE g == export.got
           t == export.todo
           r == Head(t)
<1>1. export \in ExportType /\ export.at = "payloads" /\ t # <<>>
  BY Types DEF LookUp, GetPayload, GetPayloadFails
<1>2. g \in Seq(Results) /\ t \in Seq(Entries)
  BY <1>1 DEF PayloadsOK, ExportType
<1>4. Len(t) > 0 /\ Len(t) \in Nat /\ Len(g) \in Nat
  BY <1>1, <1>2, EmptySeq, LenProperties
<1>5. r = t[1] /\ r \in Entries
  <2>1. r = t[1]
    BY <1>1, <1>2
  <2>2. 1 \in 1..Len(t)
    BY <1>4
  <2>3. t[1] \in Entries
    BY <1>2, <2>2
  <2> QED
    BY <2>1, <2>3
<1>3. PICK found, whole :
        /\ export' = [export EXCEPT !.todo = Tail(t), !.whole = whole, !.got = Append(g, found)]
        /\ found \in Results /\ found.log = r.log /\ whole \subseteq export.whole
        /\ r.log \in whole => found.status = PayloadStatus(r)
  <2>1. r.log \in Logs /\ PayloadStatus(r) \in {"none", "available", "expired"}
    BY <1>5 DEF Entries, PayloadStatus
  <2>2. CASE GetPayload
    <3> DEFINE found == [log |-> r.log, status |-> PayloadStatus(r)]
    <3>1. export' = [export EXCEPT !.todo = Tail(t), !.got = Append(g, found)]
      BY <2>2 DEF GetPayload
    <3>2. found \in Results /\ found.log = r.log /\ found.status = PayloadStatus(r)
      BY <2>1 DEF Results
    <3> HIDE DEF found, r
    <3>3. export' = [export EXCEPT !.todo = Tail(t), !.whole = export.whole, !.got = Append(g, found)]
      BY <1>1, <3>1 DEF ExportType
    <3> QED
      BY <3>2, <3>3
  <2>3. CASE GetPayloadFails
    <3> DEFINE found == [log |-> r.log, status |-> "expired"]
               whole == export.whole \ {r.log}
    <3>1. export' = [export EXCEPT !.todo = Tail(t), !.whole = whole, !.got = Append(g, found)]
      BY <2>3 DEF GetPayloadFails
    <3>2. found \in Results /\ found.log = r.log
      BY <2>1 DEF Results
    <3>3. whole \subseteq export.whole /\ r.log \notin whole
      OBVIOUS
    <3> HIDE DEF found, whole, r
    <3> QED
      BY <3>1, <3>2, <3>3
  <2> QED
    BY <2>2, <2>3 DEF LookUp
<1> HIDE DEF r
<1>8. /\ Append(g, found) \in Seq(Results) /\ Len(Append(g, found)) = Len(g) + 1
      /\ \A i \in 1..Len(g) : Append(g, found)[i] = g[i]
      /\ Append(g, found)[Len(g) + 1] = found
  BY <1>2, <1>3, AppendProperties
<1>9. /\ Tail(t) \in Seq(Entries) /\ Len(Tail(t)) = Len(t) - 1
      /\ \A i \in 1..(Len(t) - 1) : Tail(t)[i] = t[i + 1]
  BY <1>1, <1>2, <1>4, HeadTailProperties
<1>10. /\ export'.todo = Tail(t) /\ export'.got = Append(g, found) /\ export'.at = "payloads"
       /\ export'.due = export.due /\ export'.near = export.near /\ export'.whole = whole
       /\ export'.failed = export.failed
  BY <1>1, <1>3 DEF ExportType
<1>6. whole \in SUBSET Logs
  BY <1>1, <1>3 DEF ExportType
<1>11. export' \in ExportType
  BY <1>1, <1>3, <1>6, <1>8, <1>9 DEF ExportType
<1>12. UNCHANGED exportVars
  BY DEF LookUp, GetPayload, GetPayloadFails, exportVars
<1>13. /\ export'.got[Len(g) + 1].log = t[1].log
       /\ t[1].log \in export'.whole => export'.got[Len(g) + 1].status = PayloadStatus(t[1])
  BY <1>3, <1>5, <1>8, <1>10
<1> QED
  BY <1>1, <1>2, <1>3, <1>4, <1>8, <1>9, <1>10, <1>11, <1>12, <1>13

\* The list stays the same.
LEMMA GetPayloadLists ==
  ASSUME TypeOK, PayloadsOK, LookUp
  PROVE  /\ Count' = Count /\ Count \in Nat
         /\ \A n \in 1..Count : Listed(n)' = Listed(n)
<1>0. PICK g, t, g2, t2 : g = export.got /\ t = export.todo /\ g2 = export'.got /\ t2 = export'.todo
  OBVIOUS
<1>1. /\ Len(g) \in Nat /\ Len(t) \in Nat /\ Len(t) > 0
      /\ Len(g2) = Len(g) + 1 /\ Len(t2) = Len(t) - 1
      /\ \A i \in 1..Len(g) : g2[i] = g[i]
      /\ g2[Len(g) + 1].log = t[1].log
      /\ \A i \in 1..(Len(t) - 1) : t2[i] = t[i + 1]
  BY <1>0, GetPayloadIs, Zenon
<1>2. Count' = Count /\ Count = Len(g) + Len(t) /\ Count \in Nat
  <2>1. Count' = Len(g2) + Len(t2) /\ Count = Len(g) + Len(t)
    BY <1>0, Zenon DEF Count
  <2> QED
    BY <1>1, <2>1
<1>3. ASSUME NEW n \in 1..Count
      PROVE  Listed(n)' = Listed(n)
  <2>1. n \in 1..(Len(g) + Len(t))
    BY <1>2
  <2>2. Listed(n) = IF n <= Len(g) THEN g[n].log ELSE t[n - Len(g)].log
    BY <1>0, Zenon DEF Listed
  <2>3. Listed(n)' = IF n <= Len(g) + 1 THEN g2[n].log ELSE t2[n - (Len(g) + 1)].log
    <3>1. Listed(n)' = IF n <= Len(g2) THEN g2[n].log ELSE t2[n - Len(g2)].log
      BY <1>0, Zenon DEF Listed
    <3> QED
      BY <1>1, <3>1
  <2>4. CASE n <= Len(g)
    <3>1. n \in 1..Len(g) /\ n <= Len(g) + 1
      BY <1>1, <2>1, <2>4
    <3> QED
      BY <1>1, <2>2, <2>3, <2>4, <3>1
  <2>5. CASE n = Len(g) + 1
    <3>1. n - Len(g) = 1 /\ ~ (n <= Len(g)) /\ n <= Len(g) + 1
      BY <1>1, <2>5
    <3> QED
      BY <1>1, <2>2, <2>3, <2>5, <3>1
  <2>6. CASE n > Len(g) + 1
    <3> DEFINE m == n - (Len(g) + 1)
    <3>1. m \in 1..(Len(t) - 1) /\ n - Len(g) = m + 1 /\ ~ (n <= Len(g)) /\ ~ (n <= Len(g) + 1)
      BY <1>1, <2>1, <2>6
    <3>2. t2[m] = t[m + 1]
      BY <1>1, <3>1
    <3> QED
      BY <2>2, <2>3, <3>1, <3>2
  <2> QED
    BY <1>1, <2>1, <2>4, <2>5, <2>6
<1> QED
  BY <1>2, <1>3

\* An answer has each listed log once, and is refused exactly when there are too many.
LEMMA AnswerIs ==
  ASSUME TypeOK, PayloadsOK, ListingOK, Answer
  PROVE  /\ export' \in ExportType /\ export'.at \in {"answered", "refused"} /\ UNCHANGED exportVars
         /\ ExportComplete'
<1>0. PICK g, n : g = export.got /\ n = Len(g)
  OBVIOUS
<1>1. export \in ExportType /\ export.at = "payloads" /\ export.todo = <<>> /\ IsFiniteSet(Logs)
  BY Types, LogsAssumption DEF Answer
<1>2. g \in Seq(Results) /\ n \in Nat
  BY <1>0, <1>1 DEF PayloadsOK
<1>3. PICK logs : logs = [i \in 1..n |-> g[i].log]
  OBVIOUS
<1>4. DOMAIN g = 1..n
  BY <1>0, <1>2
<1>5. export' = [export EXCEPT !.at = IF n > ExportMaxRows THEN "refused" ELSE "answered",
                               !.got = logs, !.whole = {}]
  <2>1. export' = [export EXCEPT !.at = IF Len(export.got) > ExportMaxRows THEN "refused" ELSE "answered",
                                 !.got = [i \in DOMAIN export.got |-> export.got[i].log], !.whole = {}]
    BY DEF Answer
  <2> QED
    BY <1>0, <1>3, <1>4, <2>1, Zenon
<1>6. \A i \in 1..n : g[i] \in Results /\ g[i].log \in Logs
  <2>1. \A i \in 1..n : g[i] \in Results
    BY <1>0, <1>2
  <2>2. \A x \in Results : x.log \in Logs
    BY DEF Results
  <2> QED
    BY <2>1, <2>2
<1>7. logs \in Seq(Logs) /\ Len(logs) = n /\ DOMAIN logs = 1..n
  BY <1>2, <1>3, <1>6
<1>8. /\ export'.at = (IF n > ExportMaxRows THEN "refused" ELSE "answered")
      /\ export'.got = logs /\ export'.due = export.due /\ export'.near = export.near
      /\ ~ export'.failed
  BY <1>1, <1>5 DEF ExportType, ListingOK
<1>9. export' \in ExportType
  <2>1. PICK none : none = {}
    OBVIOUS
  <2>2. none \in SUBSET Logs
    BY <2>1
  <2>3. export' = [export EXCEPT !.at = IF n > ExportMaxRows THEN "refused" ELSE "answered",
                                 !.got = logs, !.whole = none]
    BY <1>5, <2>1, Zenon
  <2> QED
    BY <1>1, <1>7, <2>2, <2>3 DEF ExportType
<1>10. Count = n /\ \A i \in 1..n : Listed(i) = logs[i]
  <2>1. Len(export.todo) = 0
    BY <1>1, EmptySeq DEF ExportType
  <2>2. Count = n
    <3>1. Count = n + Len(export.todo)
      BY <1>0, Zenon DEF Count
    <3> QED
      BY <1>2, <2>1, <3>1
  <2>3. ASSUME NEW i \in 1..n
        PROVE  Listed(i) = logs[i]
    <3>1. i <= n
      BY <1>2
    <3>2. Listed(i) = g[i].log
      BY <1>0, <3>1, Zenon DEF Listed
    <3> QED
      BY <1>3, <3>2
  <2> QED
    BY <2>2, <2>3
<1>11. /\ \A i, j \in 1..n : logs[i] = logs[j] => i = j
       /\ \A i \in 1..n : logs[i] \in export.near
       /\ n > ExportMaxRows \/ \A l \in export.due : \E i \in 1..n : l = logs[i]
  <2>1. /\ \A i, j \in 1..n : Listed(i) = Listed(j) => i = j
        /\ \A i \in 1..n : Listed(i) \in export.near
        /\ n > ExportMaxRows \/ \A l \in export.due : \E i \in 1..n : l = Listed(i)
    BY <1>1, <1>10, Zenon DEF ListingOK
  <2> QED
    BY <1>10, <2>1, Zenon
<1> DEFINE shown == Range(logs)
<1>12. \A l : l \in shown <=> \E i \in 1..n : l = logs[i]
  BY <1>7 DEF Range
<1>13. Cardinality(shown) = n
  <2>1. logs \in Injection(1..n, shown)
    BY <1>3, <1>11, <1>12 DEF Injection, IsInjective
  <2>2. logs \in Surjection(1..n, shown)
    BY <1>3, <1>12 DEF Surjection
  <2>3. logs \in Bijection(1..n, shown)
    BY <2>1, <2>2 DEF Bijection
  <2>4. IsFiniteSet(1..n) /\ Cardinality(1..n) = n
    BY <1>2, FS_Interval
  <2> QED
    BY <2>3, <2>4, FS_Bijection DEF ExistsBijection
<1>14. shown \subseteq export.near
  BY <1>11, <1>12
<1>15. n > ExportMaxRows \/ export.due \subseteq shown
  BY <1>11, <1>12
<1>16. Cardinality(shown) <= Cardinality(export.near)
  <2>1. export.near \subseteq Logs
    BY <1>1 DEF ExportType
  <2>2. IsFiniteSet(export.near)
    BY <1>1, <2>1, FS_Subset
  <2> QED
    BY <1>14, <2>2, FS_Subset
<1>17. Cardinality(export.near) \in Nat
  <2>1. export.near \subseteq Logs
    BY <1>1 DEF ExportType
  <2>2. IsFiniteSet(export.near)
    BY <1>1, <2>1, FS_Subset
  <2> QED
    BY <2>2, FS_CardinalityType
<1>18. ExportComplete'
  <2>1. Range(export'.got) = shown /\ Len(export'.got) = n
    BY <1>7, <1>8, Zenon
  <2> HIDE DEF shown
  <2>2. CASE n > ExportMaxRows
    <3>1. export'.at = "refused" /\ Cardinality(export'.near) > ExportMaxRows
      BY <1>2, <1>8, <1>13, <1>16, <1>17, <2>2, BoundAssumption
    <3> QED
      BY <3>1 DEF ExportComplete
  <2>3. CASE ~ (n > ExportMaxRows)
    <3>1. /\ export'.at = "answered" /\ export'.due \subseteq shown /\ shown \subseteq export'.near
          /\ Cardinality(shown) = n /\ ~ export'.failed
      BY <1>8, <1>13, <1>14, <1>15, <2>3
    <3> QED
      BY <2>1, <3>1 DEF ExportComplete
  <2> QED
    BY <2>2, <2>3
<1>19. UNCHANGED exportVars /\ export'.at \in {"answered", "refused"}
  BY <1>8 DEF Answer, exportVars
<1> QED
  BY <1>9, <1>18, <1>19

(***************************************************************************)
(* The steps of the records and of the cleanup.                            *)
(***************************************************************************)

\* What the export holds does not change.
LEMMA ListingKept ==
  ASSUME export' = export, ListingOK, ExportComplete
  PROVE  ListingOK' /\ ExportComplete'
<1>1. Count' = Count /\ \A n : Listed(n)' = Listed(n)
  BY Zenon DEF Count, Listed
<1>2. ListingOK'
  BY <1>1, Zenon DEF ListingOK
<1>3. ExportComplete'
  BY DEF ExportComplete
<1> QED
  BY <1>2, <1>3

\* A step that leaves records that have ended and recent payloads alone leaves to an
\* export what it will find.
LEMMA PayloadsKept ==
  ASSUME TypeOK, PayloadsOK, export' = export, now' \in Int, now' >= now,
         \A l \in Logs : recorder[l] = "ended" => recorder'[l] = "ended" /\ stamp'[l] = stamp[l],
         \A l \in payloads : recorder[l] = "ended" /\ Recent(l) => l \in payloads',
         overtaken \subseteq overtaken'
  PROVE  PayloadsOK'
<1>1. /\ now \in Int /\ Retention \in Nat /\ export \in ExportType
      /\ \A l \in Logs : stamp[l] \in Int
  BY Types
<1>2. SUFFICES ASSUME export.at = "payloads"
               PROVE  /\ export.got \in Seq(Results)
                      /\ \A l \in export.whole : recorder'[l] = "ended" /\ (Recent(l)' => l \in payloads')
                      /\ \A i \in 1..Len(export.todo) :
                           export.todo[i].log \in export.whole \ overtaken' => export.todo[i].has
                      /\ \A i \in 1..Len(export.got) :
                           export.got[i].log \in export.whole \ overtaken' /\ Recent(export.got[i].log)'
                             => export.got[i].status = "available"
  BY Zenon DEF PayloadsOK
<1>3. /\ export.got \in Seq(Results)
      /\ \A l \in export.whole : recorder[l] = "ended" /\ (Recent(l) => l \in payloads)
      /\ \A i \in 1..Len(export.todo) :
           export.todo[i].log \in export.whole \ overtaken => export.todo[i].has
      /\ \A i \in 1..Len(export.got) :
           export.got[i].log \in export.whole \ overtaken /\ Recent(export.got[i].log)
             => export.got[i].status = "available"
  BY <1>2, Zenon DEF PayloadsOK
<1>4. export.whole \subseteq Logs
  BY <1>1 DEF ExportType
<1>5. ASSUME NEW l \in export.whole
      PROVE  /\ recorder'[l] = "ended" /\ recorder[l] = "ended"
             /\ Recent(l)' => Recent(l)
  <2>1. l \in Logs /\ recorder[l] = "ended"
    BY <1>3, <1>4
  <2>2. recorder'[l] = "ended" /\ stamp'[l] = stamp[l] /\ stamp[l] \in Int
    BY <1>1, <2>1
  <2>3. Second(now) <= Second(now') /\ Second(now) \in Int /\ Second(now') \in Int
    BY <1>1, TextOrder
  <2>4. Second(stamp[l]) \in Int /\ Second(Retention) \in Int
    BY <1>1, <2>2, TextOrder
  <2>5. Recent(l)' <=> Second(stamp[l]) + Second(Retention) > Second(now')
    BY <2>2 DEF Recent, Second
  <2>6. Recent(l) <=> Second(stamp[l]) + Second(Retention) > Second(now)
    BY DEF Recent
  <2> QED
    BY <2>1, <2>2, <2>3, <2>4, <2>5, <2>6
<1>6. \A l \in export.whole : recorder'[l] = "ended" /\ (Recent(l)' => l \in payloads')
  BY <1>3, <1>5
<1>7. \A i \in 1..Len(export.todo) :
        export.todo[i].log \in export.whole \ overtaken' => export.todo[i].has
  BY <1>3
<1>8. ASSUME NEW i \in 1..Len(export.got),
             export.got[i].log \in export.whole \ overtaken', Recent(export.got[i].log)'
      PROVE  export.got[i].status = "available"
  BY <1>3, <1>5, <1>8
<1> QED
  BY <1>3, <1>6, <1>7, <1>8

\* What a cleanup deletes is older than the retention, to the second.
LEMMA OnlyOldDeleted ==
  ASSUME TypeOK, CleanerOK, cleaner.at = "delete", NEW l \in Logs, Old(l)
  PROVE  ~ Recent(l)
<1>1. now \in Int /\ Retention \in Nat /\ stamp[l] \in Int /\ cleaner.cutoff \in Int
  BY Types
<1>2. cleaner.cutoff <= now - Retention
  BY DEF CleanerOK
<1>3. Second(stamp[l]) <= Second(cleaner.cutoff)
  BY <1>1, TextOrder DEF Old
<1>4. Second(cleaner.cutoff) + Second(Retention) <= Second(now)
  BY <1>1, <1>2, AgeInSeconds
<1>5. /\ Second(stamp[l]) \in Int /\ Second(cleaner.cutoff) \in Int
      /\ Second(Retention) \in Int /\ Second(now) \in Int
  BY <1>1, TextOrder
<1> QED
  BY <1>3, <1>4, <1>5 DEF Recent

LEMMA RowsType ==
  ASSUME TypeOK
  PROVE  rows \in [Stored -> BOOLEAN]
<1>1. PICK L \in SUBSET Logs : rows \in [L -> BOOLEAN]
  BY DEF TypeOK
<1> QED
  BY <1>1 DEF Stored

LEMMA TickKeeps ==
  ASSUME IInv, Tick
  PROVE  IInv'
<1>1. /\ TypeOK /\ now \in Int /\ now < MaxTime /\ now' = now + 1 /\ now' \in Int /\ now' >= now
      /\ 0 <= now /\ MaxTime \in Nat /\ Retention \in Nat
  BY Types DEF IInv, Tick
<1>2. UNCHANGED <<migrated, rows, payloads, stamp, recorder, cleaner, export, crashes, overtaken>>
  BY DEF Tick, recordVars
<1>3. TypeOK'
  <2>1. now' \in 0..MaxTime
    BY <1>1
  <2> QED
    BY <1>1, <1>2, <2>1 DEF TypeOK
<1>4. RecordsOK'
  BY <1>2 DEF IInv, RecordsOK, Stored
<1>5. CleanerOK'
  BY <1>1, <1>2, Types DEF IInv, CleanerOK
<1>6. PayloadsOK'
  BY <1>1, <1>2, PayloadsKept DEF IInv
<1>7. ListingOK' /\ ExportComplete'
  BY <1>2, ListingKept DEF IInv
<1> QED
  BY <1>3, <1>4, <1>5, <1>6, <1>7 DEF IInv

LEMMA RecordAccessKeeps ==
  ASSUME IInv, NEW l \in Logs, RecordAccess(l)
  PROVE  IInv'
<1>1. /\ TypeOK /\ now \in Int /\ now \in 0..MaxTime /\ now' = now
      /\ stamp \in [Logs -> 0..MaxTime]
      /\ recorder \in [Logs -> {"serves", "log", "payload", "ended"}]
  BY Types DEF IInv, RecordAccess, TypeOK
<1>2. UNCHANGED <<now, migrated, rows, payloads, cleaner, export, crashes, overtaken>>
  BY DEF RecordAccess
<1>3. /\ recorder[l] = "serves"
      /\ stamp' = [stamp EXCEPT ![l] = now]
      /\ recorder' = [recorder EXCEPT ![l] = "log"]
  BY DEF RecordAccess
<1>4. TypeOK'
  <2>1. stamp' \in [Logs -> 0..MaxTime] /\ recorder' \in [Logs -> {"serves", "log", "payload", "ended"}]
    BY <1>1, <1>3
  <2> QED
    BY <1>1, <1>2, <2>1 DEF TypeOK
<1>5. \A k \in Logs : k # l => recorder'[k] = recorder[k] /\ stamp'[k] = stamp[k]
  BY <1>1, <1>3
<1>6. RecordsOK'
  <2>1. recorder'[l] = "log" /\ l \notin Stored
    BY <1>1, <1>3 DEF IInv, RecordsOK
  <2> QED
    BY <1>2, <1>5, <2>1 DEF IInv, RecordsOK, Stored
<1>7. CleanerOK'
  BY <1>2 DEF IInv, CleanerOK
<1>8. PayloadsOK'
  BY <1>1, <1>2, <1>3, <1>5, PayloadsKept DEF IInv
<1>9. ListingOK' /\ ExportComplete'
  BY <1>2, ListingKept DEF IInv
<1> QED
  BY <1>4, <1>6, <1>7, <1>8, <1>9 DEF IInv

LEMMA InsertLogKeeps ==
  ASSUME IInv, NEW l \in Logs, InsertLog(l)
  PROVE  IInv'
<1>1. /\ TypeOK /\ now \in Int /\ now' = now /\ rows \in [Stored -> BOOLEAN] /\ Stored \subseteq Logs
      /\ recorder \in [Logs -> {"serves", "log", "payload", "ended"}]
  BY Types, RowsType DEF IInv, InsertLog
<1>2. UNCHANGED <<now, migrated, payloads, stamp, cleaner, export, crashes, overtaken>>
  BY DEF InsertLog
<1>3. /\ recorder[l] = "log"
      /\ rows' = [k \in Stored \cup {l} |-> IF k = l THEN TRUE ELSE rows[k]]
      /\ recorder' = [recorder EXCEPT ![l] = "payload"]
  BY DEF InsertLog
<1>4. rows' \in [Stored \cup {l} -> BOOLEAN] /\ Stored \cup {l} \in SUBSET Logs
  BY <1>1, <1>3
<1>5. TypeOK'
  <2>1. recorder' \in [Logs -> {"serves", "log", "payload", "ended"}]
    BY <1>1, <1>3
  <2>2. rows' \in UNION {[L -> BOOLEAN] : L \in SUBSET Logs}
    BY <1>4
  <2> QED
    BY <1>1, <1>2, <2>1, <2>2 DEF TypeOK
<1>6. Stored' = Stored \cup {l} /\ rows'[l] /\ \A k \in Stored : k # l => rows'[k] = rows[k]
  BY <1>3 DEF Stored
<1>7. \A k \in Logs : k # l => recorder'[k] = recorder[k]
  BY <1>1, <1>3
<1>8. RecordsOK'
  <2>1. recorder'[l] = "payload"
    BY <1>1, <1>3
  <2> QED
    BY <1>2, <1>6, <1>7, <2>1 DEF IInv, RecordsOK
<1>9. CleanerOK'
  BY <1>2 DEF IInv, CleanerOK
<1>10. PayloadsOK'
  BY <1>1, <1>2, <1>3, <1>7, PayloadsKept DEF IInv
<1>11. ListingOK' /\ ExportComplete'
  BY <1>2, ListingKept DEF IInv
<1> QED
  BY <1>5, <1>8, <1>9, <1>10, <1>11 DEF IInv

LEMMA InsertPayloadKeeps ==
  ASSUME IInv, NEW l \in Logs, InsertPayload(l) \/ InsertFails(l)
  PROVE  IInv'
<1>1. /\ TypeOK /\ now \in Int /\ payloads \subseteq Logs
      /\ recorder \in [Logs -> {"serves", "log", "payload", "ended"}]
  BY Types DEF IInv
<1>2. UNCHANGED <<now, migrated, rows, stamp, cleaner, export, crashes, overtaken>>
  BY DEF InsertPayload, InsertFails
<1>3. /\ recorder[l] \in {"log", "payload"}
      /\ recorder' = [recorder EXCEPT ![l] = "ended"]
      /\ payloads \subseteq payloads' /\ payloads' \subseteq payloads \cup {l}
  BY DEF InsertPayload, InsertFails
<1>4. TypeOK'
  <2>1. recorder' \in [Logs -> {"serves", "log", "payload", "ended"}]
    BY <1>1, <1>3
  <2>2. payloads' \subseteq Logs
    BY <1>1, <1>3
  <2> QED
    BY <1>1, <1>2, <2>1, <2>2 DEF TypeOK
<1>5. \A k \in Logs : k # l => recorder'[k] = recorder[k]
  BY <1>1, <1>3
<1>6. RecordsOK'
  <2>1. recorder'[l] = "ended" /\ (l \in Stored /\ ~ rows[l] => l \in overtaken)
    BY <1>1, <1>3 DEF IInv, RecordsOK
  <2> QED
    BY <1>2, <1>3, <1>5, <2>1 DEF IInv, RecordsOK, Stored
<1>7. CleanerOK'
  BY <1>2 DEF IInv, CleanerOK
<1>8. PayloadsOK'
  BY <1>1, <1>2, <1>3, <1>5, PayloadsKept DEF IInv
<1>9. ListingOK' /\ ExportComplete'
  BY <1>2, ListingKept DEF IInv
<1> QED
  BY <1>4, <1>6, <1>7, <1>8, <1>9 DEF IInv

LEMMA CleanupKeeps ==
  ASSUME IInv, CleanupOldPayloads \/ CleanupFails
  PROVE  IInv'
<1>1. /\ TypeOK /\ now \in Int /\ 0 <= now /\ now <= MaxTime /\ MaxTime \in Nat /\ Retention \in Nat
  BY Types DEF IInv
<1>2. UNCHANGED <<now, migrated, rows, payloads, stamp, recorder, export, crashes, overtaken>>
  BY DEF CleanupOldPayloads, CleanupFails, recordVars
<1>3. \/ cleaner' = [at |-> "delete", cutoff |-> now - Retention]
      \/ cleaner' = [at |-> "waits", cutoff |-> 0]
  BY DEF CleanupOldPayloads, CleanupFails, NoCleanup, Cutoff
<1>4. cleaner' \in [at : {"waits", "delete", "mark"}, cutoff : (0 - Retention)..MaxTime]
  BY <1>1, <1>3
<1>5. TypeOK'
  BY <1>1, <1>2, <1>4 DEF TypeOK
<1>6. RecordsOK'
  BY <1>2 DEF IInv, RecordsOK, Stored
<1>7. CleanerOK'
  BY <1>1, <1>2, <1>3 DEF CleanerOK
<1>8. PayloadsOK'
  BY <1>1, <1>2, PayloadsKept DEF IInv
<1>9. ListingOK' /\ ExportComplete'
  BY <1>2, ListingKept DEF IInv
<1> QED
  BY <1>5, <1>6, <1>7, <1>8, <1>9 DEF IInv

LEMMA DeleteOldPayloadsKeeps ==
  ASSUME IInv, DeleteOldPayloads
  PROVE  IInv'
<1>1. /\ TypeOK /\ now \in Int /\ payloads \subseteq Logs
      /\ cleaner \in [at : {"waits", "delete", "mark"}, cutoff : (0 - Retention)..MaxTime]
  BY Types DEF IInv
<1>2. UNCHANGED <<now, migrated, rows, stamp, recorder, export, crashes, overtaken>>
  BY DEF DeleteOldPayloads, recordVars
<1>3. /\ cleaner.at = "delete" /\ cleaner' = [cleaner EXCEPT !.at = "mark"]
      /\ payloads' = {l \in payloads : ~ Old(l)}
  BY DEF DeleteOldPayloads, AfterDelete
<1>4. TypeOK'
  <2>1. cleaner' \in [at : {"waits", "delete", "mark"}, cutoff : (0 - Retention)..MaxTime]
    BY <1>1, <1>3
  <2>2. payloads' \subseteq Logs
    BY <1>1, <1>3
  <2> QED
    BY <1>1, <1>2, <2>1, <2>2 DEF TypeOK
<1>5. RecordsOK'
  BY <1>2, <1>3 DEF IInv, RecordsOK, Stored
<1>6. CleanerOK'
  BY <1>1, <1>3 DEF CleanerOK
<1>7. \A l \in payloads : Recent(l) => l \in payloads'
  BY <1>1, <1>3, OnlyOldDeleted DEF IInv
<1>8. PayloadsOK'
  BY <1>1, <1>2, <1>7, PayloadsKept DEF IInv
<1>9. ListingOK' /\ ExportComplete'
  BY <1>2, ListingKept DEF IInv
<1> QED
  BY <1>4, <1>5, <1>6, <1>8, <1>9 DEF IInv

LEMMA MarkWithoutPayloadKeeps ==
  ASSUME IInv, MarkWithoutPayload
  PROVE  IInv'
<1>1. /\ TypeOK /\ now \in Int /\ rows \in [Stored -> BOOLEAN] /\ Stored \subseteq Logs
      /\ recorder \in [Logs -> {"serves", "log", "payload", "ended"}] /\ overtaken \subseteq Logs
      /\ MaxTime \in Nat /\ Retention \in Nat
  BY Types, RowsType DEF IInv, TypeOK
<1>2. UNCHANGED <<now, migrated, payloads, stamp, recorder, export, crashes>>
  BY DEF MarkWithoutPayload, recordVars
<1>3. /\ rows' = [l \in Stored |-> rows[l] /\ ~ Marked(l)]
      /\ overtaken' = overtaken \cup {l \in Stored : Marked(l) /\ recorder[l] = "payload"}
      /\ cleaner' = [at |-> "waits", cutoff |-> 0]
  BY DEF MarkWithoutPayload, NoCleanup
<1>4. TypeOK'
  <2>1. rows' \in [Stored -> BOOLEAN]
    BY <1>1, <1>3
  <2>2. rows' \in UNION {[L -> BOOLEAN] : L \in SUBSET Logs}
    BY <1>1, <2>1
  <2>3. cleaner' \in [at : {"waits", "delete", "mark"}, cutoff : (0 - Retention)..MaxTime]
    BY <1>1, <1>3
  <2>4. overtaken' \subseteq Logs
    BY <1>1, <1>3
  <2> QED
    BY <1>1, <1>2, <2>2, <2>3, <2>4 DEF TypeOK
<1>5. Stored' = Stored
  BY <1>3 DEF Stored
<1>6. ASSUME NEW l \in Stored, ~ rows'[l]
      PROVE  l \in overtaken' \/ (recorder[l] = "ended" /\ l \notin payloads)
  <2>1. ~ rows[l] \/ Marked(l)
    BY <1>3, <1>6
  <2>2. CASE ~ rows[l]
    BY <1>1, <1>3, <2>2 DEF IInv, RecordsOK
  <2>3. CASE Marked(l)
    <3>1. recorder[l] \in {"payload", "ended"}
      BY <1>1 DEF IInv, RecordsOK
    <3> QED
      BY <1>3, <2>3, <3>1 DEF Marked
  <2> QED
    BY <2>1, <2>2, <2>3
<1>7. RecordsOK'
  BY <1>2, <1>5, <1>6 DEF IInv, RecordsOK
<1>8. CleanerOK'
  BY <1>3 DEF CleanerOK
<1>9. PayloadsOK'
  BY <1>1, <1>2, <1>3, PayloadsKept DEF IInv
<1>10. ListingOK' /\ ExportComplete'
  BY <1>2, ListingKept DEF IInv
<1> QED
  BY <1>4, <1>7, <1>8, <1>9, <1>10 DEF IInv

\* A crash ends what runs; the tables stay as they are.
LEMMA CrashKeeps ==
  ASSUME IInv, Crash
  PROVE  IInv'
<1>1. /\ TypeOK /\ now \in Int /\ MaxTime \in Nat /\ Retention \in Nat /\ MaxCrashes \in Nat
      /\ recorder \in [Logs -> {"serves", "log", "payload", "ended"}] /\ crashes \in 0..MaxCrashes
  BY Types, BoundAssumption DEF IInv, TypeOK
<1>2. UNCHANGED <<now, migrated, rows, payloads, stamp, overtaken>>
  BY DEF Crash
<1>3. /\ crashes < MaxCrashes /\ crashes' = crashes + 1
      /\ recorder' = [l \in Logs |-> IF recorder[l] = "serves" THEN "serves" ELSE "ended"]
      /\ cleaner' = [at |-> "waits", cutoff |-> 0]
      /\ export' = NoExport
  BY DEF Crash, NoCleanup
<1>4. export' \in ExportType /\ export'.at = "idle"
  BY <1>3, NoExportIs
<1>5. TypeOK'
  <2>1. recorder' \in [Logs -> {"serves", "log", "payload", "ended"}]
    BY <1>1, <1>3
  <2>2. cleaner' \in [at : {"waits", "delete", "mark"}, cutoff : (0 - Retention)..MaxTime]
    BY <1>1, <1>3
  <2>3. crashes' \in 0..MaxCrashes
    BY <1>1, <1>3
  <2>4. /\ now' \in 0..MaxTime /\ migrated' \in BOOLEAN /\ payloads' \subseteq Logs
        /\ rows' \in UNION {[L -> BOOLEAN] : L \in SUBSET Logs}
        /\ stamp' \in [Logs -> 0..MaxTime] /\ overtaken' \subseteq Logs
    BY <1>1, <1>2 DEF TypeOK
  <2> QED
    BY <1>4, <2>1, <2>2, <2>3, <2>4, TypesNext
<1>6. RecordsOK'
  <2>1. ASSUME NEW l \in Logs
        PROVE  /\ recorder'[l] \in {"serves", "log"} => l \notin Stored
               /\ l \in Stored /\ ~ rows[l] => l \in overtaken \/ (recorder'[l] = "ended" /\ l \notin payloads)
    <3>1. /\ recorder[l] \in {"serves", "log"} => l \notin Stored
          /\ l \in Stored /\ ~ rows[l] => l \in overtaken \/ (recorder[l] = "ended" /\ l \notin payloads)
      BY DEF IInv, RecordsOK
    <3>2. recorder'[l] = IF recorder[l] = "serves" THEN "serves" ELSE "ended"
      BY <1>3
    <3> QED
      BY <3>1, <3>2
  <2> QED
    BY <1>2, <2>1 DEF RecordsOK, Stored
<1>7. CleanerOK'
  BY <1>3 DEF CleanerOK
<1>8. PayloadsOK'
  BY <1>4 DEF PayloadsOK
<1>9. ListingOK' /\ ExportComplete'
  BY <1>4 DEF ListingOK, ExportComplete
<1> QED
  BY <1>5, <1>6, <1>7, <1>8, <1>9 DEF IInv

(***************************************************************************)
(* The steps of an export keep the invariant.                              *)
(***************************************************************************)

\* They change nothing else.
LEMMA TablesKept ==
  ASSUME IInv, UNCHANGED exportVars, export' \in ExportType
  PROVE  TypeOK' /\ RecordsOK' /\ CleanerOK'
<1>1. /\ UNCHANGED <<now, migrated, rows, payloads, stamp, recorder, cleaner, crashes, overtaken>>
  BY DEF exportVars, recordVars
<1>2. TypeOK'
  <2>1. TypeOK
    BY DEF IInv
  <2> QED
    BY <1>1, <2>1, TypesNext DEF TypeOK
<1>3. RecordsOK'
  BY <1>1 DEF IInv, RecordsOK, Stored
<1>4. CleanerOK'
  BY <1>1 DEF IInv, CleanerOK
<1> QED
  BY <1>2, <1>3, <1>4

LEMMA ListKeeps ==
  ASSUME IInv, List
  PROVE  IInv'
<1>0. PICK t : t = export'.todo
  OBVIOUS
<1>1. /\ TypeOK /\ Stored \subseteq Logs /\ (\A l \in Stored : rows[l] \in BOOLEAN)
  BY Types DEF IInv
<1>2. /\ export' \in ExportType /\ export'.at = "payloads" /\ export'.got = <<>>
      /\ ~ export'.failed /\ export'.whole = Whole
      /\ \A i \in 1..Len(t) : t[i].log \in Stored /\ t[i].has = rows[t[i].log] /\ t[i].log \in export'.near
      /\ \A i, j \in 1..Len(t) : t[i].log = t[j].log => i = j
      /\ Len(t) > ExportMaxRows \/ \A l \in export'.due : \E i \in 1..Len(t) : l = t[i].log
      /\ UNCHANGED exportVars
  BY <1>0, <1>1, ListIs, Zenon
<1>3. UNCHANGED <<now, payloads, stamp, recorder, overtaken>>
  BY <1>2 DEF exportVars, recordVars
<1>4. t \in Seq(Entries) /\ Len(t) \in Nat
  BY <1>0, <1>2 DEF ExportType
<1>5. Len(export'.got) = 0 /\ export'.got \in Seq(Results)
  BY <1>2, EmptySeq
<1>6. TypeOK' /\ RecordsOK' /\ CleanerOK'
  BY <1>2, TablesKept
<1>7. PayloadsOK'
  <2>1. \A l \in Whole : recorder[l] = "ended" /\ l \in payloads
    BY DEF Whole
  <2>2. ASSUME NEW i \in 1..Len(t), t[i].log \in Whole \ overtaken
        PROVE  t[i].has
    <3>1. t[i].log \in Stored /\ t[i].has = rows[t[i].log] /\ t[i].log \in Logs
      BY <1>1, <1>2
    <3>2. rows[t[i].log]
      BY <2>1, <2>2, <3>1 DEF IInv, RecordsOK
    <3> QED
      BY <3>1, <3>2
  <2>3. \A l \in export'.whole : recorder'[l] = "ended" /\ (Recent(l)' => l \in payloads')
    BY <1>2, <1>3, <2>1
  <2>4. \A i \in 1..Len(export'.todo) :
          export'.todo[i].log \in export'.whole \ overtaken' => export'.todo[i].has
    BY <1>0, <1>2, <1>3, <2>2
  <2>5. \A i \in 1..Len(export'.got) : FALSE
    BY <1>5
  <2> QED
    BY <1>5, <2>3, <2>4, <2>5 DEF PayloadsOK
<1>8. Count' = Len(t) /\ \A i \in 1..Len(t) : Listed(i)' = t[i].log
  <2>1. Count' = Len(export'.got) + Len(t)
    BY <1>0, Zenon DEF Count
  <2>2. Count' = Len(t)
    BY <1>4, <1>5, <2>1
  <2>3. ASSUME NEW i \in 1..Len(t)
        PROVE  Listed(i)' = t[i].log
    <3>1. Listed(i)' = IF i <= Len(export'.got) THEN export'.got[i].log ELSE t[i - Len(export'.got)].log
      BY <1>0, Zenon DEF Listed
    <3>2. ~ (i <= Len(export'.got)) /\ i - Len(export'.got) = i
      BY <1>4, <1>5
    <3> QED
      BY <3>1, <3>2
  <2> QED
    BY <2>2, <2>3
<1>9. ListingOK'
  <2>1. /\ ~ export'.failed
        /\ \A i, j \in 1..Count' : Listed(i)' = Listed(j)' => i = j
        /\ \A i \in 1..Count' : Listed(i)' \in export'.near
        /\ Count' > ExportMaxRows \/ \A l \in export'.due : \E i \in 1..Count' : l = Listed(i)'
    BY <1>2, <1>8
  <2> QED
    BY <2>1, Zenon DEF ListingOK
<1>10. ExportComplete'
  BY <1>2 DEF ExportComplete
<1> QED
  BY <1>6, <1>7, <1>9, <1>10 DEF IInv

LEMMA ListFailsKeeps ==
  ASSUME IInv, ListFails
  PROVE  IInv'
<1>1. PICK from \in Starts, to \in Ends :
        export' = [NoExport EXCEPT !.at = "answered", !.failed = TRUE, !.due = Due(from, to)]
  BY DEF ListFails
<1>2. Due(from, to) \in SUBSET Logs
  BY RangeIs DEF IInv
<1>3. /\ export' \in ExportType /\ export'.at = "answered" /\ export'.failed /\ export'.got = <<>>
  <2> DEFINE due == Due(from, to)
  <2> HIDE DEF due
  <2>1. due \in SUBSET Logs /\ export' = [NoExport EXCEPT !.at = "answered", !.failed = TRUE, !.due = due]
    BY <1>1, <1>2 DEF due
  <2> QED
    BY <2>1, FailedIs, Zenon
<1>4. UNCHANGED exportVars
  BY DEF ListFails, exportVars
<1>5. TypeOK' /\ RecordsOK' /\ CleanerOK'
  BY <1>3, <1>4, TablesKept
<1>6. PayloadsOK' /\ ListingOK'
  BY <1>3 DEF PayloadsOK, ListingOK
<1>7. ExportComplete'
  <2>1. PICK e : e = <<>>
    OBVIOUS
  <2>2. e \in Seq(Logs) /\ Len(e) = 0 /\ DOMAIN e = {}
    BY <2>1, EmptySeq, LenProperties
  <2>3. Range(e) = {}
    BY <2>2 DEF Range
  <2>4. Cardinality({}) = 0
    BY FS_EmptySet
  <2>5. export'.got = e
    BY <1>3, <2>1, Zenon
  <2> QED
    BY <1>3, <2>2, <2>3, <2>4, <2>5 DEF ExportComplete
<1> QED
  BY <1>5, <1>6, <1>7 DEF IInv

LEMMA GetPayloadKeeps ==
  ASSUME IInv, LookUp
  PROVE  IInv'
<1>0. PICK g, t, g2, t2 : g = export.got /\ t = export.todo /\ g2 = export'.got /\ t2 = export'.todo
  OBVIOUS
<1>1. TypeOK /\ PayloadsOK /\ ListingOK
  BY DEF IInv
<1>2. /\ export.at = "payloads" /\ g \in Seq(Results) /\ t \in Seq(Entries) /\ Len(t) > 0
      /\ Len(g) \in Nat /\ Len(t) \in Nat
      /\ export' \in ExportType /\ export'.at = "payloads"
      /\ export'.due = export.due /\ export'.near = export.near
      /\ export'.failed = export.failed /\ export'.whole \subseteq export.whole
      /\ g2 \in Seq(Results) /\ Len(g2) = Len(g) + 1
      /\ \A i \in 1..Len(g) : g2[i] = g[i]
      /\ g2[Len(g) + 1].log = t[1].log
      /\ t[1].log \in export'.whole => g2[Len(g) + 1].status = PayloadStatus(t[1])
      /\ Len(t2) = Len(t) - 1
      /\ \A i \in 1..(Len(t) - 1) : t2[i] = t[i + 1]
      /\ UNCHANGED exportVars
  BY <1>0, <1>1, GetPayloadIs, Zenon
<1>3. UNCHANGED <<now, payloads, stamp, recorder, overtaken>>
  BY <1>2 DEF exportVars, recordVars
<1>4. TypeOK' /\ RecordsOK' /\ CleanerOK'
  BY <1>2, TablesKept
<1>5. /\ \A l \in export.whole : recorder[l] = "ended" /\ (Recent(l) => l \in payloads)
      /\ \A i \in 1..Len(t) : t[i].log \in export.whole \ overtaken => t[i].has
      /\ \A i \in 1..Len(g) :
           g[i].log \in export.whole \ overtaken /\ Recent(g[i].log) => g[i].status = "available"
  BY <1>0, <1>1, <1>2, Zenon DEF PayloadsOK
<1>6. ASSUME NEW i \in 1..Len(g2), g2[i].log \in export'.whole \ overtaken, Recent(g2[i].log)
      PROVE  g2[i].status = "available"
  <2>1. CASE i \in 1..Len(g)
    <3>1. g2[i] = g[i]
      BY <1>2, <2>1
    <3> QED
      BY <1>2, <1>5, <1>6, <2>1, <3>1
  <2>2. CASE i = Len(g) + 1
    <3>1. g2[i].log = t[1].log /\ g2[i].status = PayloadStatus(t[1])
      BY <1>2, <1>6, <2>2
    <3>2. 1 \in 1..Len(t)
      BY <1>2
    <3>3. t[1].has /\ t[1].log \in payloads
      BY <1>2, <1>5, <1>6, <3>1, <3>2
    <3> QED
      BY <3>1, <3>3 DEF PayloadStatus
  <2> QED
    BY <1>2, <2>1, <2>2
<1>7. PayloadsOK'
  <2>1. \A l \in export'.whole : recorder'[l] = "ended" /\ (Recent(l)' => l \in payloads')
    <3>1. \A l : Recent(l)' <=> Recent(l)
      BY <1>3 DEF Recent, Second
    <3> QED
      BY <1>2, <1>3, <1>5, <3>1
  <2>2. ASSUME NEW i \in 1..Len(t2), t2[i].log \in export.whole \ overtaken
        PROVE  t2[i].has
    <3>1. i \in 1..(Len(t) - 1) /\ i + 1 \in 1..Len(t)
      BY <1>2
    <3>2. t2[i] = t[i + 1]
      BY <1>2, <3>1
    <3> QED
      BY <1>5, <2>2, <3>1, <3>2
  <2>3. \A l : Recent(l)' <=> Recent(l)
    BY <1>3 DEF Recent, Second
  <2>4. \A i \in 1..Len(g2) :
          g2[i].log \in export'.whole \ overtaken' /\ Recent(g2[i].log)' => g2[i].status = "available"
    BY <1>2, <1>3, <1>6, <2>3
  <2>5. \A i \in 1..Len(t2) : t2[i].log \in export'.whole \ overtaken' => t2[i].has
    BY <1>2, <1>3, <2>2
  <2> QED
    BY <1>0, <1>2, <2>1, <2>4, <2>5, Zenon DEF PayloadsOK
<1>8. ListingOK'
  <2>1. /\ Count' = Count /\ Count \in Nat
        /\ \A n \in 1..Count : Listed(n)' = Listed(n)
    BY <1>1, GetPayloadLists
  <2>2. /\ ~ export.failed
        /\ \A i, j \in 1..Count : Listed(i) = Listed(j) => i = j
        /\ \A i \in 1..Count : Listed(i) \in export.near
        /\ Count > ExportMaxRows \/ \A l \in export.due : \E i \in 1..Count : l = Listed(i)
    BY <1>1, <1>2, Zenon DEF ListingOK
  <2>3. /\ ~ export'.failed
        /\ \A i, j \in 1..Count' : Listed(i)' = Listed(j)' => i = j
        /\ \A i \in 1..Count' : Listed(i)' \in export'.near
        /\ Count' > ExportMaxRows \/ \A l \in export'.due : \E i \in 1..Count' : l = Listed(i)'
    BY <1>2, <2>1, <2>2
  <2> QED
    BY <2>3, Zenon DEF ListingOK
<1>9. ExportComplete'
  BY <1>2 DEF ExportComplete
<1> QED
  BY <1>4, <1>7, <1>8, <1>9 DEF IInv

LEMMA AnswerKeeps ==
  ASSUME IInv, Answer
  PROVE  IInv'
<1>1. /\ export' \in ExportType /\ export'.at \in {"answered", "refused"} /\ UNCHANGED exportVars
      /\ ExportComplete'
  BY AnswerIs DEF IInv
<1>2. TypeOK' /\ RecordsOK' /\ CleanerOK'
  BY <1>1, TablesKept
<1>3. PayloadsOK' /\ ListingOK'
  BY <1>1 DEF PayloadsOK, ListingOK
<1> QED
  BY <1>1, <1>2, <1>3 DEF IInv

LEMMA ExportDoneKeeps ==
  ASSUME IInv, ExportDone
  PROVE  IInv'
<1>1. export' \in ExportType /\ export'.at = "idle"
  BY NoExportIs DEF ExportDone
<1>2. UNCHANGED exportVars
  BY DEF ExportDone, exportVars
<1>3. TypeOK' /\ RecordsOK' /\ CleanerOK'
  BY <1>1, <1>2, TablesKept
<1>4. PayloadsOK' /\ ListingOK' /\ ExportComplete'
  BY <1>1 DEF PayloadsOK, ListingOK, ExportComplete
<1> QED
  BY <1>3, <1>4 DEF IInv

(***************************************************************************)
(* The theorems.                                                           *)
(***************************************************************************)

LEMMA InvInit == Init => IInv
<1> SUFFICES ASSUME Init PROVE IInv
  OBVIOUS
<1>1. export.at = "idle"
  BY NoExportIs DEF Init
<1>2. Stored = {}
  BY DEF Init, Stored
<1>3. RecordsOK
  BY <1>2 DEF RecordsOK
<1>4. CleanerOK
  BY DEF Init, CleanerOK, NoCleanup
<1>5. PayloadsOK /\ ListingOK /\ ExportComplete
  BY <1>1 DEF PayloadsOK, ListingOK, ExportComplete
<1> QED
  BY TypeInit, <1>3, <1>4, <1>5 DEF IInv

LEMMA InvNext == IInv /\ [Next]_vars => IInv'
<1> SUFFICES ASSUME IInv, [Next]_vars PROVE IInv'
  OBVIOUS
<1>1. CASE Tick
  BY <1>1, TickKeeps
<1>2. ASSUME NEW l \in Logs,
             RecordAccess(l) \/ InsertLog(l) \/ InsertPayload(l) \/ InsertFails(l)
      PROVE  IInv'
  BY <1>2, RecordAccessKeeps, InsertLogKeeps, InsertPayloadKeeps
<1>3. CASE CleanupOldPayloads \/ CleanupFails
  BY <1>3, CleanupKeeps
<1>4. CASE DeleteOldPayloads
  BY <1>4, DeleteOldPayloadsKeeps
<1>5. CASE MarkWithoutPayload
  BY <1>5, MarkWithoutPayloadKeeps
<1>6. CASE List
  BY <1>6, ListKeeps
<1>7. CASE ListFails
  BY <1>7, ListFailsKeeps
<1>8. CASE GetPayload \/ GetPayloadFails
  BY <1>8, GetPayloadKeeps DEF LookUp
<1>9. CASE Answer
  BY <1>9, AnswerKeeps
<1>10. CASE ExportDone
  BY <1>10, ExportDoneKeeps
<1>11. CASE Crash
  BY <1>11, CrashKeeps
<1>12. CASE UNCHANGED vars
  <2>1. UNCHANGED exportVars /\ export' = export
    BY <1>12 DEF vars, exportVars, recordVars
  <2>2. UNCHANGED <<now, payloads, stamp, recorder, overtaken>>
    BY <1>12 DEF vars
  <2>3. TypeOK /\ export \in ExportType /\ now \in Int
    BY Types DEF IInv
  <2>4. TypeOK' /\ RecordsOK' /\ CleanerOK'
    BY <2>1, <2>3, TablesKept
  <2>5. PayloadsOK'
    BY <2>1, <2>2, <2>3, PayloadsKept DEF IInv
  <2>6. ListingOK' /\ ExportComplete'
    BY <2>1, ListingKept DEF IInv
  <2> QED
    BY <2>4, <2>5, <2>6 DEF IInv
<1> QED
  BY <1>1, <1>2, <1>3, <1>4, <1>5, <1>6, <1>7, <1>8, <1>9, <1>10, <1>11, <1>12 DEF Next

\* The access log never leaves the states that the invariant describes: what a log, the cleanup
\* and an export have done between their statements fits the tables.
THEOREM Invariance == Spec => []IInv
BY InvInit, InvNext, PTL DEF Spec

\* The tables, a log on its way into them, the cleanup and an export keep their types, over
\* crashes between any two statements (Insert, DeleteOldPayloads).
THEOREM TypeCorrect == Spec => []TypeOK
<1>1. IInv => TypeOK
  BY DEF IInv
<1> QED
  BY <1>1, Invariance, PTL

\* An export gives the payload of every log that is younger than the retention, that had
\* both its rows when it was listed and whose payload is read, whatever cleanups delete
\* meanwhile (DeleteOldPayloads and GetPayload of the access log store).
THEOREM RecentPayloadsGiven == Spec => []RecentHavePayload
<1>1. IInv => RecentHavePayload
  <2> SUFFICES ASSUME IInv, export.at = "payloads", NEW i \in DOMAIN export.got,
                      export.got[i].log \in export.whole, export.got[i].log \notin overtaken,
                      Second(stamp[export.got[i].log]) + Second(Retention) > Second(now)
               PROVE  export.got[i].status = "available"
    BY Zenon DEF RecentHavePayload
  <2>1. export.got \in Seq(Results)
    BY DEF IInv, PayloadsOK
  <2>2. i \in 1..Len(export.got)
    BY <2>1
  <2>3. Recent(export.got[i].log)
    BY DEF Recent
  <2> QED
    BY <2>2, <2>3 DEF IInv, PayloadsOK
<1> QED
  BY <1>1, Invariance, PTL

\* An answer to an export has every log of its range once and no other, or none when the
\* query failed; one that would be longer than the limit is refused (listForExport and its
\* callers).
THEOREM ExportsComplete == Spec => []ExportComplete
<1>1. IInv => ExportComplete
  BY DEF IInv
<1> QED
  BY <1>1, Invariance, PTL

(***************************************************************************)
(* The dashboard.  Its clock counts hours.                                 *)
(***************************************************************************)

\* The hours of the last day, and those to come.
InView(t) == t \in 0..LastHour /\ t > hour - HoursPerDay

\* The counter has dates up to that of the clock, and while someone holds its mutex none after
\* the date that the holder read.  The counts of the hours in view are true.
HoursOK ==
  /\ request \in [Requests -> {"new", "served", "hour", "counted", "gone"}]
  /\ hour \in 0..LastHour
  /\ truth \in [0..LastHour -> Nat]
  /\ \A r \in Requests : request[r] = "hour" => lock = r
  /\ lock # None => today \in 1..Date(hour)
  /\ \A d \in DOMAIN counts :
       /\ d \in 1..Date(hour)
       /\ lock # None => d <= today
       /\ counts[d] \in [Hours -> Nat]
  /\ \A t \in 0..LastHour : InView(t) => CountOf(Date(t), Hour(t)) = truth[t]

Span == [most : Nat, met : Nat]

\* What the limiter keeps is between what was in progress and what requests found, since the
\* last sample and, once a request came, today.
LimiterOK ==
  /\ limiter \in [activeConcurrency : Nat, peakToday : Nat, peakDate : Int, peakInterval : Nat]
  /\ reach \in [{"interval", "day"} -> Span]
  /\ limiter.peakDate <= Date(hour)
  /\ reach["interval"].met = limiter.peakInterval
  /\ limiter.peakInterval <= reach["interval"].most
  /\ limiter.activeConcurrency <= reach["interval"].most
  /\ limiter.activeConcurrency <= reach["day"].most
  /\ IF limiter.peakDate = Date(hour)
     THEN /\ reach["day"].met <= limiter.peakToday
          /\ limiter.activeConcurrency <= limiter.peakToday
          /\ limiter.peakToday <= reach["day"].most
     ELSE reach["day"].met = 0

Told(x, t) == t.met <= x /\ x <= t.most

\* The samples that are in the ring or were.
Kept == Len(told) - (IF sampled = None THEN 0 ELSE 1)

\* The ring has the last samples; one that was taken and is not stored yet is the last.
RingOK ==
  /\ told \in Seq(Span) /\ slots \in Seq(Nat) /\ sampled \in Nat \cup {None}
  /\ Kept >= 0
  /\ Len(slots) = (IF Kept < SlotCount THEN Kept ELSE SlotCount)
  /\ \A i \in 1..Len(slots) : Told(slots[i], told[Kept - Len(slots) + i])
  /\ sampled # None => Told(sampled, told[Len(told)])

DashInv == HoursOK /\ LimiterOK /\ RingOK

(***************************************************************************)
(* Dates and hours.                                                        *)
(***************************************************************************)

\* A time is a number of days and an hour.
LEMMA Division ==
  ASSUME NEW h \in Nat \ {0}, NEW t \in Int
  PROVE  /\ t \div h \in Int /\ t % h \in 0..(h - 1)
         /\ h * (t \div h) \in Int /\ t = h * (t \div h) + (t % h)
OBVIOUS

\* In one way only.
LEMMA DivisionUnique ==
  ASSUME NEW h \in Nat \ {0}, NEW q \in Int, NEW r \in 0..(h - 1), NEW p \in Int,
         NEW s \in 0..(h - 1), h * q + r = h * p + s
  PROVE  q = p /\ r = s
<1>1. ASSUME NEW x \in Int, NEW y \in Int, x > y
      PROVE  h * x >= h * y + h
  <2>1. PICK d \in Nat : x = (y + 1) + d
    <3>1. x - (y + 1) \in Nat /\ x = (y + 1) + (x - (y + 1))
      BY <1>1
    <3> QED
      BY <3>1
  <2>2. h * x = h * y + h + h * d /\ h * d \in Nat /\ h * y \in Int
    BY <2>1
  <2> QED
    BY <2>2
<1>2. h * q \in Int /\ h * p \in Int
  OBVIOUS
<1>3. ~ (q > p)
  BY <1>1, <1>2
<1>4. ~ (p > q)
  BY <1>1, <1>2
<1> QED
  BY <1>2, <1>3, <1>4

LEMMA DateAndHour ==
  ASSUME HoursPerDay \in Nat \ {0}, NEW t \in Int
  PROVE  /\ Date(t) \in Int /\ Hour(t) \in Hours /\ Hour(t) \in Int
         /\ 0 <= Hour(t) /\ Hour(t) < HoursPerDay
         /\ HoursPerDay * (Date(t) - 1) \in Int
         /\ t = HoursPerDay * (Date(t) - 1) + Hour(t)
<1>1. /\ t \div HoursPerDay \in Int /\ t % HoursPerDay \in 0..(HoursPerDay - 1)
      /\ HoursPerDay * (t \div HoursPerDay) \in Int
      /\ t = HoursPerDay * (t \div HoursPerDay) + (t % HoursPerDay)
  BY Division
<1>2. Date(t) - 1 = t \div HoursPerDay
  BY <1>1 DEF Date
<1> QED
  BY <1>1, <1>2 DEF Date, Hour, Hours

LEMMA DateAndHourAre ==
  ASSUME HoursPerDay \in Nat \ {0}, NEW t \in Int, NEW d \in Int, NEW h \in Hours,
         t = HoursPerDay * (d - 1) + h
  PROVE  Date(t) = d /\ Hour(t) = h
<1>1. /\ Date(t) \in Int /\ Hour(t) \in 0..(HoursPerDay - 1) /\ h \in 0..(HoursPerDay - 1)
      /\ t = HoursPerDay * (Date(t) - 1) + Hour(t)
  BY DateAndHour DEF Hours
<1>2. Date(t) - 1 \in Int /\ d - 1 \in Int
  BY <1>1
<1>3. Date(t) - 1 = d - 1 /\ Hour(t) = h
  BY <1>1, <1>2, DivisionUnique
<1> QED
  BY <1>1, <1>3

\* The dates of two times are as far apart as the times, to the day.
LEMMA DatesApart ==
  ASSUME HoursPerDay \in Nat \ {0}, NEW s \in Int, NEW t \in Int
  PROVE  /\ s <= t => Date(s) <= Date(t)
         /\ s + HoursPerDay > t => Date(t) <= Date(s) + 1
         /\ 0 <= t => 1 <= Date(t)
         /\ s + HoursPerDay > t /\ Hour(s) = Hour(t) /\ Date(s) <= Date(t) => s = t
<1> DEFINE H == HoursPerDay
           a == Date(s) - 1
           b == Date(t) - 1
           i == Hour(s)
           j == Hour(t)
<1>1. /\ a \in Int /\ b \in Int /\ i \in 0..(H - 1) /\ j \in 0..(H - 1) /\ H \in Nat \ {0}
      /\ H * a \in Int /\ H * b \in Int
      /\ s = H * a + i /\ t = H * b + j
      /\ Date(s) = a + 1 /\ Date(t) = b + 1
  <2>1. /\ Date(s) \in Int /\ i \in 0..(H - 1) /\ H * a \in Int /\ s = H * a + i
    BY DateAndHour, Zenon DEF Hours
  <2>2. /\ Date(t) \in Int /\ j \in 0..(H - 1) /\ H * b \in Int /\ t = H * b + j
    BY DateAndHour, Zenon DEF Hours
  <2>3. a \in Int /\ b \in Int /\ Date(s) = a + 1 /\ Date(t) = b + 1
    BY <2>1, <2>2
  <2> QED
    BY <2>1, <2>2, <2>3, Zenon
<1> HIDE DEF a, b, i, j, H
<1>2. ASSUME NEW x \in Int, NEW y \in Int, x > y
      PROVE  H * x >= H * y + H /\ H * x \in Int /\ H * y \in Int
  <2>1. PICK d \in Nat : x = (y + 1) + d
    <3>1. x - (y + 1) \in Nat /\ x = (y + 1) + (x - (y + 1))
      BY <1>2
    <3> QED
      BY <3>1
  <2>2. H * x = H * y + H + H * d /\ H * d \in Nat /\ H * y \in Int /\ H * x \in Int
    BY <1>1, <2>1
  <2> QED
    BY <1>1, <2>2
<1>3. s <= t => a <= b
  <2> SUFFICES ASSUME a > b PROVE s > t
    BY <1>1
  <2>1. H * a >= H * b + H
    BY <1>1, <1>2
  <2> QED
    BY <1>1, <2>1
<1>4. s + H > t => b <= a + 1
  <2> SUFFICES ASSUME b > a + 1 PROVE s + H <= t
    BY <1>1
  <2>1. H * b >= H * (a + 1) + H /\ H * (a + 1) >= H * a + H /\ H * (a + 1) \in Int
    BY <1>1, <1>2
  <2> QED
    BY <1>1, <2>1
<1>5. 0 <= t => 0 <= b
  <2> SUFFICES ASSUME 0 > b PROVE t < 0
    BY <1>1
  <2>1. H * 0 >= H * b + H /\ H * 0 = 0
    BY <1>1, <1>2
  <2> QED
    BY <1>1, <2>1
<1>6. s + H > t /\ i = j /\ a <= b => s = t
  <2> SUFFICES ASSUME s + H > t, i = j, a < b PROVE FALSE
    BY <1>1
  <2>1. H * b >= H * a + H
    BY <1>1, <1>2
  <2> QED
    BY <1>1, <2>1
<1> QED
  BY <1>1, <1>3, <1>4, <1>5, <1>6 DEF H, i, j

(***************************************************************************)
(* The counts of the hours.                                                *)
(***************************************************************************)

LEMMA ClockTypes ==
  ASSUME HoursOK
  PROVE  /\ HoursPerDay \in Nat \ {0} /\ LastHour \in Nat
         /\ hour \in Int /\ 0 <= hour /\ hour <= LastHour
         /\ Date(hour) \in Int /\ Hour(hour) \in Hours
         /\ 1 <= Date(hour)
<1>1. HoursPerDay \in Nat \ {0} /\ LastHour \in Nat
  BY ClockAssumption
<1>2. hour \in Int /\ 0 <= hour /\ hour <= LastHour
  BY <1>1 DEF HoursOK
<1>3. Date(hour) \in Int /\ Hour(hour) \in Hours
  BY <1>1, <1>2, DateAndHour
<1>4. 1 <= Date(hour)
  BY <1>1, <1>2, DatesApart
<1> QED
  BY <1>1, <1>2, <1>3, <1>4

\* A step that leaves the counter alone, and the requests that are in it.
LEMMA HoursKept ==
  ASSUME HoursOK, UNCHANGED <<hour, counts, lock, today, truth>>,
         request' \in [Requests -> {"new", "served", "hour", "counted", "gone"}],
         \A r \in Requests : request'[r] = "hour" => request[r] = "hour"
  PROVE  HoursOK'
BY DEF HoursOK, InView, CountOf, Date, Hour, Hours

LEMMA TickHours ==
  ASSUME HoursOK, HourPasses
  PROVE  HoursOK'
<1>1. /\ HoursPerDay \in Nat \ {0} /\ LastHour \in Nat
      /\ hour \in Int /\ 0 <= hour /\ Date(hour) \in Int
  BY ClockTypes
<1>2. hour' = hour + 1 /\ hour < LastHour /\ UNCHANGED <<request, counts, lock, today, truth>>
  BY DEF HourPasses, hourVars
<1>3. hour' \in 0..LastHour /\ hour' \in Int /\ hour <= hour'
  BY <1>1, <1>2
<1>4. Date(hour') \in Int /\ Date(hour) <= Date(hour')
  <2>1. Date(hour') \in Int
    BY <1>1, <1>3, DateAndHour
  <2> QED
    BY <1>1, <1>3, <2>1, DatesApart
<1>5. \A t \in 0..LastHour : InView(t)' => InView(t)
  BY <1>1, <1>2 DEF InView
<1>6. \A d, h : CountOf(d, h)' = CountOf(d, h)
  BY <1>2 DEF CountOf
<1>7. \A t \in 0..LastHour : InView(t)' => CountOf(Date(t), Hour(t))' = truth'[t]
  <2>1. \A t \in 0..LastHour : InView(t) => CountOf(Date(t), Hour(t)) = truth[t]
    BY DEF HoursOK
  <2> QED
    BY <1>2, <1>5, <1>6, <2>1 DEF Date, Hour
<1>8. \A d \in 1..Date(hour) : d \in 1..Date(hour')
  BY <1>1, <1>4
<1>9. Date(hour)' = Date(hour')
  BY DEF Date
<1>10. /\ lock' # None => today' \in 1..Date(hour')
       /\ \A d \in DOMAIN counts' :
            /\ d \in 1..Date(hour')
            /\ lock' # None => d <= today'
            /\ counts'[d] \in [Hours -> Nat]
  BY <1>2, <1>8 DEF HoursOK
<1>11. /\ request' \in [Requests -> {"new", "served", "hour", "counted", "gone"}]
       /\ truth' \in [0..LastHour -> Nat]
       /\ \A r \in Requests : request'[r] = "hour" => lock' = r
  BY <1>2 DEF HoursOK
<1> QED
  BY <1>3, <1>7, <1>9, <1>10, <1>11 DEF HoursOK, Hours

\* Who takes the mutex reads a date that no count is after.
LEMMA LockHours ==
  ASSUME HoursOK, lock = None, lock' \in Requests \cup {Cleanup},
         today' = Date(hour), UNCHANGED <<hour, counts, truth>>,
         request' \in [Requests -> {"new", "served", "hour", "counted", "gone"}],
         \A r \in Requests : request'[r] = "hour" => request[r] = "hour" \/ lock' = r
  PROVE  HoursOK'
<1>1. Date(hour) \in Int /\ 1 <= Date(hour)
  BY ClockTypes
<1>2. lock' # None /\ \A r \in Requests : r # None
  BY NoneAssumption
<1>3. \A r \in Requests : request[r] # "hour"
  BY <1>2 DEF HoursOK
<1>4. \A r \in Requests : request'[r] = "hour" => lock' = r
  BY <1>3
<1>5. today' \in 1..Date(hour) /\ \A d \in DOMAIN counts : d \in 1..Date(hour) /\ d <= today'
  BY <1>1 DEF HoursOK
<1>6. /\ Date(hour)' = Date(hour)
      /\ \A t \in 0..LastHour : InView(t)' => CountOf(Date(t), Hour(t))' = truth'[t]
      /\ hour' \in 0..LastHour /\ truth' \in [0..LastHour -> Nat]
      /\ \A d \in DOMAIN counts' : counts'[d] \in [Hours -> Nat]
  BY DEF HoursOK, InView, CountOf, Date, Hour
<1> QED
  BY <1>4, <1>5, <1>6 DEF HoursOK, Hours

\* A request whose date was read before a midnight and whose hour after it counts in an
\* hour that is in view no more.
LEMMA IncrementHours ==
  ASSUME HoursOK, NEW r \in Requests, Increment(r)
  PROVE  HoursOK'
<1>1. /\ HoursPerDay \in Nat \ {0} /\ LastHour \in Nat
      /\ hour \in Int /\ hour \in 0..LastHour
      /\ Date(hour) \in Int /\ Hour(hour) \in Hours
  BY ClockTypes DEF HoursOK
<1>2. /\ request[r] = "hour" /\ UNCHANGED hour
      /\ counts' = [d \in DOMAIN counts \cup {today} |->
                     [h \in Hours |-> CountOf(d, h)
                        + (IF d = today /\ h = Hour(hour) THEN 1 ELSE 0)]]
      /\ truth' = IF today = Date(hour) THEN [truth EXCEPT ![hour] = @ + 1] ELSE truth
      /\ lock' = None /\ request' = [request EXCEPT ![r] = "counted"]
  BY DEF Increment
<1>3. lock = r /\ lock # None /\ today \in 1..Date(hour)
  BY <1>2, NoneAssumption DEF HoursOK
<1>4. \A d \in DOMAIN counts : counts[d] \in [Hours -> Nat]
  BY DEF HoursOK
<1>5. ASSUME NEW d, NEW h \in Hours
      PROVE  /\ CountOf(d, h) \in Nat
             /\ CountOf(d, h)' = CountOf(d, h)
                  + (IF d = today /\ h = Hour(hour) THEN 1 ELSE 0)
  <2>1. CountOf(d, h) \in Nat
    BY <1>4 DEF CountOf
  <2>2. CASE d \in DOMAIN counts \cup {today}
    <3>1. CountOf(d, h)' = counts'[d][h] /\ d \in DOMAIN counts'
      BY <1>2, <2>2 DEF CountOf
    <3>2. counts'[d] = [g \in Hours |-> CountOf(d, g)
                          + (IF d = today /\ g = Hour(hour) THEN 1 ELSE 0)]
      BY <1>2, <2>2
    <3> QED
      BY <2>1, <3>1, <3>2
  <2>3. CASE d \notin DOMAIN counts \cup {today}
    <3>1. CountOf(d, h)' = 0 /\ CountOf(d, h) = 0
      BY <1>2, <2>3 DEF CountOf
    <3> QED
      BY <2>3, <3>1
  <2> QED
    BY <2>1, <2>2, <2>3
<1>6. ASSUME NEW t \in 0..LastHour, InView(t)'
      PROVE  CountOf(Date(t), Hour(t))' = truth'[t]
  <2>1. /\ t \in Int /\ InView(t) /\ hour < t + HoursPerDay
        /\ CountOf(Date(t), Hour(t)) = truth[t]
    BY <1>1, <1>2, <1>6 DEF InView, HoursOK
  <2>2. Date(t) \in Int /\ Hour(t) \in Hours
    BY <1>1, <2>1, DateAndHour
  <2>3. Date(t) = today /\ Hour(t) = Hour(hour) => t = hour
    <3>1. t + HoursPerDay > hour
      BY <1>1, <2>1
    <3>2. today <= Date(hour)
      BY <1>1, <1>3
    <3> QED
      BY <1>1, <2>1, <3>1, <3>2, DatesApart
  <2>4. CountOf(Date(t), Hour(t))' = truth[t]
          + (IF Date(t) = today /\ Hour(t) = Hour(hour) THEN 1 ELSE 0)
    BY <1>5, <2>1, <2>2 DEF Date, Hour
  <2>5. truth \in [0..LastHour -> Nat]
    BY DEF HoursOK
  <2>6. truth'[t] = truth[t] + (IF today = Date(hour) /\ t = hour THEN 1 ELSE 0)
    BY <1>2, <2>5
  <2>7. (Date(t) = today /\ Hour(t) = Hour(hour)) <=> (today = Date(hour) /\ t = hour)
    BY <2>3
  <2> QED
    BY <2>4, <2>6, <2>7
<1>7. \A d \in DOMAIN counts' : d \in 1..Date(hour) /\ counts'[d] \in [Hours -> Nat]
  <2>1. \A d \in DOMAIN counts' : d \in DOMAIN counts \cup {today}
    BY <1>2
  <2>2. \A d \in DOMAIN counts' : d \in 1..Date(hour)
    BY <1>3, <2>1 DEF HoursOK
  <2>3. ASSUME NEW d \in DOMAIN counts'
        PROVE  counts'[d] \in [Hours -> Nat]
    <3>1. counts'[d] = [g \in Hours |-> CountOf(d, g)
                          + (IF d = today /\ g = Hour(hour) THEN 1 ELSE 0)]
      BY <1>2, <2>1
    <3> QED
      BY <1>5, <3>1
  <2> QED
    BY <2>2, <2>3
<1>8. truth' \in [0..LastHour -> Nat]
  BY <1>1, <1>2 DEF HoursOK
<1>9. /\ request' \in [Requests -> {"new", "served", "hour", "counted", "gone"}]
      /\ \A q \in Requests : request'[q] # "hour"
  <2>1. \A q \in Requests : q # r => request[q] # "hour"
    BY <1>3 DEF HoursOK
  <2> QED
    BY <1>2, <2>1 DEF HoursOK
<1>10. Date(hour)' = Date(hour) /\ hour' \in 0..LastHour
  BY <1>1, <1>2 DEF Date
<1> QED
  BY <1>2, <1>6, <1>7, <1>8, <1>9, <1>10 DEF HoursOK, Hours

\* The cleanup keeps the two dates that are in view, also when midnight passed it.
LEMMA DropDatesHours ==
  ASSUME HoursOK, DropDates
  PROVE  HoursOK'
<1>1. /\ HoursPerDay \in Nat \ {0} /\ LastHour \in Nat
      /\ hour \in Int /\ hour \in 0..LastHour /\ Date(hour) \in Int
  BY ClockTypes DEF HoursOK
<1>2. /\ lock = Cleanup /\ lock' = None /\ UNCHANGED <<hour, request, truth>>
      /\ counts' = [d \in {e \in DOMAIN counts : ~ Expired(e)} |-> counts[d]]
  BY DEF DropDates
<1>3. lock # None /\ today \in 1..Date(hour) /\ \A r \in Requests : request[r] # "hour"
  BY <1>2, NoneAssumption DEF HoursOK
<1>4. /\ \A d \in DOMAIN counts' : d \in DOMAIN counts /\ counts'[d] = counts[d]
      /\ \A d \in DOMAIN counts : ~ Expired(d) => d \in DOMAIN counts'
  BY <1>2
<1>5. ASSUME NEW t \in 0..LastHour, InView(t)'
      PROVE  CountOf(Date(t), Hour(t))' = truth'[t]
  <2>1. /\ t \in Int /\ t + HoursPerDay > hour
        /\ CountOf(Date(t), Hour(t)) = truth[t]
    BY <1>1, <1>2, <1>5 DEF InView, HoursOK
  <2>2. Date(t) \in Int /\ Date(hour) <= Date(t) + 1
    <3>1. Date(t) \in Int
      BY <1>1, <2>1, DateAndHour
    <3> QED
      BY <1>1, <2>1, <3>1, DatesApart
  <2>3. ASSUME Date(t) \in DOMAIN counts
        PROVE  ~ Expired(Date(t))
    <3>1. Date(t) <= today /\ today <= Date(hour)
      BY <1>1, <1>3, <2>3 DEF HoursOK
    <3> QED
      BY <1>1, <1>3, <2>2, <3>1 DEF Expired
  <2>4. CountOf(Date(t), Hour(t))' = CountOf(Date(t), Hour(t))
    BY <1>4, <2>3 DEF CountOf, Date, Hour
  <2> QED
    BY <1>2, <2>1, <2>4
<1>6. \A d \in DOMAIN counts' : d \in 1..Date(hour) /\ counts'[d] \in [Hours -> Nat]
  BY <1>4 DEF HoursOK
<1>7. Date(hour)' = Date(hour)
  BY <1>2 DEF Date
<1> QED
  BY <1>2, <1>3, <1>5, <1>6, <1>7 DEF HoursOK, Hours

LEMMA HoursInit ==
  ASSUME DashboardInit
  PROVE  HoursOK
<1>1. HoursPerDay \in Nat \ {0} /\ LastHour \in Nat
  BY ClockAssumption
<1>2. /\ hour = 0 /\ request = [r \in Requests |-> "new"] /\ counts = <<>> /\ lock = None
      /\ truth = [t \in 0..LastHour |-> 0]
  BY DEF DashboardInit
<1>3. \A d : d \notin DOMAIN counts
  BY <1>2
<1>4. \A d, h : CountOf(d, h) = 0
  BY <1>3 DEF CountOf
<1> QED
  BY <1>1, <1>2, <1>3, <1>4 DEF HoursOK

\* The view of the last day picks the date and the hour of each of its times.
LEMMA ViewPicks ==
  ASSUME HoursOK, NEW i \in Hours
  PROVE  LET t == hour - (HoursPerDay - 1) + i
         IN  GetLast24Hours(i) = IF t < 0 THEN 0 ELSE truth[t]
<1> DEFINE H == HoursPerDay
           n == Hour(hour)
           d == Date(hour)
           t == hour - (H - 1) + i
           k == (n - (H - 1) + i + H) % H
<1>1. /\ H \in Nat \ {0} /\ hour \in Int /\ 0 <= hour /\ hour <= LastHour /\ LastHour \in Nat
      /\ d \in Int /\ 1 <= d /\ i \in Int /\ 0 <= i /\ i <= H - 1
  BY ClockTypes DEF Hours
<1>2. /\ n \in Int /\ 0 <= n /\ n < H /\ H * (d - 1) \in Int /\ hour = H * (d - 1) + n
  BY <1>1, DateAndHour
<1>3. GetLast24Hours(i) = CountOf(IF i < H - 1 - n THEN d - 1 ELSE d, k)
  BY DEF GetLast24Hours, Yesterday
<1> HIDE DEF n, d, H, k
<1>4. t \in Int /\ t <= hour /\ t > hour - H
  BY <1>1
<1>5. t >= 0 => CountOf(Date(t), Hour(t)) = truth[t]
  <2> SUFFICES ASSUME t >= 0 PROVE CountOf(Date(t), Hour(t)) = truth[t]
    OBVIOUS
  <2>1. t \in 0..LastHour /\ InView(t)
    BY <1>1, <1>4 DEF InView, H
  <2> HIDE DEF t
  <2> QED
    BY <2>1 DEF HoursOK
<1>6. CASE i < H - 1 - n
  <2>1. k = n + 1 + i /\ k \in 0..(H - 1)
    <3>1. (n - (H - 1) + i + H) = n + 1 + i /\ n + 1 + i \in 0..(H - 1)
      BY <1>1, <1>2, <1>6
    <3>2. \A x \in 0..(H - 1) : x % H = x
      BY <1>1
    <3> QED
      BY <3>1, <3>2 DEF k
  <2>2. H * (d - 1) = H * (d - 2) + H /\ H * (d - 2) \in Int
    BY <1>1
  <2>3. t = H * (d - 2) + k
    BY <1>1, <1>2, <2>1, <2>2
  <2>4. CASE d = 1
    <3>1. t < 0
      <4>1. H * (d - 1) = 0
        BY <1>1, <2>4
      <4> QED
        BY <1>1, <1>2, <1>6, <4>1
    <3>2. d - 1 \notin DOMAIN counts
      BY <2>4 DEF HoursOK, d
    <3>3. CountOf(d - 1, k) = 0
      BY <3>2 DEF CountOf
    <3> QED
      BY <1>3, <1>6, <3>1, <3>3 DEF t, H
  <2>5. CASE d # 1
    <3>1. t >= 0
      <4>1. d - 2 \in Nat
        BY <1>1, <2>5
      <4>2. H * (d - 2) \in Nat
        BY <1>1, <4>1
      <4> QED
        BY <2>1, <2>3, <4>2
    <3>2. Date(t) = d - 1 /\ Hour(t) = k
      <4>1. t = H * ((d - 1) - 1) + k /\ d - 1 \in Int
        BY <1>1, <2>3
      <4>2. k \in Hours
        BY <2>1 DEF Hours, H
      <4> HIDE DEF t
      <4> QED
        BY <1>1, <1>4, <4>1, <4>2, DateAndHourAre DEF H
    <3> QED
      BY <1>3, <1>4, <1>5, <1>6, <3>1, <3>2 DEF t, H
  <2> QED
    BY <2>4, <2>5
<1>7. CASE ~ (i < H - 1 - n)
  <2>1. k = n + 1 + i - H /\ k \in 0..(H - 1)
    <3>1. /\ (n - (H - 1) + i + H) = H + (n + 1 + i - H)
          /\ n + 1 + i - H \in 0..(H - 1)
      BY <1>1, <1>2, <1>7
    <3>2. \A x \in 0..(H - 1) : (H + x) % H = x
      <4> SUFFICES ASSUME NEW x \in 0..(H - 1) PROVE (H + x) % H = x
        OBVIOUS
      <4>1. /\ (H + x) \div H \in Int /\ (H + x) % H \in 0..(H - 1)
            /\ H + x = H * ((H + x) \div H) + ((H + x) % H)
        <5>1. H \in Nat \ {0} /\ H + x \in Int
          BY <1>1
        <5> QED
          BY <5>1, Division, Zenon
      <4>2. H * 1 + x = H * ((H + x) \div H) + ((H + x) % H)
        BY <1>1, <4>1
      <4> QED
        BY <1>1, <4>1, <4>2, DivisionUnique
    <3> QED
      BY <3>1, <3>2 DEF k
  <2>2. t = H * (d - 1) + k /\ t >= 0
    <3>1. H * (d - 1) \in Nat
      BY <1>1
    <3> QED
      BY <1>1, <1>2, <2>1, <3>1
  <2>3. Date(t) = d /\ Hour(t) = k
    <3>1. k \in Hours
      BY <2>1 DEF Hours, H
    <3> HIDE DEF t
    <3> QED
      BY <1>1, <1>4, <2>2, <3>1, DateAndHourAre DEF H
  <2> QED
    BY <1>3, <1>4, <1>5, <1>7, <2>2, <2>3 DEF t, H
<1> QED
  BY <1>6, <1>7

(***************************************************************************)
(* The peaks.                                                              *)
(***************************************************************************)

LEMMA Larger ==
  ASSUME NEW a \in Nat, NEW b \in Nat
  PROVE  /\ AtLeast(a, b) \in Nat /\ a <= AtLeast(a, b) /\ b <= AtLeast(a, b)
         /\ \A c \in Nat : a <= c /\ b <= c => AtLeast(a, b) <= c
         /\ a = 0 => AtLeast(a, b) = b
BY DEF AtLeast

LEMMA LimiterTypes ==
  ASSUME LimiterOK
  PROVE  LET l == limiter
             s == reach["interval"]
             d == reach["day"]
         IN  /\ l.activeConcurrency \in Nat /\ l.peakToday \in Nat /\ l.peakDate \in Int /\ l.peakInterval \in Nat
             /\ s \in Span /\ d \in Span
             /\ s.most \in Nat /\ s.met \in Nat /\ d.most \in Nat /\ d.met \in Nat
BY DEF LimiterOK, Span

LEMMA LimiterKept ==
  ASSUME LimiterOK, UNCHANGED <<hour, limiter, reach>>
  PROVE  LimiterOK'
BY DEF LimiterOK, Date

\* At midnight nobody has come yet, and those in progress are the most of the new day.
LEMMA TickLimiter ==
  ASSUME HoursOK, LimiterOK, HourPasses
  PROVE  LimiterOK'
<1>1. /\ HoursPerDay \in Nat \ {0} /\ hour \in Int /\ hour' = hour + 1 /\ limiter' = limiter
      /\ reach' = IF Date(hour + 1) = Date(hour) THEN reach
                  ELSE [reach EXCEPT !["day"] = [most |-> limiter.activeConcurrency, met |-> 0]]
  BY ClockTypes DEF HourPasses
<1>2. /\ Date(hour) \in Int /\ Date(hour') \in Int /\ Date(hour)' = Date(hour')
      /\ Date(hour) <= Date(hour')
  <2>1. hour' \in Int /\ hour <= hour'
    BY <1>1
  <2>2. Date(hour) \in Int /\ Date(hour') \in Int
    BY <1>1, <2>1, DateAndHour
  <2>3. Date(hour) <= Date(hour')
    BY <1>1, <2>1, DatesApart
  <2>4. Date(hour)' = Date(hour')
    BY DEF Date
  <2> QED
    BY <2>2, <2>3, <2>4
<1>3. limiter.activeConcurrency \in Nat /\ limiter.peakDate \in Int
  BY LimiterTypes
<1>4. CASE Date(hour') = Date(hour)
  <2>1. reach' = reach
    BY <1>1, <1>4
  <2> QED
    BY <1>1, <1>2, <1>4, <2>1 DEF LimiterOK
<1>5. CASE Date(hour') # Date(hour)
  <2>1. reach' = [reach EXCEPT !["day"] = [most |-> limiter.activeConcurrency, met |-> 0]]
    BY <1>1, <1>5
  <2>2. reach' \in [{"interval", "day"} -> Span]
    BY <1>3, <2>1 DEF LimiterOK, Span
  <2>3. /\ reach'["interval"] = reach["interval"]
        /\ reach'["day"] = [most |-> limiter.activeConcurrency, met |-> 0]
    BY <2>1 DEF LimiterOK
  <2>4. limiter.peakDate <= Date(hour') /\ limiter.peakDate # Date(hour')
    BY <1>2, <1>3, <1>5 DEF LimiterOK
  <2>5. reach'["day"].most = limiter.activeConcurrency /\ reach'["day"].met = 0
    BY <2>3
  <2> QED
    BY <1>1, <1>2, <1>3, <2>2, <2>3, <2>4, <2>5 DEF LimiterOK
<1> QED
  BY <1>4, <1>5

LEMMA ArriveLimiter ==
  ASSUME HoursOK, LimiterOK, NEW r \in Requests, Arrive(r)
  PROVE  LimiterOK'
<1> DEFINE c == limiter.activeConcurrency + 1
           date == Date(hour)
           p == IF date = limiter.peakDate THEN limiter.peakToday ELSE 0
<1>1. /\ limiter.activeConcurrency \in Nat /\ limiter.peakToday \in Nat /\ limiter.peakDate \in Int
      /\ limiter.peakInterval \in Nat /\ c \in Nat /\ date \in Int /\ p \in Nat
      /\ reach["interval"].most \in Nat /\ reach["interval"].met \in Nat
      /\ reach["day"].most \in Nat /\ reach["day"].met \in Nat
  BY LimiterTypes, ClockTypes
<1>2. limiter' = [activeConcurrency |-> c, peakToday |-> AtLeast(p, c), peakDate |-> date,
                  peakInterval |-> AtLeast(limiter.peakInterval, c)]
  BY DEF Arrive, Acquire
<1>3. /\ reach' = [k \in {"interval", "day"} |->
                    [most |-> AtLeast(reach[k].most, c), met |-> AtLeast(reach[k].met, c)]]
      /\ hour' = hour
  BY DEF Arrive, Met
<1>4. /\ reach["interval"].met = limiter.peakInterval
      /\ limiter.peakInterval <= reach["interval"].most
      /\ IF limiter.peakDate = date
         THEN /\ reach["day"].met <= limiter.peakToday
              /\ limiter.peakToday <= reach["day"].most
         ELSE reach["day"].met = 0
  BY DEF LimiterOK
<1>5. Date(hour)' = date
  BY <1>3 DEF Date
<1> HIDE DEF c, date, p
<1>6. /\ AtLeast(p, c) \in Nat /\ c <= AtLeast(p, c) /\ p <= AtLeast(p, c)
      /\ \A n \in Nat : p <= n /\ c <= n => AtLeast(p, c) <= n
  BY <1>1, Larger
<1>7. /\ AtLeast(limiter.peakInterval, c) \in Nat /\ c <= AtLeast(limiter.peakInterval, c)
      /\ \A n \in Nat : limiter.peakInterval <= n /\ c <= n => AtLeast(limiter.peakInterval, c) <= n
  BY <1>1, Larger
<1>8. \A k \in {"interval", "day"} :
        /\ reach'[k].most = AtLeast(reach[k].most, c) /\ reach'[k].met = AtLeast(reach[k].met, c)
        /\ reach'[k].most \in Nat /\ reach[k].most <= reach'[k].most /\ c <= reach'[k].most
        /\ reach'[k].met \in Nat
        /\ \A n \in Nat : reach[k].met <= n /\ c <= n => reach'[k].met <= n
  <2> SUFFICES ASSUME NEW k \in {"interval", "day"}
               PROVE  /\ reach'[k].most = AtLeast(reach[k].most, c) /\ reach'[k].met = AtLeast(reach[k].met, c)
                      /\ reach'[k].most \in Nat /\ reach[k].most <= reach'[k].most /\ c <= reach'[k].most
                      /\ reach'[k].met \in Nat
                      /\ \A n \in Nat : reach[k].met <= n /\ c <= n => reach'[k].met <= n
    OBVIOUS
  <2>1. reach[k].most \in Nat /\ reach[k].met \in Nat
    BY <1>1
  <2>2. /\ AtLeast(reach[k].most, c) \in Nat /\ reach[k].most <= AtLeast(reach[k].most, c)
        /\ c <= AtLeast(reach[k].most, c)
    BY <1>1, <2>1, Larger
  <2>3. /\ AtLeast(reach[k].met, c) \in Nat
        /\ \A n \in Nat : reach[k].met <= n /\ c <= n => AtLeast(reach[k].met, c) <= n
    BY <1>1, <2>1, Larger
  <2>4. reach'[k].most = AtLeast(reach[k].most, c) /\ reach'[k].met = AtLeast(reach[k].met, c)
    BY <1>3
  <2> QED
    BY <2>2, <2>3, <2>4
<1>9. reach' \in [{"interval", "day"} -> Span]
  <2>1. \A k \in {"interval", "day"} :
          [most |-> AtLeast(reach[k].most, c), met |-> AtLeast(reach[k].met, c)] \in Span
    BY <1>8 DEF Span
  <2> QED
    BY <1>3, <2>1
<1>10. /\ limiter' \in [activeConcurrency : Nat, peakToday : Nat, peakDate : Int, peakInterval : Nat]
       /\ limiter'.activeConcurrency = c /\ limiter'.peakToday = AtLeast(p, c)
       /\ limiter'.peakDate = date /\ limiter'.peakInterval = AtLeast(limiter.peakInterval, c)
  BY <1>1, <1>2, <1>6, <1>7
<1>11. reach'["interval"].met = limiter'.peakInterval
  BY <1>4, <1>8, <1>10
<1>12. limiter'.peakInterval <= reach'["interval"].most
  <2>1. limiter.peakInterval <= reach'["interval"].most
    BY <1>1, <1>4, <1>8
  <2> QED
    BY <1>7, <1>8, <1>10, <2>1
<1>13. /\ reach'["day"].met <= limiter'.peakToday
       /\ limiter'.activeConcurrency <= limiter'.peakToday
       /\ limiter'.peakToday <= reach'["day"].most
  <2>1. p <= reach'["day"].most /\ reach["day"].met <= p
    BY <1>1, <1>4, <1>8 DEF p
  <2>2. reach["day"].met <= AtLeast(p, c)
    BY <1>1, <1>6, <2>1
  <2> QED
    BY <1>1, <1>6, <1>8, <1>10, <2>1, <2>2
<1>14. limiter'.peakDate <= Date(hour)' /\ limiter'.peakDate = Date(hour)'
  BY <1>1, <1>5, <1>10
<1> QED
  BY <1>8, <1>9, <1>10, <1>11, <1>12, <1>13, <1>14 DEF LimiterOK

LEMMA LeaveLimiter ==
  ASSUME LimiterOK, NEW r \in Requests, Leave(r)
  PROVE  LimiterOK'
<1>1. /\ limiter.activeConcurrency \in Nat /\ limiter.peakToday \in Nat
      /\ reach["interval"].most \in Nat /\ reach["day"].most \in Nat
  BY LimiterTypes
<1>2. PICK n : n = IF limiter.activeConcurrency > 0 THEN limiter.activeConcurrency - 1 ELSE 0
  OBVIOUS
<1>3. n \in Nat /\ n <= limiter.activeConcurrency
  BY <1>1, <1>2
<1>4. limiter' = [limiter EXCEPT !.activeConcurrency = n] /\ UNCHANGED <<hour, reach>>
  BY <1>2 DEF Leave, Release
<1>5. /\ limiter' \in [activeConcurrency : Nat, peakToday : Nat, peakDate : Int, peakInterval : Nat]
      /\ limiter'.activeConcurrency = n /\ limiter'.peakToday = limiter.peakToday
      /\ limiter'.peakDate = limiter.peakDate /\ limiter'.peakInterval = limiter.peakInterval
  BY <1>3, <1>4 DEF LimiterOK
<1>6. Date(hour)' = Date(hour)
  BY <1>4 DEF Date
<1> QED
  BY <1>1, <1>3, <1>4, <1>5, <1>6 DEF LimiterOK

LEMMA TakePeakLimiter ==
  ASSUME LimiterOK, TakePeak
  PROVE  LimiterOK'
<1>1. limiter.activeConcurrency \in Nat
  BY LimiterTypes
<1>2. /\ limiter' = [limiter EXCEPT !.peakInterval = 0] /\ UNCHANGED hour
      /\ reach' = [reach EXCEPT !["interval"] = [most |-> limiter.activeConcurrency, met |-> 0]]
  BY DEF TakePeak, IntervalReset
<1>3. /\ limiter' \in [activeConcurrency : Nat, peakToday : Nat, peakDate : Int, peakInterval : Nat]
      /\ limiter'.activeConcurrency = limiter.activeConcurrency /\ limiter'.peakToday = limiter.peakToday
      /\ limiter'.peakDate = limiter.peakDate /\ limiter'.peakInterval = 0
  BY <1>2 DEF LimiterOK
<1>4. /\ reach' \in [{"interval", "day"} -> Span] /\ reach'["day"] = reach["day"]
      /\ reach'["interval"].most = limiter.activeConcurrency /\ reach'["interval"].met = 0
  BY <1>1, <1>2 DEF LimiterOK, Span
<1>5. Date(hour)' = Date(hour)
  BY <1>2 DEF Date
<1> QED
  BY <1>1, <1>3, <1>4, <1>5 DEF LimiterOK

LEMMA RingTypes ==
  ASSUME RingOK
  PROVE  /\ Len(told) \in Nat /\ Len(slots) \in Nat /\ Kept \in Nat /\ SlotCount \in Nat \ {0}
         /\ Kept = Len(told) - (IF sampled = None THEN 0 ELSE 1)
         /\ Len(slots) = (IF Kept < SlotCount THEN Kept ELSE SlotCount)
         /\ None \notin Nat
<1>1. Len(told) \in Nat /\ Len(slots) \in Nat
  BY LenProperties DEF RingOK
<1>2. SlotCount \in Nat \ {0} /\ None \notin Nat
  BY SlotAssumption, NoneAssumption
<1> QED
  BY <1>1, <1>2 DEF RingOK, Kept

LEMMA RingKept ==
  ASSUME RingOK, UNCHANGED <<told, slots, sampled>>
  PROVE  RingOK'
BY DEF RingOK, Kept, Told

\* A sample is taken: the highest is what the limiter saw, the least what a request found.
LEMMA TakePeakRing ==
  ASSUME LimiterOK, RingOK, TakePeak
  PROVE  RingOK'
<1>1. /\ limiter.activeConcurrency \in Nat /\ limiter.peakInterval \in Nat
      /\ reach["interval"] \in Span /\ reach["interval"].most \in Nat /\ reach["interval"].met \in Nat
  BY LimiterTypes
<1> DEFINE a == limiter.activeConcurrency
           x == AtLeast(limiter.peakInterval, a)
           y == AtLeast(reach["interval"].met, a)
           e == [reach["interval"] EXCEPT !.met = y]
<1>2. /\ sampled = None /\ sampled' = x /\ told' = Append(told, e) /\ UNCHANGED slots
  BY DEF TakePeak, IntervalPeak
<1>3. /\ reach["interval"].met = limiter.peakInterval
      /\ limiter.peakInterval <= reach["interval"].most /\ a <= reach["interval"].most
  BY DEF LimiterOK
<1>4. x \in Nat /\ x = y /\ x <= reach["interval"].most
  <2>1. /\ AtLeast(limiter.peakInterval, a) \in Nat
        /\ \A n \in Nat : limiter.peakInterval <= n /\ a <= n
             => AtLeast(limiter.peakInterval, a) <= n
    BY <1>1, Larger, Zenon
  <2>2. x \in Nat /\ x <= reach["interval"].most
    BY <1>1, <1>3, <2>1
  <2> QED
    BY <1>3, <2>2
<1> HIDE DEF a, x, y
<1>5. e \in Span /\ e.met = y /\ e.most = reach["interval"].most
  BY <1>1, <1>4 DEF Span
<1>6. Told(x, e)
  BY <1>4, <1>5 DEF Told
<1> HIDE DEF e
<1>7. told \in Seq(Span) /\ slots \in Seq(Nat)
  BY DEF RingOK
<1>8. /\ told' \in Seq(Span) /\ Len(told') = Len(told) + 1 /\ told'[Len(told) + 1] = e
      /\ \A i \in 1..Len(told) : told'[i] = told[i]
  BY <1>2, <1>5, <1>7, AppendProperties
<1>9. /\ Len(told) \in Nat /\ Len(slots) \in Nat /\ Kept = Len(told) /\ None \notin Nat
      /\ Len(slots) <= Len(told) /\ SlotCount \in Nat
      /\ Len(slots) = (IF Kept < SlotCount THEN Kept ELSE SlotCount)
  BY <1>2, RingTypes
<1>10. Kept' = Len(told)
  <2>1. sampled' # None
    BY <1>2, <1>4, <1>9
  <2>2. Kept' = Len(told') - 1
    BY <2>1 DEF Kept
  <2> QED
    BY <1>8, <1>9, <2>2
<1>11. ASSUME NEW i \in 1..Len(slots)
       PROVE  Told(slots[i], told'[Len(told) - Len(slots) + i])
  <2>1. Len(told) - Len(slots) + i \in 1..Len(told)
    BY <1>9
  <2>2. Told(slots[i], told[Len(told) - Len(slots) + i])
    BY <1>9 DEF RingOK
  <2> QED
    BY <1>8, <2>1, <2>2
<1>12. Told(sampled', told'[Len(told')])
  BY <1>2, <1>6, <1>8
<1>13. sampled' \in Nat \cup {None} /\ slots' \in Seq(Nat) /\ Kept' >= 0
  BY <1>2, <1>4, <1>7, <1>9, <1>10
<1>14. Len(slots') = (IF Kept' < SlotCount THEN Kept' ELSE SlotCount)
  BY <1>2, <1>9, <1>10
<1>15. \A i \in 1..Len(slots') : Told(slots'[i], told'[Kept' - Len(slots') + i])
  BY <1>2, <1>10, <1>11
<1>16. /\ told' \in Seq(Span)
       /\ sampled' # None => Told(sampled', told'[Len(told')])
  BY <1>8, <1>12
<1> QED
  BY <1>13, <1>14, <1>15, <1>16 DEF RingOK, Told

\* A full ring forgets its oldest value.
LEMMA SnapshotRing ==
  ASSUME RingOK, SnapshotConcurrency
  PROVE  RingOK'
<1>1. /\ sampled # None /\ sampled' = None /\ UNCHANGED told
      /\ slots' = Append(IF Len(slots) < SlotCount THEN slots ELSE Tail(slots), sampled)
  BY DEF SnapshotConcurrency, slotVars, Pushed
<1>2. /\ Len(told) \in Nat /\ Len(slots) \in Nat /\ SlotCount \in Nat \ {0}
      /\ Kept = Len(told) - 1 /\ Kept \in Nat
      /\ Len(slots) = (IF Kept < SlotCount THEN Kept ELSE SlotCount)
  BY <1>1, RingTypes
<1>3. /\ told \in Seq(Span) /\ slots \in Seq(Nat) /\ sampled \in Nat
      /\ \A i \in 1..Len(slots) : Told(slots[i], told[Kept - Len(slots) + i])
      /\ Told(sampled, told[Len(told)])
  BY <1>1 DEF RingOK
<1>4. Kept' = Len(told)
  <2>1. Kept' = Len(told) - 0
    BY <1>1 DEF Kept
  <2> QED
    BY <1>2, <2>1
\* The values that stay, and how far they move.
<1>5. PICK rest, k : /\ rest = (IF Len(slots) < SlotCount THEN slots ELSE Tail(slots))
                     /\ k = (IF Len(slots) < SlotCount THEN 0 ELSE 1)
  OBVIOUS
<1>6. /\ rest \in Seq(Nat) /\ Len(rest) = Len(slots) - k /\ Len(rest) \in Nat /\ k \in {0, 1}
      /\ \A i \in 1..Len(rest) : i + k \in 1..Len(slots) /\ rest[i] = slots[i + k]
  <2>1. CASE Len(slots) < SlotCount
    <3>1. rest = slots /\ k = 0
      BY <1>5, <2>1
    <3>2. \A i \in 1..Len(slots) : i + 0 = i
      OBVIOUS
    <3> QED
      BY <1>2, <1>3, <3>1, <3>2
  <2>2. CASE ~ (Len(slots) < SlotCount)
    <3>1. rest = Tail(slots) /\ k = 1
      BY <1>5, <2>2
    <3>2. slots # <<>> /\ Len(slots) >= 1
      BY <1>2, <1>3, <2>2, EmptySeq
    <3>3. /\ Tail(slots) \in Seq(Nat) /\ Len(Tail(slots)) = Len(slots) - 1
          /\ \A i \in 1..Len(Tail(slots)) : Tail(slots)[i] = slots[i + 1]
      BY <1>3, <3>2, HeadTailProperties
    <3>4. \A i \in 1..(Len(slots) - 1) : i + 1 \in 1..Len(slots)
      BY <1>2
    <3> QED
      BY <1>2, <3>1, <3>2, <3>3, <3>4
  <2> QED
    BY <2>1, <2>2
<1>7. /\ slots' \in Seq(Nat) /\ Len(slots') = Len(rest) + 1 /\ slots'[Len(rest) + 1] = sampled
      /\ \A i \in 1..Len(rest) : slots'[i] = rest[i]
  <2>1. slots' = Append(rest, sampled)
    BY <1>1, <1>5
  <2> QED
    BY <1>3, <1>6, <2>1, AppendProperties
<1>8. Len(slots') = (IF Len(told) < SlotCount THEN Len(told) ELSE SlotCount)
  <2>1. PICK m, n, l : m = Len(slots) /\ n = Len(told) /\ l = Len(rest)
    OBVIOUS
  <2>2. /\ m \in Nat /\ n \in Nat /\ l \in Nat /\ SlotCount \in Nat
        /\ m = (IF n - 1 < SlotCount THEN n - 1 ELSE SlotCount)
        /\ l = m - (IF m < SlotCount THEN 0 ELSE 1)
    BY <1>2, <1>5, <1>6, <2>1
  <2>3. l + 1 = (IF n < SlotCount THEN n ELSE SlotCount)
    BY <2>2
  <2> QED
    BY <1>7, <2>1, <2>3
<1>9. ASSUME NEW i \in 1..(Len(rest) + 1)
      PROVE  Told(slots'[i], told[Len(told) - (Len(rest) + 1) + i])
  <2>1. CASE i \in 1..Len(rest)
    <3>1. Told(slots[i + k], told[Kept - Len(slots) + (i + k)])
      BY <1>3, <1>6, <2>1
    <3>2. Kept - Len(slots) + (i + k) = Len(told) - (Len(rest) + 1) + i
      BY <1>2, <1>6, <2>1
    <3> QED
      BY <1>6, <1>7, <2>1, <3>1, <3>2
  <2>2. CASE i = Len(rest) + 1
    <3>1. \A n \in Nat, l \in Nat : n - (l + 1) + (l + 1) = n
      OBVIOUS
    <3>2. Len(told) - (Len(rest) + 1) + i = Len(told)
      BY <1>2, <1>6, <2>2, <3>1
    <3>3. slots'[i] = sampled
      BY <1>7, <2>2
    <3> QED
      BY <1>3, <3>2, <3>3
  <2> QED
    BY <1>6, <2>1, <2>2
<1>10. \A i \in 1..Len(slots') : Told(slots'[i], told[Kept' - Len(slots') + i])
  BY <1>4, <1>7, <1>9
<1>11. told' \in Seq(Span) /\ slots' \in Seq(Nat) /\ sampled' = None
  BY <1>1, <1>3, <1>7
<1>12. Kept' >= 0 /\ Len(slots') = (IF Kept' < SlotCount THEN Kept' ELSE SlotCount)
  BY <1>2, <1>4, <1>8
<1>13. \A i \in 1..Len(slots') : Told(slots'[i], told'[Kept' - Len(slots') + i])
  BY <1>1, <1>10
<1>14. (sampled # None)' => Told(sampled, told[Len(told)])'
  BY <1>11
<1> QED
  BY <1>11, <1>12, <1>13, <1>14 DEF RingOK, Told

(***************************************************************************)
(* The dashboard's theorems.                                               *)
(***************************************************************************)

LEMMA DashInvInit ==
  ASSUME DashboardInit
  PROVE  DashInv
<1>1. HoursOK
  BY HoursInit
<1>2. HoursPerDay \in Nat \ {0} /\ SlotCount \in Nat \ {0}
  BY ClockAssumption, SlotAssumption
<1>3. LimiterOK
  <2>1. /\ limiter = [activeConcurrency |-> 0, peakToday |-> 0, peakDate |-> 0, peakInterval |-> 0]
        /\ reach = [k \in {"interval", "day"} |-> [most |-> 0, met |-> 0]]
    BY DEF DashboardInit, NewLimiter
  <2>2. 1 <= Date(hour) /\ Date(hour) \in Int
    BY <1>1, ClockTypes
  <2> QED
    BY <2>1, <2>2 DEF LimiterOK, Span
<1>4. RingOK
  <2>1. told = <<>> /\ slots = <<>> /\ sampled = None
    BY DEF DashboardInit
  <2>2. told \in Seq(Span) /\ slots \in Seq(Nat) /\ Len(told) = 0 /\ Len(slots) = 0
    BY <2>1, EmptySeq
  <2>3. Kept = 0
    BY <2>1, <2>2 DEF Kept
  <2> QED
    BY <1>2, <2>1, <2>2, <2>3 DEF RingOK
<1> QED
  BY <1>1, <1>3, <1>4 DEF DashInv

LEMMA DashInvNext ==
  ASSUME DashInv, [DashboardNext]_dashboardVars
  PROVE  DashInv'
<1>1. HoursOK /\ LimiterOK /\ RingOK
  BY DEF DashInv
<1>2. request \in [Requests -> {"new", "served", "hour", "counted", "gone"}]
  BY <1>1 DEF HoursOK
<1>3. CASE HourPasses
  <2>1. UNCHANGED <<told, slots, sampled>>
    BY <1>3 DEF HourPasses, slotVars
  <2> QED
    BY <1>1, <1>3, <2>1, TickHours, TickLimiter, RingKept DEF DashInv
<1>4. ASSUME NEW r \in Requests, Arrive(r) PROVE DashInv'
  <2>1. /\ UNCHANGED <<hour, counts, lock, today, truth>> /\ UNCHANGED <<told, slots, sampled>>
        /\ request' = [request EXCEPT ![r] = "served"]
    BY <1>4 DEF Arrive, hourVars, slotVars
  <2>2. HoursOK'
    BY <1>1, <1>2, <2>1, HoursKept
  <2> QED
    BY <1>1, <1>4, <2>1, <2>2, ArriveLimiter, RingKept DEF DashInv
<1>5. ASSUME NEW r \in Requests, LockCounts(r) PROVE DashInv'
  <2>1. /\ UNCHANGED <<hour, counts, truth>> /\ UNCHANGED <<told, slots, sampled>>
        /\ UNCHANGED <<hour, limiter, reach>>
        /\ lock = None /\ lock' = r /\ today' = Date(hour)
        /\ request' = [request EXCEPT ![r] = "hour"]
    BY <1>5 DEF LockCounts, slotVars
  <2>2. HoursOK'
    BY <1>1, <1>2, <2>1, LockHours
  <2> QED
    BY <1>1, <2>1, <2>2, LimiterKept, RingKept DEF DashInv
<1>6. ASSUME NEW r \in Requests, Increment(r) PROVE DashInv'
  <2>1. UNCHANGED <<told, slots, sampled>> /\ UNCHANGED <<hour, limiter, reach>>
    BY <1>6 DEF Increment, slotVars
  <2> QED
    BY <1>1, <1>6, <2>1, IncrementHours, LimiterKept, RingKept DEF DashInv
<1>7. ASSUME NEW r \in Requests, Leave(r) PROVE DashInv'
  <2>1. /\ UNCHANGED <<hour, counts, lock, today, truth>> /\ UNCHANGED <<told, slots, sampled>>
        /\ request' = [request EXCEPT ![r] = "gone"]
    BY <1>7 DEF Leave, hourVars, slotVars
  <2>2. HoursOK'
    BY <1>1, <1>2, <2>1, HoursKept
  <2> QED
    BY <1>1, <1>7, <2>1, <2>2, LeaveLimiter, RingKept DEF DashInv
<1>8. CASE LockDates
  <2>1. /\ UNCHANGED <<hour, counts, truth, request>> /\ UNCHANGED <<told, slots, sampled>>
        /\ UNCHANGED <<hour, limiter, reach>>
        /\ lock = None /\ lock' = Cleanup /\ today' = Date(hour)
    BY <1>8 DEF LockDates, slotVars
  <2>2. HoursOK'
    BY <1>1, <1>2, <2>1, LockHours
  <2> QED
    BY <1>1, <2>1, <2>2, LimiterKept, RingKept DEF DashInv
<1>9. CASE DropDates
  <2>1. UNCHANGED <<told, slots, sampled>> /\ UNCHANGED <<hour, limiter, reach>>
    BY <1>9 DEF DropDates, slotVars
  <2> QED
    BY <1>1, <1>9, <2>1, DropDatesHours, LimiterKept, RingKept DEF DashInv
<1>10. CASE TakePeak
  <2>1. UNCHANGED <<hour, counts, lock, today, truth>> /\ UNCHANGED request
    BY <1>10 DEF TakePeak, hourVars
  <2>2. HoursOK'
    BY <1>1, <1>2, <2>1, HoursKept
  <2> QED
    BY <1>1, <1>10, <2>2, TakePeakLimiter, TakePeakRing DEF DashInv
<1>11. CASE SnapshotConcurrency
  <2>1. UNCHANGED <<hour, counts, lock, today, truth>> /\ UNCHANGED request
        /\ UNCHANGED <<hour, limiter, reach>>
    BY <1>11 DEF SnapshotConcurrency, hourVars
  <2>2. HoursOK'
    BY <1>1, <1>2, <2>1, HoursKept
  <2> QED
    BY <1>1, <1>11, <2>1, <2>2, LimiterKept, SnapshotRing DEF DashInv
<1>12. CASE UNCHANGED dashboardVars
  <2>1. /\ UNCHANGED <<hour, counts, lock, today, truth>> /\ UNCHANGED request
        /\ UNCHANGED <<hour, limiter, reach>> /\ UNCHANGED <<told, slots, sampled>>
    BY <1>12 DEF dashboardVars, hourVars, slotVars
  <2>2. HoursOK'
    BY <1>1, <1>2, <2>1, HoursKept
  <2> QED
    BY <1>1, <2>1, <2>2, LimiterKept, RingKept DEF DashInv
<1> QED
  BY <1>3, <1>4, <1>5, <1>6, <1>7, <1>8, <1>9, <1>10, <1>11, <1>12 DEF DashboardNext

\* The dashboard's counters never leave the states that the invariant describes (HourlyCounter,
\* MetricsCollector and the limiter that it samples).
THEOREM DashInvariance == DashboardSpec => []DashInv
<1>1. DashboardInit => DashInv
  BY DashInvInit
<1>2. DashInv /\ [DashboardNext]_dashboardVars => DashInv'
  BY DashInvNext
<1> QED
  BY <1>1, <1>2, PTL DEF DashboardSpec

\* GetLast24Hours shows of each hour the requests that were counted in it, whatever midnights
\* pass between the two readings of the clock by requests and by the cleanup.
THEOREM HoursShown == DashboardSpec => []HourlyShown
<1>1. DashInv => HourlyShown
  BY ViewPicks DEF DashInv, HourlyShown
<1> QED
  BY <1>1, DashInvariance, PTL

\* The history and the peak of today are never more than was in progress and never less than
\* what a request found (GetAndResetIntervalPeak, SnapshotConcurrency, GetStats).
THEOREM PeaksShown == DashboardSpec => []PeaksTold
<1>1. DashInv => PeaksTold
  <2> SUFFICES ASSUME DashInv PROVE PeaksTold
    OBVIOUS
  <2>1. HoursOK /\ LimiterOK /\ RingOK
    BY DEF DashInv
  <2>2. HistoryTold
    <3>1. /\ Len(slots) \in Nat /\ slots \in Seq(Nat) /\ DOMAIN slots = 1..Len(slots)
      BY <2>1, LenProperties DEF RingOK
    <3>2. /\ Len(slots) = (IF Kept < SlotCount THEN Kept ELSE SlotCount)
          /\ \A i \in DOMAIN slots :
               /\ told[Kept - Len(slots) + i].met <= slots[i]
               /\ slots[i] <= told[Kept - Len(slots) + i].most
      BY <2>1, <3>1 DEF RingOK, Told
    <3> QED
      BY <3>2 DEF HistoryTold, GetHistory, Kept
  <2>3. TodayTold
    <3>1. /\ limiter.activeConcurrency \in Nat /\ limiter.peakToday \in Nat
          /\ reach["day"].met \in Nat /\ reach["day"].most \in Nat
      BY <2>1, LimiterTypes
    <3>2. /\ limiter.activeConcurrency <= PeakToday(limiter, Date(hour))
          /\ reach["day"].met <= PeakToday(limiter, Date(hour))
          /\ PeakToday(limiter, Date(hour)) <= reach["day"].most
          /\ PeakToday(limiter, Date(hour)) \in Nat
      BY <2>1, <3>1 DEF LimiterOK, PeakToday
    <3>3. AtLeast(reach["day"].met, limiter.activeConcurrency)
            <= PeakToday(limiter, Date(hour))
      BY <3>1, <3>2, Larger
    <3> QED
      BY <3>2, <3>3 DEF TodayTold
  <2> QED
    BY <2>2, <2>3 DEF PeaksTold
<1> QED
  BY <1>1, DashInvariance, PTL
=============================================================================
