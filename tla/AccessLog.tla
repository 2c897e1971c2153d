----------------------------- MODULE AccessLog -----------------------------
(***************************************************************************)
(* The access log: what the middleware of internal/infra/middleware/       *)
(* access_log.go records of each request, the store in                     *)
(* internal/repository/access_log.go that keeps it in two tables, the      *)
(* daily cleanup of old payloads (internal/server/server.go) and the       *)
(* exports (internal/domain/usage/service.go, internal/domain/user/        *)
(* handler.go).                                                            *)
(*                                                                         *)
(* Every statement is atomic in SQLite, and no two of them are in one      *)
(* transaction: a record, a cleanup and an export may meet between any two *)
(* of theirs.  Any statement may fail, as when the database stays busy.    *)
(***************************************************************************)
EXTENDS Integers, FiniteSets, Sequences, Functions

CONSTANTS
  Logs,          \* requests whose users are known
  Day,           \* a day, in half seconds
  Retention,     \* payload_retention_days, in half seconds
  ExportMaxRows, \* export_max_rows
  MaxTime,       \* bound: half seconds that pass
  MaxCrashes     \* bound: crashes

\* A day is whole seconds.
ASSUME DayAssumption   == Day \in Nat \ {0} /\ Day % 2 = 0
ASSUME TimeAssumption  == Retention \in Nat /\ MaxTime \in Nat
ASSUME BoundAssumption == ExportMaxRows \in Nat /\ MaxCrashes \in Nat
ASSUME LogsAssumption  == IsFiniteSet(Logs)

VARIABLES
  now,        \* time.Now()
  migrated,   \* access_logs has the columns that the store uses
  rows,       \* access_logs: has_payload of each log stored
  payloads,   \* access_log_payloads: the IDs
  stamp,      \* timestamp and created_at of each log
  recorder,   \* where RecordAccessDetailed of each log is
  cleaner,    \* the cleanup task
  export,     \* a request for an export
  crashes,    \* crashes so far
  overtaken   \* history: logs that a cleanup marked between their inserts

vars == <<now, migrated, rows, payloads, stamp, recorder, cleaner, export, crashes,
          overtaken>>

recordVars == <<stamp, recorder>>

NoExport  == [at |-> "idle", todo |-> <<>>, got |-> <<>>, failed |-> FALSE,
              due |-> {}, near |-> {}, whole |-> {}]
NoCleanup == [at |-> "waits", cutoff |-> 0]

Stored == DOMAIN rows

TypeOK ==
  /\ now       \in 0..MaxTime
  /\ migrated  \in BOOLEAN
  /\ rows      \in UNION {[L -> BOOLEAN] : L \in SUBSET Logs}
  /\ payloads  \subseteq Logs
  /\ stamp     \in [Logs -> 0..MaxTime]
  /\ recorder  \in [Logs -> {"serves", "log", "payload", "ended"}]
  /\ cleaner  \in [at : {"waits", "delete", "mark"}, cutoff : (0 - Retention)..MaxTime]
  /\ export   \in [at : {"idle", "payloads", "answered", "refused"},
                   todo : Seq([log : Logs, has : BOOLEAN]),
                   got : Seq([log : Logs, status : {"none", "available", "expired"}]) \cup Seq(Logs),
                   failed : BOOLEAN, due : SUBSET Logs, near : SUBSET Logs, whole : SUBSET Logs]
  /\ crashes   \in 0..MaxCrashes
  /\ overtaken \subseteq Logs

\* Migrate creates access_logs only where there is none, and creates it without
\* has_payload: the store works on the table of an older database only.
Init ==
  /\ now = 0
  /\ migrated \in BOOLEAN
  /\ rows = <<>>
  /\ payloads = {}
  /\ stamp = [l \in Logs |-> 0]
  /\ recorder = [l \in Logs |-> "serves"]
  /\ cleaner = NoCleanup
  /\ export = NoExport
  /\ crashes = 0
  /\ overtaken = {}

----------------------------------------------------------------------------
(* Times are kept and compared as text.  RFC3339Nano leaves out the fraction of
   a whole second, and "Z" comes after ".": within a second, the half (".5Z")
   comes before the whole ("Z"). *)

Text(t)   == IF t % 2 = 0 THEN t + 1 ELSE t - 1
Second(t) == t \div 2

Tick ==
  /\ now < MaxTime
  /\ now' = now + 1
  /\ UNCHANGED <<migrated, rows, payloads, recordVars, cleaner, export, crashes, overtaken>>

----------------------------------------------------------------------------
(* A record: AccessLogMiddleware when the request has ended, then the two inserts
   of its goroutine. *)

RecordAccess(l) ==
  /\ recorder[l] = "serves"
  /\ stamp' = [stamp EXCEPT ![l] = now]
  /\ recorder' = [recorder EXCEPT ![l] = "log"]
  /\ UNCHANGED <<now, migrated, rows, payloads, cleaner, export, crashes, overtaken>>

InsertLog(l) ==
  /\ recorder[l] = "log"
  /\ migrated
  /\ rows' = [k \in Stored \cup {l} |-> IF k = l THEN TRUE ELSE rows[k]]
  /\ recorder' = [recorder EXCEPT ![l] = "payload"]
  /\ UNCHANGED <<now, migrated, payloads, stamp, cleaner, export, crashes, overtaken>>

InsertPayload(l) ==
  /\ recorder[l] = "payload"
  /\ payloads' = payloads \cup {l}
  /\ recorder' = [recorder EXCEPT ![l] = "ended"]
  /\ UNCHANGED <<now, migrated, rows, stamp, cleaner, export, crashes, overtaken>>

\* Either insert fails; the caller drops the error.
InsertFails(l) ==
  /\ recorder[l] \in {"log", "payload"}
  /\ recorder' = [recorder EXCEPT ![l] = "ended"]
  /\ UNCHANGED <<now, migrated, rows, payloads, stamp, cleaner, export, crashes, overtaken>>

----------------------------------------------------------------------------
(* The cleanup: cleanupTask, CleanupOldPayloads, DeleteOldPayloads. *)

CutoffLate == now - (Retention - 2)
Cutoff     == now - Retention

CleanupOldPayloads ==
  /\ cleaner.at = "waits"
  /\ cleaner' = [at |-> "delete", cutoff |-> Cutoff]
  /\ UNCHANGED <<now, migrated, rows, payloads, recordVars, export, crashes, overtaken>>

Old(l) == Text(stamp[l]) < Text(cleaner.cutoff)

AfterDeleteIfAny == IF \E l \in payloads : Old(l) THEN [cleaner EXCEPT !.at = "mark"] ELSE NoCleanup
AfterDelete      == [cleaner EXCEPT !.at = "mark"]

DeleteOldPayloads ==
  /\ cleaner.at = "delete"
  /\ payloads' = {l \in payloads : ~Old(l)}
  /\ cleaner' = AfterDelete
  /\ UNCHANGED <<now, migrated, rows, recordVars, export, crashes, overtaken>>

Marked(l) == rows[l] /\ l \notin payloads

MarkWithoutPayload ==
  /\ cleaner.at = "mark"
  /\ migrated
  /\ rows' = [l \in Stored |-> rows[l] /\ ~Marked(l)]
  /\ overtaken' = overtaken \cup {l \in Stored : Marked(l) /\ recorder[l] = "payload"}
  /\ cleaner' = NoCleanup
  /\ UNCHANGED <<now, migrated, payloads, recordVars, export, crashes>>

\* The DELETE fails and the UPDATE is left out, or the UPDATE fails.
CleanupFails ==
  /\ cleaner.at # "waits"
  /\ cleaner' = NoCleanup
  /\ UNCHANGED <<now, migrated, rows, payloads, recordVars, export, crashes, overtaken>>

----------------------------------------------------------------------------
(* An export: a range of days, or one that is open at its end, one query for the
   logs and one for each payload. *)

\* parseDateRange: the end of a range is the day after its last day, or tomorrow.
Starts == {d \in 0..now : d % Day = 0}
Ends   == {d + Day : d \in Starts} \cup {now + Day}

Between(l, from, to) == Text(from) <= Text(stamp[l]) /\ Text(stamp[l]) < Text(to)

\* ORDER BY timestamp DESC, in any order among equals.
Newest(L) ==
  {s \in [1..Cardinality(L) -> L] :
     /\ Range(s) = L
     /\ \A i, j \in DOMAIN s : i < j => Text(stamp[s[i]]) >= Text(stamp[s[j]])}

LimitExact == ExportMaxRows
Limit      == ExportMaxRows + 1

\* History, for an export of the time between from and to: the logs that have both
\* their rows (less those whose payload cannot be read later), those that are surely
\* within, those that are if one looks at seconds only, and whether the query failed.
Whole          == {l \in payloads \cap Stored : recorder[l] = "ended"}
Due(from, to)  == {l \in Stored : Second(from) < Second(stamp[l]) /\ Second(stamp[l]) < Second(to)}
Near(from, to) == {l \in Stored : from <= stamp[l] /\ Second(stamp[l]) <= Second(to)}

List ==
  /\ export.at = "idle"
  /\ migrated
  /\ \E from \in Starts, to \in Ends : \E s \in Newest({l \in Stored : Between(l, from, to)}) :
       LET listed == SubSeq(s, 1, IF Len(s) < Limit THEN Len(s) ELSE Limit)
       IN  export' = [NoExport EXCEPT
                        !.at = "payloads",
                        !.todo = [i \in DOMAIN listed |-> [log |-> listed[i], has |-> rows[listed[i]]]],
                        !.due = Due(from, to), !.near = Near(from, to), !.whole = Whole]
  /\ UNCHANGED <<now, migrated, rows, payloads, recordVars, cleaner, crashes, overtaken>>

\* The query or a row of it fails, as it always does without the columns: the answer is
\* an empty list.
ListFails ==
  /\ export.at = "idle"
  /\ \E from \in Starts, to \in Ends :
       export' = [NoExport EXCEPT !.at = "answered", !.failed = TRUE, !.due = Due(from, to)]
  /\ UNCHANGED <<now, migrated, rows, payloads, recordVars, cleaner, crashes, overtaken>>

PayloadStatus(r) ==
  IF ~r.has THEN "none" ELSE IF r.log \in payloads THEN "available" ELSE "expired"

GetPayload ==
  /\ export.at = "payloads" /\ export.todo # <<>>
  /\ LET r == Head(export.todo)
     IN  export' = [export EXCEPT !.todo = Tail(@),
                      !.got = Append(@, [log |-> r.log, status |-> PayloadStatus(r)])]
  /\ UNCHANGED <<now, migrated, rows, payloads, recordVars, cleaner, crashes, overtaken>>

\* A payload that cannot be read is taken for one that was cleaned up.
GetPayloadFails ==
  /\ export.at = "payloads" /\ export.todo # <<>>
  /\ LET r == Head(export.todo)
     IN  /\ r.has
         /\ export' = [export EXCEPT !.todo = Tail(@), !.whole = @ \ {r.log},
                          !.got = Append(@, [log |-> r.log, status |-> "expired"])]
  /\ UNCHANGED <<now, migrated, rows, payloads, recordVars, cleaner, crashes, overtaken>>

Answer ==
  /\ export.at = "payloads" /\ export.todo = <<>>
  /\ export' = [export EXCEPT !.at = IF Len(export.got) > ExportMaxRows THEN "refused" ELSE "answered",
                               !.got = [i \in DOMAIN @ |-> @[i].log], !.whole = {}]
  /\ UNCHANGED <<now, migrated, rows, payloads, recordVars, cleaner, crashes, overtaken>>

ExportDone ==
  /\ export.at \in {"answered", "refused"}
  /\ export' = NoExport
  /\ UNCHANGED <<now, migrated, rows, payloads, recordVars, cleaner, crashes, overtaken>>

----------------------------------------------------------------------------
\* The process ends: its goroutines are lost, the tables stay.
Crash ==
  /\ crashes < MaxCrashes
  /\ crashes' = crashes + 1
  /\ recorder' = [l \in Logs |-> IF recorder[l] = "serves" THEN "serves" ELSE "ended"]
  /\ cleaner' = NoCleanup
  /\ export' = NoExport
  /\ UNCHANGED <<now, migrated, rows, payloads, stamp, overtaken>>

Next ==
  \/ Tick
  \/ \E l \in Logs :
       \/ RecordAccess(l)
       \/ InsertLog(l)
       \/ InsertPayload(l)
       \/ InsertFails(l)
  \/ CleanupOldPayloads
  \/ DeleteOldPayloads
  \/ MarkWithoutPayload
  \/ CleanupFails
  \/ List
  \/ ListFails
  \/ GetPayload
  \/ GetPayloadFails
  \/ Answer
  \/ ExportDone
  \/ Crash

\* The task's ticker never stops, and a database that is busy is not busy for ever.
Fairness ==
  /\ WF_vars(CleanupOldPayloads)
  /\ SF_vars(DeleteOldPayloads)
  /\ SF_vars(MarkWithoutPayload)

Spec     == Init /\ [][Next]_vars
FairSpec == Spec /\ Fairness

----------------------------------------------------------------------------
(* Properties. *)

\* "7 天内的记录包含完整 payload" (handler.go:864), where the code keeps it: an export
\* gives the payload of every log that it lists, that had both its rows when the
\* export was listed, that no cleanup marked between its two inserts and that is, to
\* the second, younger than the retention, unless that payload's own query failed.
\* Cleanups run at the same time.
RecentHavePayload ==
  export.at = "payloads" => \A i \in DOMAIN export.got :
    LET g == export.got[i]
    IN  (/\ g.log \in export.whole
         /\ g.log \notin overtaken
         /\ Second(stamp[g.log]) + Second(Retention) > Second(now))
        => g.status = "available"

\* An export is refused or complete, never a part of what there is (handler.go:874-880):
\* it has every log of its range that the query found stored, once, and no other, or,
\* when the query failed, none at all; at the edges of the range, to the second
\* (access_log.go:161, 165).  Only what is too long is refused.
ExportComplete ==
  LET got == Range(export.got)
  IN  /\ export.at = "answered" => /\ IF export.failed THEN got = {} ELSE export.due \subseteq got
                                   /\ got \subseteq export.near
                                   /\ Cardinality(got) = Len(export.got)
      /\ export.at = "refused"  => Cardinality(export.near) > ExportMaxRows

\* A log that says it has a payload and has none (its second insert failed or was
\* lost in a crash, or its payload is old) does not say so for ever: again and again
\* no log does, as cleanups correct it, also when they have nothing to delete
\* (access_log.go:224).
MarksSettle == []<>(\A l \in Stored : ~Marked(l))

----------------------------------------------------------------------------
(* What comments say or a reader would expect, and the code does not do. *)

\* "payload 已被清理" (usage/service.go:307): a payload that an export calls expired is not
\* there.  It also says so of one that cannot be read.
ExpiredOnlyIfGone ==
  [][\A i \in DOMAIN export'.got \ DOMAIN export.got :
       export'.got[i].status = "expired" => export'.got[i].log \notin payloads]_vars

\* An export that is answered has every log of its range.  A query that fails is answered
\* with an empty list (usage/service.go:291-294).
AnsweredInFull == export.at = "answered" => export.due \subseteq Range(export.got)
=============================================================================
