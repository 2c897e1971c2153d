----------------------------- MODULE Dashboard -----------------------------
(***************************************************************************)
(* What the dashboard keeps in memory (internal/domain/dashboard/          *)
(* service.go): the requests of each hour of today and yesterday, and a    *)
(* ring of five-minute slots for the most requests in progress that the    *)
(* limiter saw.                                                            *)
(*                                                                         *)
(* The requests, the hourly cleanup, the five-minute sampling and the      *)
(* clock run at their own pace.  The hourly counter's mutex is held over   *)
(* two readings of the clock, by a request and by the cleanup.             *)
(***************************************************************************)
EXTENDS Limiter, Integers, Sequences, FiniteSets, SequencesExt

CONSTANTS
  Requests,     \* requests to a proxy endpoint
  None,         \* nobody
  HoursPerDay,  \* 24
  SlotCount,    \* metricsSlotCount
  LastHour,     \* bound: the last hour
  MaxSamples    \* bound: samples taken

ASSUME ClockAssumption == HoursPerDay \in Nat \ {0} /\ LastHour \in Nat
ASSUME SlotAssumption  == SlotCount \in Nat \ {0} /\ MaxSamples \in Nat

Cleanup == "dateCheckLoop"

ASSUME NoneAssumption == None \notin Requests \cup Nat \cup {Cleanup} /\ Cleanup \notin Requests

Dates   == 0..((LastHour \div HoursPerDay) + 1)
Hours   == 0..(HoursPerDay - 1)

VARIABLES
  hour,     \* hours since the first midnight
  request,  \* where each request is
  limiter,  \* the limiter
  counts,   \* HourlyCounter.counts: a count for each hour of the dates kept
  lock,     \* who holds its mutex
  today,    \* the date that the holder read first
  slots,    \* MetricsCollector.slots: the values of the ring, the oldest first
  sampled,  \* the peak that metricsLoop has taken and not stored yet
  truth,    \* history: requests counted in each hour, the misdated ones left out
  reach,    \* history: the most in progress, and the most a request found, ...
  told      \* history: ... for each sample

dashboardVars == <<hour, request, limiter, counts, lock, today, slots, sampled, truth,
                   reach, told>>

hourVars == <<counts, lock, today, truth>>
slotVars == <<slots, told>>

Date(t) == (t \div HoursPerDay) + 1
Hour(t) == t % HoursPerDay

\* The most in progress and the most after an arrival: since a sample, and today.
Reach == [most : 0..Cardinality(Requests), met : 0..Cardinality(Requests)]
Peaks == 0..Cardinality(Requests)

DashboardTypeOK ==
  /\ hour    \in 0..LastHour
  /\ request \in [Requests -> {"new", "served", "hour", "counted", "gone"}]
  /\ limiter \in States(Cardinality(Requests), Dates)
  /\ \A d \in DOMAIN counts : d \in Dates /\ counts[d] \in [Hours -> Nat]
  /\ lock    \in Requests \cup {Cleanup, None}
  /\ today   \in Dates
  /\ slots   \in Seq(Peaks) /\ Len(slots) <= SlotCount
  /\ sampled \in Peaks \cup {None}
  /\ truth   \in [0..LastHour -> Nat]
  /\ reach   \in [{"interval", "day"} -> Reach]
  /\ Len(told) <= MaxSamples

DashboardInit ==
  /\ hour = 0
  /\ request = [r \in Requests |-> "new"]
  /\ limiter = NewLimiter
  /\ counts = <<>>
  /\ lock = None
  /\ today = 0
  /\ slots = <<>>
  /\ sampled = None
  /\ truth = [t \in 0..LastHour |-> 0]
  /\ reach = [k \in {"interval", "day"} |-> [most |-> 0, met |-> 0]]
  /\ told = <<>>

----------------------------------------------------------------------------
(* The clock. *)

HourPasses ==
  /\ hour < LastHour
  /\ hour' = hour + 1
  /\ reach' = IF Date(hour + 1) = Date(hour) THEN reach
              ELSE [reach EXCEPT !["day"] = [most |-> limiter.activeConcurrency, met |-> 0]]
  /\ UNCHANGED <<request, limiter, hourVars, slotVars, sampled>>

----------------------------------------------------------------------------
(* A request: the middleware, the record of its usage, the deferred release. *)

Met(k, n) == [most |-> AtLeast(reach[k].most, n), met |-> AtLeast(reach[k].met, n)]

Arrive(r) ==
  /\ request[r] = "new"
  /\ request' = [request EXCEPT ![r] = "served"]
  /\ limiter' = Acquire(limiter, Date(hour))
  /\ reach' = [k \in {"interval", "day"} |-> Met(k, limiter.activeConcurrency + 1)]
  /\ UNCHANGED <<hour, hourVars, slotVars, sampled>>

\* HourlyCounter.Increment: the date, then the hour
LockCounts(r) ==
  /\ request[r] = "served"
  /\ lock = None
  /\ lock' = r
  /\ today' = Date(hour)
  /\ request' = [request EXCEPT ![r] = "hour"]
  /\ UNCHANGED <<hour, limiter, counts, truth, slotVars, sampled, reach>>

CountOf(d, h) == IF d \in DOMAIN counts THEN counts[d][h] ELSE 0

Increment(r) ==
  /\ request[r] = "hour"
  /\ counts' = [d \in DOMAIN counts \cup {today} |->
                 [h \in Hours |-> CountOf(d, h) + (IF d = today /\ h = Hour(hour) THEN 1 ELSE 0)]]
  /\ truth' = IF today = Date(hour) THEN [truth EXCEPT ![hour] = @ + 1] ELSE truth
  /\ lock' = None
  /\ today' = 0
  /\ request' = [request EXCEPT ![r] = "counted"]
  /\ UNCHANGED <<hour, limiter, slotVars, sampled, reach>>

\* It may leave without a record: it failed, or was refused.
Leave(r) ==
  /\ request[r] \in {"served", "counted"}
  /\ request' = [request EXCEPT ![r] = "gone"]
  /\ limiter' = Release(limiter)
  /\ UNCHANGED <<hour, hourVars, slotVars, sampled, reach>>

----------------------------------------------------------------------------
(* dateCheckLoop, every hour: the date of today, then yesterday's. *)

LockDates ==
  /\ lock = None
  /\ lock' = Cleanup
  /\ today' = Date(hour)
  /\ UNCHANGED <<hour, request, limiter, counts, truth, slotVars, sampled, reach>>

Expired(d) == d # today /\ d # Date(hour) - 1

DropDates ==
  /\ lock = Cleanup
  /\ counts' = [d \in {e \in DOMAIN counts : ~Expired(e)} |-> counts[d]]
  /\ lock' = None
  /\ today' = 0
  /\ UNCHANGED <<hour, request, limiter, truth, slotVars, sampled, reach>>

----------------------------------------------------------------------------
(* metricsLoop, every five minutes: the peak, then the slot. *)

TakePeak ==
  /\ sampled = None
  /\ Len(told) < MaxSamples
  /\ sampled' = IntervalPeak(limiter)
  /\ limiter' = IntervalReset(limiter)
  /\ told' = Append(told, [reach["interval"] EXCEPT !.met = AtLeast(@, limiter.activeConcurrency)])
  /\ reach' = [reach EXCEPT !["interval"] = [most |-> limiter.activeConcurrency, met |-> 0]]
  /\ UNCHANGED <<hour, request, hourVars, slots>>

\* The ring forgets its oldest value.
PushedInPlace(s, x) == IF Len(s) < SlotCount THEN Append(s, x) ELSE Append(Front(s), x)
Pushed(s, x)        == Append(IF Len(s) < SlotCount THEN s ELSE Tail(s), x)

SnapshotConcurrency ==
  /\ sampled # None
  /\ slots' = Pushed(slots, sampled)
  /\ sampled' = None
  /\ UNCHANGED <<hour, request, limiter, hourVars, told, reach>>

DashboardNext ==
  \/ HourPasses
  \/ \E r \in Requests :
       \/ Arrive(r)
       \/ LockCounts(r)
       \/ Increment(r)
       \/ Leave(r)
  \/ LockDates
  \/ DropDates
  \/ TakePeak
  \/ SnapshotConcurrency

DashboardSpec == DashboardInit /\ [][DashboardNext]_dashboardVars

----------------------------------------------------------------------------
(* What is shown. *)

\* GetLast24Hours: the i-th hour of the last day, the current one being the last
YesterdayTooFar(i, h) == i <= HoursPerDay - 1 - h
Yesterday(i, h)       == i < HoursPerDay - 1 - h

GetLast24Hours(i) ==
  LET h == (Hour(hour) - (HoursPerDay - 1) + i + HoursPerDay) % HoursPerDay
  IN  CountOf(IF Yesterday(i, Hour(hour)) THEN Date(hour) - 1 ELSE Date(hour), h)

\* GetHistory: from the oldest slot on
GetHistory == slots

(* Properties. *)

\* While the counter is not being changed, the view shows for each of the last 24
\* hours the requests that were counted in it, whatever cleanups, midnights and
\* requests came in between (service.go:66-124).  Left out: those whose date was
\* read before a midnight and whose hour after it (service.go:44-45).
HourlyShown ==
  lock = None =>
    \A i \in Hours :
      LET t == hour - (HoursPerDay - 1) + i
      IN  GetLast24Hours(i) = IF t < 0 THEN 0 ELSE truth[t]

\* The history has the last samples, in order.  Each is at most what was in progress
\* at some time since the sample before, and at least what any request found that
\* arrived since, and what was in progress when it was taken.
HistoryTold ==
  LET n == Len(told) - (IF sampled = None THEN 0 ELSE 1)
  IN  /\ Len(GetHistory) = (IF n < SlotCount THEN n ELSE SlotCount)
      /\ \A i \in DOMAIN GetHistory :
           LET t == told[n - Len(GetHistory) + i]
           IN  t.met <= GetHistory[i] /\ GetHistory[i] <= t.most

\* The peak shown for today is at most what was in progress at some time today, and at
\* least what a request found that arrived today, and what is in progress, also when
\* no request came since midnight.
TodayTold ==
  LET peak == PeakToday(limiter, Date(hour))
  IN  /\ AtLeast(reach["day"].met, limiter.activeConcurrency) <= peak
      /\ peak <= reach["day"].most

\* Both peaks are what requests found, and never more than was in progress, whatever
\* samples and midnights fall between arrivals and departures (limiter.go:26-88).
\* Only requests that were in progress before may be missing from a sample, or from
\* the day's peak, once they left.
PeaksTold == HistoryTold /\ TodayTold
=============================================================================
