------------------------------ MODULE Limiter ------------------------------
(***************************************************************************)
(* The concurrency limiter (internal/infra/concurrency/limiter.go), which  *)
(* limits nothing and keeps count: the requests in progress, the most of   *)
(* the day and the most since the last sample.  Its mutex makes each       *)
(* method one step: an operator from one state of the limiter to the next. *)
(***************************************************************************)
EXTENDS Naturals

States(n, days) ==
  [activeConcurrency : 0..n, peakToday : 0..n, peakDate : days, peakInterval : 0..n]

AtLeast(a, b) == IF a < b THEN b ELSE a

\* peakDate is empty until the first request; no day is before day 1.
NewLimiter == [activeConcurrency |-> 0, peakToday |-> 0, peakDate |-> 0, peakInterval |-> 0]

Acquire(l, today) ==
  LET current == l.activeConcurrency + 1
  IN  [activeConcurrency |-> current,
       peakToday         |-> AtLeast(IF today = l.peakDate THEN l.peakToday ELSE 0, current),
       peakDate          |-> today,
       peakInterval      |-> AtLeast(l.peakInterval, current)]

Release(l) == [l EXCEPT !.activeConcurrency = IF @ > 0 THEN @ - 1 ELSE 0]

\* peak_today of GetStats
PeakStaleDate(l, today) == l.peakToday
PeakToday(l, today)     == IF l.peakDate = today THEN l.peakToday ELSE l.activeConcurrency

\* GetAndResetIntervalPeak: what it returns, and what it leaves
IntervalPeakAsKept(l) == l.peakInterval
IntervalPeak(l)       == AtLeast(l.peakInterval, l.activeConcurrency)
IntervalReset(l)      == [l EXCEPT !.peakInterval = 0]
=============================================================================
