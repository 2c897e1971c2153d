------------------------------- MODULE Quota -------------------------------
(***************************************************************************)
(* The quota service (internal/domain/quota/service.go) as one user meets  *)
(* it: the requests of the user are checked against the quota policies     *)
(* bound to the user, counted in the rate counter of the current window    *)
(* and, once answered, in the day's usage, which the database keeps and a  *)
(* cache in memory repeats.  The keys of both counters begin with the      *)
(* user's ID, so users do not meet in them.                                *)
(*                                                                         *)
(* Each counter has a mutex, and the database runs one statement at a      *)
(* time; nothing holds two of them, so every access is a step of its own.  *)
(* time.Now is read again at every access.                                 *)
(***************************************************************************)
EXTENDS Naturals, Sequences, FiniteSets

CONSTANTS
  Requests,     \* concurrent requests of the user
  Models,       \* model IDs
  None,         \* nothing
  Policies,     \* the quota policies in the configuration
  Default,      \* the one named "default", or None
  Bound,        \* the policies bound to the user, in order
  CleanupAge,   \* rc.windowSec: 60 seconds
  DayLength,    \* ticks of the clock in a day
  MaxTime,      \* bound: the last tick
  MaxArrivals,  \* bound: requests in a behaviour
  MaxRestarts   \* bound: restarts of the process in a behaviour

Ticks == 0..MaxTime
Days  == 0..(MaxTime \div DayLength)

\* A limit of 0 is no limit.  A policy is open from a tick of the day to another,
\* or always when it names no range.
Policy == [models : SUBSET Models, limit : Nat, window : Nat, daily : Nat,
           default : Models \cup {None}, hours : SUBSET ((0..DayLength) \X (0..DayLength))]

ASSUME TimeAssumption     == DayLength \in Nat \ {0} /\ MaxTime \in Nat /\ CleanupAge \in Nat
ASSUME BoundsAssumption   == MaxArrivals \in Nat /\ MaxRestarts \in Nat
ASSUME PoliciesAssumption ==
  /\ Policies \subseteq Policy
  /\ Bound \in Seq(Policies)
  /\ Default \in Policies \cup {None}
ASSUME RequestsAssumption == IsFiniteSet(Requests)
ASSUME NoneAssumption     == None \notin Models \cup Policy \cup Nat

VARIABLES
  now,      \* the clock
  counts,   \* rc.counts, by the start of the window
  touched,  \* rc.windows: when the count was last incremented, or None
  cache,    \* dailyRequestCache, by day: a count, or None
  usage,    \* quota_usage_daily: requests answered, by day
  pc,       \* where each request is
  req,      \* what each request carries
  entered,  \* history: requests let in under each window, in the one now open
  budget    \* requests and restarts to come

vars == <<now, counts, touched, cache, usage, pc, req, entered, budget>>

----------------------------------------------------------------------------
(* Policies *)

Lists(p, m) == m \in p.models

\* GetPolicyForModel, then the default policy: what rules a model, or None.
Governing(m) ==
  LET listing == {i \in DOMAIN Bound : Lists(Bound[i], m)}
  IN  IF listing = {} THEN Default
      ELSE Bound[CHOOSE i \in listing : \A j \in listing : i <= j]

\* isWithinAvailableTime, for the tick of the day c.  A range may cross midnight.
Within(from, to, c) ==
  IF from <= to THEN from <= c /\ c < to ELSE from <= c \/ c < to

Open(p, c) == p.hours = {} \/ \E h \in p.hours : Within(h[1], h[2], c)

----------------------------------------------------------------------------
(* Time *)

Day(t) == t \div DayLength

\* getWindowKey: when the window around t began (Truncate leaves t alone for 0).
WindowStart(t, w) == IF w = 0 THEN t ELSE t - (t % w)

Windows == {p.window : p \in Policies}

----------------------------------------------------------------------------
NoRequest == [model |-> None, policy |-> None, retried |-> FALSE, day |-> 0, seen |-> 0]

Init ==
  /\ now     = 0
  /\ counts  = [k \in Ticks |-> 0]
  /\ touched = [k \in Ticks |-> None]
  /\ cache   = [d \in Days |-> None]
  /\ usage   = [d \in Days |-> 0]
  /\ pc      = [r \in Requests |-> "idle"]
  /\ req     = [r \in Requests |-> NoRequest]
  /\ entered = [w \in Windows |-> 0]
  /\ budget  = [arrivals |-> MaxArrivals, restarts |-> MaxRestarts]

Finish(r) ==
  /\ pc'  = [pc EXCEPT ![r] = "idle"]
  /\ req' = [req EXCEPT ![r] = NoRequest]

Goto(r, stage) == pc' = [pc EXCEPT ![r] = stage]

----------------------------------------------------------------------------
(* CheckQuotaMulti *)

Arrive(r, m) ==
  /\ pc[r] = "idle" /\ budget.arrivals > 0
  /\ budget' = [budget EXCEPT !.arrivals = @ - 1]
  /\ req' = [req EXCEPT ![r].model = m]
  /\ Goto(r, "check")
  /\ UNCHANGED <<now, counts, touched, cache, usage, entered>>

\* GetQuotaStats: the user looks at the day's count.
View(r) ==
  /\ pc[r] = "idle" /\ budget.arrivals > 0
  /\ budget' = [budget EXCEPT !.arrivals = @ - 1]
  /\ req' = [req EXCEPT ![r].day = Day(now)]
  /\ Goto(r, "look")
  /\ UNCHANGED <<now, counts, touched, cache, usage, entered>>

\* The requests counted in the window of a policy that is now open (GetCount).
Count(p) == counts[WindowStart(now, p.window)]

RateReached(p) == p.limit > 0 /\ Count(p) >= p.limit

Denied(p, m) == p # None /\ ~ Lists(p, m)

\* Mutant of FallBack: the check goes on under the policy that named the default.
FallBackUnchecked(r) ==
  LET p == Governing(req[r].model)
  IN  /\ pc[r] = "check"
      /\ Denied(p, req[r].model) /\ p.default # None /\ ~ req[r].retried
      /\ req' = [req EXCEPT ![r].model = p.default, ![r].retried = TRUE,
                            ![r].policy = p, ![r].day = Day(now)]
      /\ Goto(r, "look")
      /\ UNCHANGED <<now, counts, touched, cache, usage, entered, budget>>

\* A model that is not allowed is replaced once by the policy's default model.
FallBack(r) ==
  LET p == Governing(req[r].model)
  IN  /\ pc[r] = "check"
      /\ Denied(p, req[r].model) /\ p.default # None /\ ~ req[r].retried
      /\ req' = [req EXCEPT ![r].model = p.default, ![r].retried = TRUE]
      /\ UNCHANGED <<now, counts, touched, cache, usage, pc, entered, budget>>

\* No policy, the model not allowed, the policy closed or its rate reached.
Refuse(r) ==
  LET p == Governing(req[r].model)
  IN  /\ pc[r] = "check"
      /\ \/ p = None
         \/ Denied(p, req[r].model) /\ (p.default = None \/ req[r].retried)
         \/ p # None /\ Lists(p, req[r].model)
              /\ (~ Open(p, now % DayLength) \/ RateReached(p))
      /\ Finish(r)
      /\ UNCHANGED <<now, counts, touched, cache, usage, entered, budget>>

\* Mutant of Pass: the rate is compared with an off-by-one.
PassOneMore(r) ==
  LET p == Governing(req[r].model)
  IN  /\ pc[r] = "check"
      /\ p # None /\ Lists(p, req[r].model)
      /\ Open(p, now % DayLength) /\ ~ (p.limit > 0 /\ Count(p) > p.limit)
      /\ req' = [req EXCEPT ![r].policy = p, ![r].day = Day(now)]
      /\ Goto(r, "look")
      /\ UNCHANGED <<now, counts, touched, cache, usage, entered, budget>>

\* Model, hours and rate are in order: the day's count is next.
Pass(r) ==
  LET p == Governing(req[r].model)
  IN  /\ pc[r] = "check"
      /\ p # None /\ Lists(p, req[r].model)
      /\ Open(p, now % DayLength) /\ ~ RateReached(p)
      /\ req' = [req EXCEPT ![r].policy = p, ![r].day = Day(now)]
      /\ Goto(r, "look")
      /\ UNCHANGED <<now, counts, touched, cache, usage, entered, budget>>

\* What follows once the day's count n is known: a view ends with it, a request is
\* refused, or is to be counted and to be served.
Settle(r, n) ==
  LET p == req[r].policy
  IN  IF p = None \/ (p.daily > 0 /\ n >= p.daily)
      THEN Finish(r)
      ELSE Goto(r, "enter") /\ req' = [req EXCEPT ![r].seen = 0]

\* getDailyRequestCountWithCache: the cache ...
Look(r) ==
  /\ pc[r] = "look"
  /\ IF cache[req[r].day] # None
     THEN Settle(r, cache[req[r].day])
     ELSE Goto(r, "query") /\ UNCHANGED req
  /\ UNCHANGED <<now, counts, touched, cache, usage, entered, budget>>

\* ... or the database ...
Query(r) ==
  /\ pc[r] = "query"
  /\ req' = [req EXCEPT ![r].seen = usage[req[r].day]]
  /\ Goto(r, "fill")
  /\ UNCHANGED <<now, counts, touched, cache, usage, entered, budget>>

FailToQuery(r) ==
  /\ pc[r] = "query"
  /\ Finish(r)
  /\ UNCHANGED <<now, counts, touched, cache, usage, entered, budget>>

\* ... whose answer is put in the cache, whatever the cache holds by now.
Fill(r) ==
  /\ pc[r] = "fill"
  /\ cache' = [cache EXCEPT ![req[r].day] = req[r].seen]
  /\ Settle(r, req[r].seen)
  /\ UNCHANGED <<now, counts, touched, usage, entered, budget>>

\* IncrementRate: the request is counted, and is to be served.
Enter(r) ==
  LET w == req[r].policy.window
      k == WindowStart(now, w)
      stale == touched[k] = None \/ now - touched[k] >= w
  IN  /\ pc[r] = "enter"
      /\ counts'  = [counts EXCEPT ![k] = IF stale THEN 1 ELSE @ + 1]
      /\ touched' = [touched EXCEPT ![k] = now]
      /\ entered' = [entered EXCEPT ![w] = @ + 1]
      /\ Goto(r, "select")
      /\ UNCHANGED <<now, cache, usage, req, budget>>

----------------------------------------------------------------------------
(* selectBackend.  Which models have backends is up to the configuration, which may be   *)
(* reloaded at any moment.                                                               *)

\* Next finds backends of the model, or none of it and some of the default model of the
\* policy that passed, on which the request then runs and is charged without a check.
SelectBackend(r) ==
  /\ pc[r] = "select"
  /\ \E m \in {req[r].model, req[r].policy.default} \ {None} :
       req' = [req EXCEPT ![r].model = m]
  /\ Goto(r, "run")
  /\ UNCHANGED <<now, counts, touched, cache, usage, entered, budget>>

\* Neither has any, or those there are have no capacity left.
Unserved(r) ==
  /\ pc[r] = "select"
  /\ Finish(r)
  /\ UNCHANGED <<now, counts, touched, cache, usage, entered, budget>>

----------------------------------------------------------------------------
(* RecordRequestTokens *)

\* A backend answered without an error: the database counts the request.
Complete(r) ==
  /\ pc[r] = "run"
  /\ usage' = [usage EXCEPT ![Day(now)] = @ + 1]
  /\ Goto(r, "add")
  /\ UNCHANGED <<now, counts, touched, cache, req, entered, budget>>

\* Mutant of Drop: a failure of the database does not end the record.
DropCounting(r) ==
  /\ pc[r] = "run"
  /\ Goto(r, "add")
  /\ UNCHANGED <<now, counts, touched, cache, usage, req, entered, budget>>

\* No answer or one with an error, or the database fails: not counted.
Drop(r) ==
  /\ pc[r] = "run"
  /\ Finish(r)
  /\ UNCHANGED <<now, counts, touched, cache, usage, entered, budget>>

\* The cache follows the database; an entry it does not have begins at 1.
Add(r) ==
  /\ pc[r] = "add"
  /\ cache' = [cache EXCEPT ![Day(now)] = IF @ = None THEN 1 ELSE @ + 1]
  /\ Finish(r)
  /\ UNCHANGED <<now, counts, touched, usage, entered, budget>>

----------------------------------------------------------------------------
(* Background *)

\* Mutant of Cleanup: it drops the counts that have just been touched.
CleanupYoung ==
  LET old == {k \in Ticks : touched[k] # None /\ now - touched[k] < CleanupAge}
  IN  /\ old # {}
      /\ counts'  = [k \in Ticks |-> IF k \in old THEN 0 ELSE counts[k]]
      /\ touched' = [k \in Ticks |-> IF k \in old THEN None ELSE touched[k]]
      /\ UNCHANGED <<now, cache, usage, pc, req, entered, budget>>

\* cleanup drops the counts not touched for CleanupAge, whatever their window.
Cleanup ==
  LET old == {k \in Ticks : touched[k] # None /\ now - touched[k] >= CleanupAge}
  IN  /\ old # {}
      /\ counts'  = [k \in Ticks |-> IF k \in old THEN 0 ELSE counts[k]]
      /\ touched' = [k \in Ticks |-> IF k \in old THEN None ELSE touched[k]]
      /\ UNCHANGED <<now, cache, usage, pc, req, entered, budget>>

\* CleanupExpired keeps nothing but the day's count.
CleanupExpired ==
  /\ \E d \in Days \ {Day(now)} : cache[d] # None
  /\ cache' = [d \in Days |-> IF d = Day(now) THEN cache[d] ELSE None]
  /\ UNCHANGED <<now, counts, touched, usage, pc, req, entered, budget>>

\* The history follows the window that is open.
Tick ==
  /\ now < MaxTime
  /\ now' = now + 1
  /\ entered' = [w \in Windows |->
                   IF WindowStart(now', w) = WindowStart(now, w) THEN entered[w] ELSE 0]
  /\ UNCHANGED <<counts, touched, cache, usage, pc, req, budget>>

\* A crash or a new start: the database is what remains.
Restart ==
  /\ budget.restarts > 0
  /\ budget'  = [budget EXCEPT !.restarts = @ - 1]
  /\ counts'  = [k \in Ticks |-> 0]
  /\ touched' = [k \in Ticks |-> None]
  /\ cache'   = [d \in Days |-> None]
  /\ pc'      = [r \in Requests |-> "idle"]
  /\ req'     = [r \in Requests |-> NoRequest]
  /\ entered' = [w \in Windows |-> 0]
  /\ UNCHANGED <<now, usage>>

----------------------------------------------------------------------------
(* Specification *)

Check(r) ==
  \/ FallBack(r) \/ Refuse(r) \/ Pass(r)
  \/ Look(r) \/ Query(r) \/ FailToQuery(r) \/ Fill(r) \/ Enter(r)

Serve(r) == SelectBackend(r) \/ Unserved(r)

Record(r) == Complete(r) \/ Drop(r) \/ Add(r)

Next ==
  \/ \E r \in Requests : View(r) \/ Check(r) \/ Serve(r) \/ Record(r)
  \/ \E r \in Requests, m \in Models : Arrive(r, m)
  \/ Cleanup \/ CleanupExpired \/ Tick \/ Restart

Spec == Init /\ [][Next]_vars

----------------------------------------------------------------------------
(* Properties *)

Stages == {"idle", "check", "look", "query", "fill", "enter", "select", "run", "add"}

\* Every variable has its type, and whoever is let in has been checked by a policy.
TypeOK ==
  /\ now \in Ticks
  /\ counts \in [Ticks -> Nat] /\ touched \in [Ticks -> Ticks \cup {None}]
  /\ cache \in [Days -> Nat \cup {None}] /\ usage \in [Days -> Nat]
  /\ entered \in [Windows -> Nat]
  /\ pc \in [Requests -> Stages]
  /\ req \in [Requests -> [model : Models \cup {None}, policy : Policies \cup {None},
                           retried : BOOLEAN, day : Days, seen : Nat]]
  /\ \A r \in Requests : pc[r] \in {"enter", "select", "run", "add"} => req[r].policy # None

\* The count of the open window is the number of requests let in under it: neither
\* the cleanup nor the clock loses or adds any.  (For policies of one window no
\* longer than CleanupAge.)
RateExact == \A w \in Windows : counts[WindowStart(now, w)] = entered[w]

\* A window lets in more requests than its limit only by those checked at once:
\* check and count are two steps.
RateOvershoot ==
  \A p \in Policies :
    (\A q \in Policies : q.limit \in 1..p.limit) =>
      \A w \in Windows : entered[w] < p.limit + Cardinality(Requests)

\* Until a backend is selected a request is under the policy that rules its model, and that
\* lists it: the default model put for a refused one (FallBack) is no way around the
\* lists.  It then runs on this model, or on that policy's own default model.
OnlyGrantedModels ==
  \A r \in Requests :
    LET p == req[r].policy
        m == req[r].model
    IN  p # None =>
          /\ pc[r] \in {"look", "query", "fill", "enter", "select"} =>
               p = Governing(m) /\ Lists(p, m)
          /\ pc[r] \in {"run", "add"} => Lists(p, m) \/ m = p.default

\* The answered requests the cache has not counted yet.
Uncounted == Cardinality({r \in Requests : pc[r] = "add"})

Filling(d) == \E r \in Requests : pc[r] = "fill" /\ req[r].day = d

\* While no late answer of the database is about to overwrite it, the cached count
\* of the day moves with the database: it is as far from it as it was.
CacheFollows ==
  [][LET d == Day(now)
     IN  /\ now' = now
         /\ ~ Filling(d) /\ cache[d] # None /\ cache'[d] # None
         => cache'[d] + Uncounted' - usage'[d] = cache[d] + Uncounted - usage[d]]_vars

----------------------------------------------------------------------------
(* What comments say or a reader would expect, and the code does not do *)

\* "Models": a request runs only on models that its policy lists.  Next replaces one that
\* has no backends by the default model, listed or not.
OnlyListedModels ==
  \A r \in Requests : pc[r] \in {"run", "add"} => Lists(req[r].policy, req[r].model)

\* "Clean up expired counters": the count of a window is kept while it is open.
CountsKept == \A w \in Windows : counts[WindowStart(now, w)] >= entered[w]

\* "The day's requests, cached": when nothing is in progress, the cache repeats the
\* database.
CacheExact ==
  (\A r \in Requests : pc[r] = "idle") =>
    cache[Day(now)] \in {None, usage[Day(now)]}
=============================================================================
