---------------------------- MODULE QuotaProofs ----------------------------
(***************************************************************************)
(* Proofs about Quota for any number of requests, any policies, windows    *)
(* and days, and restarts at any point.                                    *)
(***************************************************************************)
EXTENDS Quota, Integers, TLAPS, SequenceTheorems, FiniteSetTheorems, WellFoundedInduction

----------------------------------------------------------------------------
(* The inductive invariant *)

\* What a request carries.
Carried == [model : Models \cup {None}, policy : Policies \cup {None},
            retried : BOOLEAN, day : Days, seen : Nat]

\* It carries a policy from the moment it passed it, which rules its model until a backend
\* is selected; a view carries none.
Ruled(x) == x.policy # None /\ x.policy = Governing(x.model) /\ Lists(x.policy, x.model)

Granted(x) == x.policy # None /\ (Lists(x.policy, x.model) \/ x.model = x.policy.default)

Fits(stage, x) ==
  /\ stage = "idle" => x = NoRequest
  /\ stage = "check" => x.policy = None /\ x.model # None
  /\ stage \in {"look", "query", "fill"} => (x.model = None /\ x.policy = None) \/ Ruled(x)
  /\ stage \in {"enter", "select"} => Ruled(x)
  /\ stage \in {"run", "add"} => Granted(x)

Carries(r) == Fits(pc[r], req[r])

IInv == TypeOK /\ \A r \in Requests : Carries(r)

\* A count is one of requests that entered in its own window, and goes with their time.
Counted(w) ==
  \A k \in Ticks :
    IF touched[k] = None THEN counts[k] = 0
    ELSE k <= touched[k] /\ touched[k] < k + w /\ touched[k] <= now

RateInv == \A w \in Windows : Counted(w) /\ counts[WindowStart(now, w)] = entered[w]

\* The requests that were checked and are not yet counted.
Checked == {r \in Requests : /\ pc[r] \in {"look", "query", "fill", "enter"}
                             /\ req[r].policy # None}

\* They and those that are counted are one less than the limit and the requests together.
Allowance(n) == \A w \in Windows : entered[w] + Cardinality(Checked) < n + Cardinality(Requests)

Overshoot == \A p \in Policies : (\A q \in Policies : q.limit \in 1..p.limit) => Allowance(p.limit)

----------------------------------------------------------------------------
(* Policies and time *)

\* A set of positions has a first one.
LEMMA FirstPosition ==
  ASSUME NEW T \in SUBSET Nat, T # {}
  PROVE  \E i \in T : \A j \in T : i <= j
<1>1. PICK i \in T : \A j \in T : ~ (<<j, i>> \in OpToRel(<, Nat))
  BY WFMin, NatLessThanWellFounded
<1>2. \A j \in T : i <= j
  <2> SUFFICES ASSUME NEW j \in T PROVE i <= j
    OBVIOUS
  <2>1. ~ (j < i)
    BY <1>1 DEF OpToRel
  <2> QED
    BY <2>1
<1> QED
  BY <1>2

\* What rules a model is a policy of the configuration.
LEMMA GoverningType ==
  ASSUME NEW m
  PROVE  Governing(m) \in Policies \cup {None}
<1> DEFINE listing == {i \in DOMAIN Bound : Lists(Bound[i], m)}
           k == CHOOSE i \in listing : \A j \in listing : i <= j
<1>1. Bound \in Seq(Policies) /\ Len(Bound) \in Nat /\ DOMAIN Bound = 1..Len(Bound)
  BY PoliciesAssumption, LenProperties
<1>2. CASE listing = {}
  BY <1>2, PoliciesAssumption DEF Governing
<1>3. CASE listing # {}
  <2>1. listing \in SUBSET Nat /\ listing \subseteq 1..Len(Bound)
    BY <1>1
  <2>2. k \in listing
    <3> HIDE DEF listing
    <3> QED
      BY <1>3, <2>1, FirstPosition
  <2>3. Governing(m) = Bound[k]
    BY <1>3 DEF Governing
  <2> HIDE DEF k, listing
  <2>4. Bound[k] \in Policies
    BY <1>1, <2>1, <2>2, ElementOfSeq
  <2> QED
    BY <2>3, <2>4
<1> QED
  BY <1>2, <1>3

LEMMA PolicyType ==
  ASSUME NEW p \in Policies
  PROVE  /\ p.limit \in Nat /\ p.window \in Nat /\ p.daily \in Nat
         /\ p.default \in Models \cup {None} /\ p.window \in Windows
         /\ p # None
BY PoliciesAssumption, NoneAssumption DEF Policy, Windows

\* Every tick is in a day.
LEMMA DayType ==
  ASSUME NEW t \in Ticks
  PROVE  Day(t) \in Days
BY TimeAssumption DEF Ticks, Days, Day

LEMMA Quotient ==
  ASSUME NEW n \in Nat, NEW w \in Nat \ {0}
  PROVE  n % w \in 0..(w - 1) /\ n \div w \in Nat /\ n = w * (n \div w) + (n % w)
<1>1. n % w \in 0..(w - 1)
  OBVIOUS
<1>2. n = w * (n \div w) + (n % w)
  OBVIOUS
<1>3. n \div w \in Nat
  <2>1. n \div w \in Int
    OBVIOUS
  <2>2. \A q \in Int : q < 0 => w * q <= 0 - w
    OBVIOUS
  <2>3. ~ (n \div w < 0)
    <3> DEFINE q == n \div w
               r == n % w
               p == w * q
    <3>1. q \in Int /\ n = p + r /\ r \in 0..(w - 1) /\ p \in Int
      BY <1>1, <1>2, <2>1
    <3>2. q < 0 => p <= 0 - w
      BY <2>1, <2>2
    <3> HIDE DEF q, r, p
    <3>3. ~ (q < 0)
      BY <3>1, <3>2
    <3> QED
      BY <3>3 DEF q
  <2> QED
    BY <2>1, <2>3
<1> QED
  BY <1>1, <1>2, <1>3

LEMMA Remainder ==
  ASSUME NEW q \in Nat, NEW w \in Nat \ {0}, NEW r \in 0..(w - 1)
  PROVE  (w * q + r) % w = r
OBVIOUS

\* The window around a tick begins at most a window before it, and the next tick is in
\* it too, or begins another.
LEMMA WindowOf ==
  ASSUME NEW w \in Nat \ {0}, NEW t \in Nat
  PROVE  /\ WindowStart(t, w) \in Nat
         /\ WindowStart(t, w) <= t /\ t < WindowStart(t, w) + w
         /\ WindowStart(t + 1, w) \in {WindowStart(t, w), t + 1}
<1>1. t % w \in 0..(w - 1) /\ t \div w \in Nat /\ t = w * (t \div w) + (t % w)
  BY Quotient
<1>2. WindowStart(t, w) = t - (t % w)
  BY DEF WindowStart
<1>3. WindowStart(t + 1, w) = t + 1 - ((t + 1) % w)
  BY DEF WindowStart
<1> DEFINE q == t \div w
           r == t % w
<1> HIDE DEF q, r
<1>4. q \in Nat /\ r \in 0..(w - 1) /\ t = w * q + r
  BY <1>1 DEF q, r
<1>5. CASE r + 1 < w
  <2>1. (w * q + (r + 1)) % w = r + 1
    BY <1>4, <1>5, Remainder
  <2>2. t + 1 = w * q + (r + 1)
    BY <1>4
  <2> QED
    BY <1>2, <1>3, <1>4, <2>1, <2>2 DEF r
<1>6. CASE r + 1 = w
  <2>1. (w * (q + 1) + 0) % w = 0
    BY <1>4, Remainder
  <2>2. t + 1 = w * (q + 1) + 0
    BY <1>4, <1>6
  <2>3. (t + 1) % w = 0
    BY <2>1, <2>2
  <2> QED
    BY <1>2, <1>3, <1>4, <2>3 DEF r
<1> QED
  BY <1>4, <1>5, <1>6

\* A window begins at a tick.
LEMMA WindowType ==
  ASSUME NEW w \in Nat, NEW t \in Ticks
  PROVE  WindowStart(t, w) \in Ticks /\ WindowStart(t, w) <= t
<1>1. t \in Nat /\ t <= MaxTime /\ MaxTime \in Nat
  BY TimeAssumption DEF Ticks
<1>2. WindowStart(t, w) \in Nat /\ WindowStart(t, w) <= t
  <2>1. CASE w = 0
    BY <1>1, <2>1 DEF WindowStart
  <2>2. CASE w # 0
    BY <1>1, <2>2, WindowOf
  <2> QED
    BY <2>1, <2>2
<1> QED
  BY <1>1, <1>2 DEF Ticks

----------------------------------------------------------------------------
(* Steps of a request *)

\* What a request does to itself.
LEMMA OwnStep ==
  ASSUME IInv, NEW r \in Requests, NEW stage \in Stages, NEW record \in Carried,
         pc' = [pc EXCEPT ![r] = stage], req' = [req EXCEPT ![r] = record],
         Fits(stage, record),
         UNCHANGED now,
         counts' \in [Ticks -> Nat], touched' \in [Ticks -> Ticks \cup {None}],
         cache' \in [Days -> Nat \cup {None}], usage' \in [Days -> Nat],
         entered' \in [Windows -> Nat]
  PROVE  IInv'
<1>1. /\ pc \in [Requests -> Stages] /\ req \in [Requests -> Carried] /\ now \in Ticks
      /\ \A q \in Requests : Carries(q)
  BY DEF IInv, TypeOK, Carried
<1>2. /\ pc' \in [Requests -> Stages] /\ req' \in [Requests -> Carried]
      /\ pc'[r] = stage /\ req'[r] = record
      /\ \A q \in Requests \ {r} : pc'[q] = pc[q] /\ req'[q] = req[q]
  BY <1>1
<1>3. \A q \in Requests : Fits(pc'[q], req'[q])
  BY <1>1, <1>2 DEF Carries
<1>4. \A q \in Requests :
        /\ Carries(q)'
        /\ pc'[q] \in {"enter", "select", "run", "add"} => req'[q].policy # None
  BY <1>3 DEF Carries, Fits, Ruled, Granted
<1>5. TypeOK'
  BY <1>1, <1>2, <1>4 DEF TypeOK, Carried
<1> QED
  BY <1>4, <1>5 DEF IInv

LEMMA Empty == NoRequest \in Carried /\ NoRequest.model = None /\ NoRequest.policy = None
BY TimeAssumption DEF NoRequest, Carried, Days

\* A request that ends.
LEMMA FinishStep ==
  ASSUME IInv, NEW r \in Requests, Finish(r), UNCHANGED now,
         counts' \in [Ticks -> Nat], touched' \in [Ticks -> Ticks \cup {None}],
         cache' \in [Days -> Nat \cup {None}], usage' \in [Days -> Nat],
         entered' \in [Windows -> Nat]
  PROVE  IInv'
<1>1. "idle" \in Stages /\ NoRequest \in Carried
  BY Empty DEF Stages
<1>2. pc' = [pc EXCEPT ![r] = "idle"] /\ req' = [req EXCEPT ![r] = NoRequest]
  BY DEF Finish
<1>3. Fits("idle", NoRequest)
  BY DEF Fits
<1> QED
  BY <1>1, <1>2, <1>3, OwnStep

\* What a request is before a step of it.
LEMMA Before ==
  ASSUME IInv, NEW r \in Requests
  PROVE  /\ req[r] \in Carried /\ req \in [Requests -> Carried] /\ pc[r] \in Stages
         /\ now \in Ticks /\ Day(now) \in Days
         /\ req[r].model \in Models \cup {None} /\ req[r].policy \in Policies \cup {None}
         /\ req[r].day \in Days /\ req[r].seen \in Nat
         /\ counts \in [Ticks -> Nat] /\ touched \in [Ticks -> Ticks \cup {None}]
         /\ cache \in [Days -> Nat \cup {None}] /\ usage \in [Days -> Nat]
         /\ entered \in [Windows -> Nat]
         /\ pc[r] \in {"enter", "select", "run", "add"} => req[r].policy # None
         /\ Carries(r)
BY DayType DEF IInv, TypeOK, Carried

\* A request of which the day's count is known ends or goes on to be counted.
LEMMA SettleStep ==
  ASSUME IInv, NEW r \in Requests, NEW n, Settle(r, n), pc[r] \in {"look", "fill"},
         UNCHANGED <<now, counts, touched, usage, entered>>,
         cache' \in [Days -> Nat \cup {None}]
  PROVE  IInv'
<1>1. /\ req[r] \in Carried /\ req \in [Requests -> Carried] /\ Carries(r)
      /\ counts' \in [Ticks -> Nat] /\ touched' \in [Ticks -> Ticks \cup {None}]
      /\ usage' \in [Days -> Nat] /\ entered' \in [Windows -> Nat]
  BY Before
<1>2. CASE Finish(r)
  BY <1>1, <1>2, FinishStep
<1>3. CASE ~ Finish(r)
  <2> DEFINE record == [req[r] EXCEPT !.seen = 0]
  <2>1. /\ req[r].policy # None
        /\ pc' = [pc EXCEPT ![r] = "enter"] /\ req' = [req EXCEPT ![r] = record]
    BY <1>1, <1>3 DEF Settle, Goto
  <2>2. /\ record \in Carried /\ record.policy = req[r].policy /\ record.model = req[r].model
    BY <1>1 DEF Carried
  <2>3. "enter" \in Stages
    BY DEF Stages
  <2>4. Fits("enter", record)
    BY <1>1, <2>1, <2>2 DEF Carries, Fits, Ruled
  <2> HIDE DEF record
  <2> QED
    BY <1>1, <2>1, <2>2, <2>3, <2>4, OwnStep
<1> QED
  BY <1>2, <1>3

LEMMA ArriveStep ==
  ASSUME IInv, NEW r \in Requests, View(r) \/ \E m \in Models : Arrive(r, m)
  PROVE  IInv'
<1>1. /\ req[r] \in Carried /\ req \in [Requests -> Carried] /\ Carries(r) /\ Day(now) \in Days
      /\ pc[r] = "idle" /\ UNCHANGED <<now, counts, touched, cache, usage, entered>>
  BY Before DEF View, Arrive
<1>2. req[r].model = None /\ req[r].policy = None
  BY <1>1, Empty DEF Carries, Fits
<1>3. CASE View(r)
  <2> DEFINE record == [req[r] EXCEPT !.day = Day(now)]
  <2>1. pc' = [pc EXCEPT ![r] = "look"] /\ req' = [req EXCEPT ![r] = record]
    BY <1>1, <1>3 DEF View, Goto
  <2>2. record \in Carried /\ record.policy = None /\ record.model = None /\ "look" \in Stages
    BY <1>1, <1>2 DEF Carried, Stages
  <2> HIDE DEF record
  <2>3. Fits("look", record)
    BY <2>2 DEF Fits
  <2> QED
    BY <1>1, <2>1, <2>2, <2>3, OwnStep, Before
<1>4. ASSUME NEW m \in Models, Arrive(r, m) PROVE IInv'
  <2> DEFINE record == [req[r] EXCEPT !.model = m]
  <2>1. pc' = [pc EXCEPT ![r] = "check"] /\ req' = [req EXCEPT ![r] = record]
    BY <1>1, <1>4 DEF Arrive, Goto
  <2>2. record \in Carried /\ record.policy = None /\ record.model # None /\ "check" \in Stages
    BY <1>1, <1>2, NoneAssumption DEF Carried, Stages
  <2> HIDE DEF record
  <2>3. Fits("check", record)
    BY <2>2 DEF Fits
  <2> QED
    BY <1>1, <2>1, <2>2, <2>3, OwnStep, Before
<1> QED
  BY <1>3, <1>4

\* The policies are asked: a request that passes carries the one that lists its model.
LEMMA CheckStep ==
  ASSUME IInv, NEW r \in Requests, FallBack(r) \/ Refuse(r) \/ Pass(r)
  PROVE  IInv'
<1> DEFINE p == Governing(req[r].model)
<1>1. /\ req[r] \in Carried /\ req \in [Requests -> Carried] /\ Carries(r) /\ Day(now) \in Days
      /\ pc[r] = "check" /\ UNCHANGED <<now, counts, touched, cache, usage, entered>>
      /\ pc \in [Requests -> Stages]
  BY Before DEF FallBack, Refuse, Pass, IInv, TypeOK
<1>2. req[r].policy = None /\ req[r].model # None
  BY <1>1 DEF Carries, Fits
<1>3. p \in Policies \cup {None}
  BY GoverningType
<1>4. CASE FallBack(r)
  <2> DEFINE record == [req[r] EXCEPT !.model = p.default, !.retried = TRUE]
  <2>1. p # None /\ p.default # None /\ req' = [req EXCEPT ![r] = record]
        /\ pc' = [pc EXCEPT ![r] = "check"]
    BY <1>1, <1>4 DEF FallBack, Denied
  <2>2. p.default \in Models
    BY <1>3, <2>1, PolicyType
  <2> HIDE DEF p
  <2>3. record \in Carried /\ record.policy = None /\ record.model # None /\ "check" \in Stages
    BY <1>1, <1>2, <2>1, <2>2 DEF Carried, Stages
  <2> HIDE DEF record
  <2>4. Fits("check", record)
    BY <2>3 DEF Fits
  <2> QED
    BY <1>1, <2>1, <2>3, <2>4, OwnStep, Before
<1>5. CASE Refuse(r)
  BY <1>1, <1>5, FinishStep, Before DEF Refuse
<1>6. CASE Pass(r)
  <2> DEFINE record == [req[r] EXCEPT !.policy = p, !.day = Day(now)]
  <2>1. /\ p # None /\ Lists(p, req[r].model) /\ req' = [req EXCEPT ![r] = record]
        /\ pc' = [pc EXCEPT ![r] = "look"] /\ p = Governing(req[r].model)
    BY <1>1, <1>6 DEF Pass, Goto
  <2> HIDE DEF p
  <2>2. /\ record \in Carried /\ record.policy = p /\ record.model = req[r].model
        /\ "look" \in Stages
    BY <1>1, <1>3 DEF Carried, Stages
  <2> HIDE DEF record
  <2>3. Fits("look", record)
    BY <2>1, <2>2 DEF Fits, Ruled
  <2> QED
    BY <1>1, <2>1, <2>2, <2>3, OwnStep, Before
<1> QED
  BY <1>4, <1>5, <1>6

\* The day's count is read from the cache or from the database.
LEMMA CountStep ==
  ASSUME IInv, NEW r \in Requests, Look(r) \/ Query(r) \/ FailToQuery(r) \/ Fill(r)
  PROVE  IInv'
<1>1. /\ req[r] \in Carried /\ req \in [Requests -> Carried] /\ Carries(r)
      /\ pc[r] \in {"look", "query", "fill"} /\ UNCHANGED <<now, counts, touched, usage, entered>>
  BY Before DEF Look, Query, FailToQuery, Fill
<1>2. ASSUME NEW stage \in {"query", "fill"}, NEW n \in Nat, UNCHANGED cache,
             pc' = [pc EXCEPT ![r] = stage], req' = [req EXCEPT ![r] = [req[r] EXCEPT !.seen = n]]
      PROVE  IInv'
  <2> DEFINE record == [req[r] EXCEPT !.seen = n]
  <2>1. /\ record \in Carried /\ record.policy = req[r].policy /\ record.model = req[r].model
        /\ stage \in Stages
    BY <1>1 DEF Carried, Stages
  <2>2. Fits(stage, record)
    BY <1>1, <2>1 DEF Carries, Fits, Ruled
  <2>3. req' = [req EXCEPT ![r] = record]
    BY <1>2
  <2> HIDE DEF record
  <2> QED
    BY <1>1, <1>2, <2>1, <2>2, <2>3, OwnStep, Before
<1>3. CASE Look(r)
  <2>1. CASE cache[req[r].day] # None
    BY <1>3, <2>1, SettleStep, Before DEF Look
  <2>2. CASE cache[req[r].day] = None
    <3>1. pc' = [pc EXCEPT ![r] = "query"] /\ req' = req /\ cache' = cache
      BY <1>3, <2>2 DEF Look, Goto
    <3>2. req[r].seen \in Nat
      BY Before
    <3>3. req' = [req EXCEPT ![r] = [req[r] EXCEPT !.seen = req[r].seen]]
      BY <1>1, <3>1 DEF Carried
    <3> QED
      BY <1>2, <3>1, <3>2, <3>3
  <2> QED
    BY <2>1, <2>2
<1>4. CASE Query(r)
  <2>1. usage[req[r].day] \in Nat
    BY Before
  <2>2. /\ pc' = [pc EXCEPT ![r] = "fill"] /\ cache' = cache
        /\ req' = [req EXCEPT ![r] = [req[r] EXCEPT !.seen = usage[req[r].day]]]
    BY <1>4 DEF Query, Goto
  <2> QED
    BY <1>2, <2>1, <2>2
<1>5. CASE FailToQuery(r)
  BY <1>1, <1>5, FinishStep, Before DEF FailToQuery
<1>6. CASE Fill(r)
  <2>1. cache' \in [Days -> Nat \cup {None}]
    BY <1>6, Before DEF Fill
  <2> QED
    BY <1>1, <1>6, <2>1, SettleStep DEF Fill
<1> QED
  BY <1>3, <1>4, <1>5, <1>6

\* The request is counted.
LEMMA EnterStep ==
  ASSUME IInv, NEW r \in Requests, Enter(r)
  PROVE  IInv'
<1> DEFINE w == req[r].policy.window
           k == WindowStart(now, w)
<1>1. /\ req[r] \in Carried /\ req \in [Requests -> Carried] /\ Carries(r) /\ now \in Ticks
      /\ req[r].policy \in Policies /\ pc[r] = "enter"
      /\ counts \in [Ticks -> Nat] /\ touched \in [Ticks -> Ticks \cup {None}]
      /\ entered \in [Windows -> Nat]
  BY Before DEF Enter
<1>2. w \in Windows /\ w \in Nat
  BY <1>1, PolicyType
<1>3. k \in Ticks
  BY <1>1, <1>2, WindowType
<1>4. /\ \/ counts' = [counts EXCEPT ![k] = 1] \/ counts' = [counts EXCEPT ![k] = @ + 1]
      /\ touched' = [touched EXCEPT ![k] = now]
      /\ entered' = [entered EXCEPT ![w] = @ + 1]
      /\ pc' = [pc EXCEPT ![r] = "select"] /\ req' = [req EXCEPT ![r] = req[r]]
      /\ UNCHANGED <<now, cache, usage>>
  BY <1>1 DEF Enter, Goto
<1> HIDE DEF w, k
<1>5. /\ counts' \in [Ticks -> Nat] /\ touched' \in [Ticks -> Ticks \cup {None}]
      /\ entered' \in [Windows -> Nat]
  BY <1>1, <1>2, <1>3, <1>4
<1>6. "select" \in Stages /\ Fits("select", req[r])
  BY <1>1 DEF Stages, Carries, Fits
<1> QED
  BY <1>1, <1>4, <1>5, <1>6, OwnStep, Before

\* Next of the load balancer gives the request a backend of its model or of the default one.
LEMMA ServeStep ==
  ASSUME IInv, NEW r \in Requests, Serve(r)
  PROVE  IInv'
<1>1. CASE SelectBackend(r)
  <2>1. PICK m \in {req[r].model, req[r].policy.default} \ {None} :
          req' = [req EXCEPT ![r] = [req[r] EXCEPT !.model = m]]
    BY <1>1 DEF SelectBackend
  <2> DEFINE record == [req[r] EXCEPT !.model = m]
  <2>2. /\ req[r] \in Carried /\ Carries(r) /\ pc[r] = "select"
        /\ pc' = [pc EXCEPT ![r] = "run"] /\ UNCHANGED <<now, counts, touched, cache, usage, entered>>
    BY <1>1, Before DEF SelectBackend, Goto
  <2>3. Ruled(req[r]) /\ req[r].policy \in Policies
    BY <2>2 DEF Carries, Fits, Ruled, Carried
  <2>4. m \in Models
    BY <2>1, <2>2, <2>3, PolicyType DEF Carried
  <2>5. /\ record \in Carried /\ record.policy = req[r].policy /\ record.model = m
        /\ "run" \in Stages
    BY <2>2, <2>4 DEF Carried, Stages
  <2>6. req' = [req EXCEPT ![r] = record]
    BY <2>1
  <2> HIDE DEF record
  <2>7. Fits("run", record)
    BY <2>1, <2>3, <2>5 DEF Fits, Ruled, Granted
  <2> QED
    BY <2>2, <2>5, <2>6, <2>7, OwnStep, Before
<1>2. CASE Unserved(r)
  BY <1>2, FinishStep, Before DEF Unserved
<1> QED
  BY <1>1, <1>2 DEF Serve

\* The answer is recorded.
LEMMA RecordStep ==
  ASSUME IInv, NEW r \in Requests, Record(r)
  PROVE  IInv'
<1>1. /\ req[r] \in Carried /\ req \in [Requests -> Carried] /\ Carries(r) /\ Day(now) \in Days
      /\ cache \in [Days -> Nat \cup {None}] /\ usage \in [Days -> Nat]
  BY Before
<1>2. CASE Complete(r)
  <2>1. /\ pc[r] = "run" /\ pc' = [pc EXCEPT ![r] = "add"] /\ req' = [req EXCEPT ![r] = req[r]]
        /\ UNCHANGED <<now, counts, touched, cache, entered>>
        /\ usage' = [usage EXCEPT ![Day(now)] = @ + 1]
    BY <1>1, <1>2 DEF Complete, Goto
  <2>2. usage' \in [Days -> Nat]
    BY <1>1, <2>1
  <2>3. "add" \in Stages /\ Fits("add", req[r])
    BY <1>1, <2>1 DEF Stages, Carries, Fits
  <2> QED
    BY <1>1, <2>1, <2>2, <2>3, OwnStep, Before
<1>3. CASE Drop(r)
  BY <1>3, FinishStep, Before DEF Drop
<1>4. CASE Add(r)
  <2>1. /\ Finish(r) /\ UNCHANGED <<now, counts, touched, usage, entered>>
        /\ cache' = [cache EXCEPT ![Day(now)] = IF @ = None THEN 1 ELSE @ + 1]
    BY <1>4 DEF Add
  <2>2. cache' \in [Days -> Nat \cup {None}]
    BY <1>1, <2>1
  <2> QED
    BY <2>1, <2>2, FinishStep, Before
<1> QED
  BY <1>2, <1>3, <1>4 DEF Record

\* The clock, the two cleanups and a restart.
LEMMA BackgroundStep ==
  ASSUME IInv, Cleanup \/ CleanupExpired \/ Tick \/ Restart
  PROVE  IInv'
<1>1. /\ TypeOK /\ \A r \in Requests : Carries(r)
      /\ now \in Ticks /\ counts \in [Ticks -> Nat] /\ touched \in [Ticks -> Ticks \cup {None}]
      /\ cache \in [Days -> Nat \cup {None}] /\ entered \in [Windows -> Nat]
  BY DEF IInv, TypeOK
<1>2. CASE Cleanup
  <2>1. /\ UNCHANGED <<now, cache, usage, pc, req, entered>>
        /\ counts' \in [Ticks -> Nat] /\ touched' \in [Ticks -> Ticks \cup {None}]
    BY <1>1, <1>2 DEF Cleanup
  <2> QED
    BY <1>1, <2>1 DEF IInv, TypeOK, Carries
<1>3. CASE CleanupExpired
  <2>1. /\ UNCHANGED <<now, counts, touched, usage, pc, req, entered>>
        /\ cache' \in [Days -> Nat \cup {None}]
    BY <1>1, <1>3 DEF CleanupExpired
  <2> QED
    BY <1>1, <2>1 DEF IInv, TypeOK, Carries
<1>4. CASE Tick
  <2>1. UNCHANGED <<counts, touched, cache, usage, pc, req>> /\ entered' \in [Windows -> Nat]
    BY <1>1, <1>4 DEF Tick
  <2>2. now' \in Ticks
    BY <1>1, <1>4, TimeAssumption DEF Tick, Ticks
  <2> QED
    BY <1>1, <2>1, <2>2 DEF IInv, TypeOK, Carries
<1>5. CASE Restart
  <2>1. /\ counts' = [k \in Ticks |-> 0] /\ touched' = [k \in Ticks |-> None]
        /\ cache' = [d \in Days |-> None] /\ entered' = [w \in Windows |-> 0]
        /\ pc' = [r \in Requests |-> "idle"] /\ req' = [r \in Requests |-> NoRequest]
        /\ UNCHANGED <<now, usage>>
    BY <1>5 DEF Restart
  <2>2. TypeOK'
    BY <1>1, <2>1, Empty DEF TypeOK, Stages, Carried
  <2> QED
    BY <2>1, <2>2 DEF IInv, Carries, Fits
<1> QED
  BY <1>2, <1>3, <1>4, <1>5

LEMMA InitIInv == Init => IInv
<1> SUFFICES ASSUME Init PROVE IInv
  OBVIOUS
<1>1. TypeOK
  BY Empty, TimeAssumption DEF Init, TypeOK, Stages, Carried, Ticks
<1>2. \A r \in Requests : Carries(r)
  BY DEF Init, Carries, Fits
<1> QED
  BY <1>1, <1>2 DEF IInv

LEMMA NextIInv == IInv /\ [Next]_vars => IInv'
<1> SUFFICES ASSUME IInv, [Next]_vars PROVE IInv'
  OBVIOUS
<1>1. CASE UNCHANGED vars
  <2>1. /\ UNCHANGED <<now, counts, touched, cache, usage>>
        /\ UNCHANGED <<pc, req, entered>>
    BY <1>1 DEF vars
  <2> QED
    BY <2>1 DEF IInv, TypeOK, Carries
<1> QED
  BY <1>1, ArriveStep, CheckStep, CountStep, EnterStep, ServeStep, RecordStep, BackgroundStep
     DEF Next, Check

\* What a request carries always fits the stage it is at (CheckQuotaMulti and
\* RecordRequestTokens).
THEOREM Invariance == Spec => []IInv
BY InitIInv, NextIInv, PTL DEF Spec

\* Counts, days and what is cached of them keep their types over restarts, and a request
\* carries a model and a policy of the configuration (RateCounter and DailyRequestCounter of quota/service.go).
THEOREM TypeCorrect == Spec => []TypeOK
<1>1. IInv => TypeOK
  BY DEF IInv
<1> QED
  BY <1>1, Invariance, PTL

\* authenticateAndCheckQuota counts a request under the policy that rules its model and
\* lists it, be it the model asked for or the default model put for it; selectBackend then
\* leaves it this model, or gives it the default model of that same policy.
THEOREM ModelsGranted == Spec => []OnlyGrantedModels
<1>1. IInv => OnlyGrantedModels
  BY DEF IInv, Carries, Fits, Ruled, Granted, OnlyGrantedModels
<1> QED
  BY <1>1, Invariance, PTL

----------------------------------------------------------------------------
(* The rate counter *)

\* While all policies have windows of one length, no longer than the age at which counts are
\* dropped, each key holds the requests of one window, and only past windows are dropped.
LEMMA RateStep ==
  ASSUME NEW w \in 1..CleanupAge, Windows \subseteq {w}
  PROVE  IInv /\ RateInv /\ [Next]_vars => RateInv'
<1> SUFFICES ASSUME IInv, RateInv, [Next]_vars, w \in Windows
             PROVE  Counted(w)' /\ counts'[WindowStart(now', w)] = entered'[w]
  BY DEF RateInv
<1> DEFINE start == WindowStart(now, w)
<1>1. /\ now \in Ticks /\ counts \in [Ticks -> Nat] /\ touched \in [Ticks -> Ticks \cup {None}]
      /\ entered \in [Windows -> Nat] /\ Counted(w) /\ counts[start] = entered[w]
  BY DEF IInv, TypeOK, RateInv
<1>2. /\ w \in Nat \ {0} /\ w <= CleanupAge /\ CleanupAge \in Nat /\ None \notin Ticks
      /\ Ticks \subseteq Nat /\ now \in Nat /\ MaxTime \in Nat
  BY <1>1, TimeAssumption, NoneAssumption DEF Ticks
<1>3. start \in Ticks /\ start <= now /\ now < start + w /\ start \in Nat
  BY <1>1, <1>2, WindowOf, WindowType
<1>4. ASSUME UNCHANGED <<now, counts, touched, entered>>
      PROVE  Counted(w)' /\ counts'[WindowStart(now', w)] = entered'[w]
  BY <1>1, <1>4 DEF Counted
<1>5. ASSUME NEW r \in Requests, Enter(r)
      PROVE  Counted(w)' /\ counts'[WindowStart(now', w)] = entered'[w]
  <2>1. req[r].policy \in Policies
    BY <1>5, Before DEF Enter
  <2>2. req[r].policy.window = w
    BY <2>1, PolicyType
  <2>3. /\ counts' = [counts EXCEPT ![start] =
               IF touched[start] = None \/ now - touched[start] >= w THEN 1 ELSE @ + 1]
        /\ touched' = [touched EXCEPT ![start] = now]
        /\ entered' = [entered EXCEPT ![w] = @ + 1]
        /\ now' = now
    BY <1>5, <2>2 DEF Enter
  <2> HIDE DEF start
  <2>4. counts'[start] = entered'[w]
    <3>1. CASE touched[start] = None
      <4>1. counts[start] = 0
        BY <1>1, <1>3, <3>1 DEF Counted
      <4> QED
        BY <1>1, <1>3, <2>3, <3>1, <4>1
    <3>2. CASE touched[start] # None
      <4>1. /\ touched[start] \in Nat /\ start <= touched[start] /\ touched[start] <= now
        BY <1>1, <1>2, <1>3, <3>2 DEF Counted
      <4>2. ~ (now - touched[start] >= w)
        BY <1>2, <1>3, <4>1
      <4> QED
        BY <1>1, <1>3, <2>3, <3>2, <4>2
    <3> QED
      BY <3>1, <3>2
  <2>5. Counted(w)'
    BY <1>1, <1>2, <1>3, <2>3 DEF Counted
  <2> QED
    BY <2>3, <2>4, <2>5 DEF start
<1>6. ASSUME Cleanup
      PROVE  Counted(w)' /\ counts'[WindowStart(now', w)] = entered'[w]
  <2> DEFINE old == {k \in Ticks : touched[k] # None /\ now - touched[k] >= CleanupAge}
  <2>1. /\ counts'  = [k \in Ticks |-> IF k \in old THEN 0 ELSE counts[k]]
        /\ touched' = [k \in Ticks |-> IF k \in old THEN None ELSE touched[k]]
        /\ now' = now /\ entered' = entered
    BY <1>6 DEF Cleanup
  <2>2. start \notin old
    <3> SUFFICES ASSUME touched[start] # None PROVE ~ (now - touched[start] >= CleanupAge)
      OBVIOUS
    <3> HIDE DEF start
    <3>1. touched[start] \in Nat /\ start <= touched[start] /\ touched[start] <= now
      BY <1>1, <1>2, <1>3 DEF Counted
    <3> QED
      BY <1>2, <1>3, <3>1
  <2> HIDE DEF old
  <2>3. Counted(w)'
    BY <1>1, <1>2, <2>1 DEF Counted
  <2>4. counts'[start] = entered'[w]
    <3> HIDE DEF start
    <3> QED
      BY <1>1, <1>3, <2>1, <2>2
  <2> QED
    BY <2>1, <2>3, <2>4
<1>7. ASSUME Tick
      PROVE  Counted(w)' /\ counts'[WindowStart(now', w)] = entered'[w]
  <2> DEFINE later == WindowStart(now + 1, w)
  <2>1. /\ now' = now + 1 /\ counts' = counts /\ touched' = touched /\ now < MaxTime
        /\ entered' = [v \in Windows |->
             IF WindowStart(now', v) = WindowStart(now, v) THEN entered[v] ELSE 0]
    BY <1>7 DEF Tick
  <2>2. entered'[w] = IF later = start THEN entered[w] ELSE 0
    BY <2>1
  <2>3. later \in {start, now + 1} /\ now + 1 \in Ticks
    BY <1>2, <2>1, WindowOf DEF Ticks
  <2> HIDE DEF start, later
  <2>4. Counted(w)'
    <3> SUFFICES ASSUME NEW k \in Ticks
                 PROVE  IF touched[k] = None THEN counts[k] = 0
                        ELSE k <= touched[k] /\ touched[k] < k + w /\ touched[k] <= now + 1
      BY <2>1 DEF Counted
    <3>1. touched[k] # None => touched[k] \in Nat
      BY <1>1, <1>2
    <3> QED
      BY <1>1, <1>2, <3>1 DEF Counted
  <2>5. counts[now + 1] = 0
    <3>1. touched[now + 1] # None => touched[now + 1] \in Nat
      BY <1>1, <1>2, <2>3
    <3> QED
      BY <1>1, <1>2, <2>3, <3>1 DEF Counted
  <2>6. counts'[later] = entered'[w]
    <3>1. CASE later = start
      BY <1>1, <2>1, <2>2, <3>1
    <3>2. CASE later # start
      BY <2>1, <2>2, <2>3, <2>5, <3>2
    <3> QED
      BY <3>1, <3>2
  <2> QED
    BY <2>1, <2>4, <2>6 DEF later
<1>8. ASSUME Restart
      PROVE  Counted(w)' /\ counts'[WindowStart(now', w)] = entered'[w]
  <2>1. /\ counts' = [k \in Ticks |-> 0] /\ touched' = [k \in Ticks |-> None]
        /\ entered' = [v \in Windows |-> 0] /\ now' = now
    BY <1>8 DEF Restart
  <2>2. Counted(w)'
    BY <2>1 DEF Counted
  <2>3. counts'[start] = entered'[w]
    <3> HIDE DEF start
    <3> QED
      BY <1>3, <2>1
  <2> QED
    BY <2>1, <2>2, <2>3
<1>9. ASSUME NEW r \in Requests,
             View(r) \/ FallBack(r) \/ Refuse(r) \/ Pass(r) \/ Look(r) \/ Query(r)
               \/ FailToQuery(r) \/ Fill(r) \/ Serve(r) \/ Record(r)
               \/ \E m \in Models : Arrive(r, m)
      PROVE  UNCHANGED <<now, counts, touched, entered>>
  BY <1>9 DEF View, FallBack, Refuse, Pass, Look, Query, FailToQuery, Fill, Record, Complete,
              Drop, Add, Arrive, Serve, SelectBackend, Unserved
<1>10. CleanupExpired \/ UNCHANGED vars => UNCHANGED <<now, counts, touched, entered>>
  BY DEF CleanupExpired, vars
<1> QED
  BY <1>4, <1>5, <1>6, <1>7, <1>8, <1>9, <1>10 DEF Next, Check

LEMMA RateInit ==
  ASSUME NEW w \in 1..CleanupAge, Windows \subseteq {w}
  PROVE  Init => RateInv
<1> SUFFICES ASSUME Init, w \in Windows PROVE Counted(w) /\ counts[WindowStart(now, w)] = entered[w]
  BY DEF RateInv
<1>1. now \in Ticks /\ w \in Nat
  BY TimeAssumption DEF Init, Ticks
<1>2. WindowStart(now, w) \in Ticks
  BY <1>1, WindowType
<1> QED
  BY <1>2 DEF Init, Counted

LEMMA RateInvariance ==
  ASSUME NEW w \in 1..CleanupAge, Windows \subseteq {w}
  PROVE  Spec => []RateInv
BY RateInit, RateStep, Invariance, PTL DEF Spec

\* Increment, GetCount and cleanup together lose no request and add none, whenever the
\* cleanup comes between them, as long as every policy has the same window, of one second at
\* least and no longer than rc.windowSec (keys name the window's start only, and cleanup
\* knows one age for all).
THEOREM RateCounted ==
  ASSUME NEW w \in 1..CleanupAge, Windows \subseteq {w}
  PROVE  Spec => []RateExact
<1>1. RateInv => RateExact
  BY DEF RateInv, RateExact
<1> QED
  BY <1>1, RateInvariance, PTL

----------------------------------------------------------------------------
(* The limit *)

LEMMA CheckedFinite ==
  /\ Cardinality(Requests) \in Nat
  /\ IsFiniteSet(Checked) /\ Cardinality(Checked) \in Nat
  /\ Cardinality(Checked) <= Cardinality(Requests)
<1>1. Checked \subseteq Requests
  BY DEF Checked
<1> QED
  BY <1>1, RequestsAssumption, FS_Subset, FS_CardinalityType

\* A step that checks nobody and counts nobody leaves the allowance.
LEMMA AllowanceKept ==
  ASSUME NEW n \in Nat, Allowance(n), Checked' \subseteq Checked,
         entered \in [Windows -> Nat], entered' \in [Windows -> Nat],
         \A w \in Windows : entered'[w] <= entered[w]
  PROVE  Allowance(n)'
<1>1. Cardinality(Checked') \in Nat /\ Cardinality(Checked') <= Cardinality(Checked)
  BY CheckedFinite, FS_Subset, FS_CardinalityType
<1>2. Cardinality(Requests) \in Nat /\ Cardinality(Checked) \in Nat
  BY CheckedFinite
<1> SUFFICES ASSUME NEW w \in Windows
             PROVE  entered'[w] + Cardinality(Checked') < n + Cardinality(Requests)
  BY DEF Allowance
<1>3. entered[w] + Cardinality(Checked) < n + Cardinality(Requests)
  BY DEF Allowance
<1>4. entered'[w] \in Nat /\ entered[w] \in Nat /\ entered'[w] <= entered[w]
  OBVIOUS
<1> QED
  BY <1>1, <1>2, <1>3, <1>4

\* Whoever passes found fewer requests counted than the limit; whoever is counted has
\* passed.  In between, the requests are as many as there are.
LEMMA OvershootStep ==
  ASSUME NEW w \in 1..CleanupAge, Windows \subseteq {w}
  PROVE  IInv /\ RateInv /\ Overshoot /\ [Next]_vars => Overshoot'
<1> SUFFICES ASSUME IInv, RateInv, [Next]_vars, NEW n \in Nat \ {0}, Allowance(n),
                    \A q \in Policies : q.limit \in 1..n
             PROVE  Allowance(n)'
  <2>1. ASSUME Overshoot, NEW p \in Policies, \A q \in Policies : q.limit \in 1..p.limit
        PROVE  Allowance(p.limit) /\ p.limit \in Nat \ {0}
    BY <2>1, PolicyType DEF Overshoot
  <2> QED
    BY <2>1 DEF Overshoot
<1>1. /\ entered \in [Windows -> Nat] /\ pc \in [Requests -> Stages] /\ req \in [Requests -> Carried]
      /\ now \in Ticks
  BY DEF IInv, TypeOK, Carried
<1>2. ASSUME Checked' \subseteq Checked, UNCHANGED entered PROVE Allowance(n)'
  BY <1>1, <1>2, AllowanceKept
<1>3. ASSUME NEW r \in Requests, Pass(r) PROVE Allowance(n)'
  <2> DEFINE p == Governing(req[r].model)
  <2>1. /\ p \in Policies /\ ~ RateReached(p) /\ entered' = entered
    BY <1>3, GoverningType DEF Pass
  <2> HIDE DEF p
  <2>2. p.limit \in 1..n /\ p.window = w /\ w \in Windows
    BY <2>1, PolicyType
  <2>3. Count(p) = entered[w]
    BY <2>2 DEF Count, RateInv
  <2>4. entered[w] < n /\ entered[w] \in Nat
    BY <1>1, <2>1, <2>2, <2>3 DEF RateReached
  <2>5. /\ Cardinality(Checked)' \in Nat /\ Cardinality(Requests) \in Nat
        /\ Cardinality(Checked)' <= Cardinality(Requests)
    <3>1. Checked' \subseteq Requests
      BY DEF Checked
    <3> QED
      BY <3>1, RequestsAssumption, FS_Subset, FS_CardinalityType
  <2>6. entered'[w] + Cardinality(Checked)' < n + Cardinality(Requests)
    BY <2>1, <2>4, <2>5
  <2> QED
    BY <2>6 DEF Allowance
<1>4. ASSUME NEW r \in Requests, Enter(r) PROVE Allowance(n)'
  <2>1. /\ req[r].policy \in Policies /\ pc[r] = "enter"
        /\ pc' = [pc EXCEPT ![r] = "select"] /\ req' = req
        /\ entered' = [entered EXCEPT ![req[r].policy.window] = @ + 1]
    BY <1>4, Before DEF Enter, Goto
  <2>2. req[r].policy.window = w /\ w \in Windows /\ req[r].policy # None
    BY <2>1, PolicyType
  <2>3. r \in Checked /\ Checked' = Checked \ {r}
    BY <1>1, <2>1, <2>2 DEF Checked
  <2>4. Cardinality(Checked') = Cardinality(Checked) - 1 /\ Cardinality(Checked') \in Nat
    BY <2>3, CheckedFinite, FS_RemoveElement, FS_CardinalityType
  <2>5. entered'[w] = entered[w] + 1 /\ entered[w] \in Nat
    BY <1>1, <2>1, <2>2
  <2>6. entered[w] + Cardinality(Checked) < n + Cardinality(Requests)
    BY <2>2 DEF Allowance
  <2>7. entered'[w] + Cardinality(Checked') < n + Cardinality(Requests)
    BY <2>4, <2>5, <2>6, CheckedFinite
  <2> QED
    BY <2>7 DEF Allowance
<1>5. ASSUME NEW r \in Requests, pc[r] \in {"look", "fill"}, NEW m, Settle(r, m)
      PROVE  Checked' \subseteq Checked
  BY <1>1, <1>5 DEF Settle, Finish, Goto, Checked, NoRequest, Carried
<1>6. ASSUME NEW r \in Requests, Look(r) \/ Query(r) \/ FailToQuery(r) \/ Fill(r)
      PROVE  Checked' \subseteq Checked /\ entered' = entered
  <2>1. CASE Look(r)
    <3>1. CASE cache[req[r].day] # None
      BY <1>5, <2>1, <3>1 DEF Look
    <3>2. CASE cache[req[r].day] = None
      BY <1>1, <2>1, <3>2 DEF Look, Goto, Checked
    <3> QED
      BY <3>1, <3>2
  <2>2. CASE Query(r)
    BY <1>1, <2>2 DEF Query, Goto, Checked, Carried
  <2>3. CASE FailToQuery(r)
    BY <1>1, <2>3 DEF FailToQuery, Finish, Checked, NoRequest
  <2>4. CASE Fill(r)
    BY <1>5, <2>4 DEF Fill
  <2> QED
    BY <1>6, <2>1, <2>2, <2>3, <2>4
<1>7. ASSUME NEW r \in Requests, View(r) \/ \E m \in Models : Arrive(r, m)
      PROVE  Checked' \subseteq Checked /\ entered' = entered
  <2>1. req[r].policy = None
    BY <1>7, Before, Empty DEF View, Arrive, Carries, Fits
  <2> QED
    BY <1>1, <1>7, <2>1 DEF View, Arrive, Goto, Checked, Carried
<1>8. ASSUME NEW r \in Requests, FallBack(r) \/ Refuse(r)
      PROVE  Checked' \subseteq Checked /\ entered' = entered
  BY <1>1, <1>8 DEF FallBack, Refuse, Finish, Checked, NoRequest
<1>9. ASSUME NEW r \in Requests, Serve(r) \/ Record(r)
      PROVE  Checked' \subseteq Checked /\ entered' = entered
  <2>1. CASE SelectBackend(r)
    BY <1>1, <2>1 DEF SelectBackend, Goto, Checked, Carried
  <2>2. CASE Unserved(r)
    BY <1>1, <2>2 DEF Unserved, Finish, Checked, NoRequest
  <2>3. CASE Record(r)
    BY <1>1, <2>3 DEF Record, Complete, Drop, Add, Finish, Goto, Checked, NoRequest
  <2> QED
    BY <1>9, <2>1, <2>2, <2>3 DEF Serve
<1>10. CASE Tick
  <2>1. entered' \in [Windows -> Nat] /\ \A v \in Windows : entered'[v] <= entered[v]
    BY <1>1, <1>10 DEF Tick
  <2>2. Checked' = Checked
    BY <1>10 DEF Tick, Checked
  <2> QED
    BY <1>1, <2>1, <2>2, AllowanceKept
<1>11. CASE Restart
  <2>1. entered' \in [Windows -> Nat] /\ \A v \in Windows : entered'[v] <= entered[v]
    BY <1>1, <1>11 DEF Restart
  <2>2. Checked' = {}
    BY <1>11 DEF Restart, Checked
  <2> QED
    BY <1>1, <2>1, <2>2, AllowanceKept
<1>12. CASE Cleanup \/ CleanupExpired \/ UNCHANGED vars
  <2>1. UNCHANGED <<pc, req, entered>>
    BY <1>12 DEF Cleanup, CleanupExpired, vars
  <2> QED
    BY <1>2, <2>1 DEF Checked
<1> QED
  BY <1>2, <1>3, <1>4, <1>6, <1>7, <1>8, <1>9, <1>10, <1>11, <1>12 DEF Next, Check

\* check and count are two steps, and so a window may let in more requests than its limit;
\* but those in excess were all checked at once: they are fewer than the user's concurrent
\* requests, however often the steps of CheckQuotaMulti and IncrementRate alternate.
THEOREM OvershootBounded ==
  ASSUME NEW w \in 1..CleanupAge, Windows \subseteq {w}
  PROVE  Spec => []RateOvershoot
<1>1. Init => Overshoot
  <2> SUFFICES ASSUME Init, NEW p \in Policies, p.limit \in 1..p.limit, NEW v \in Windows
               PROVE  entered[v] + Cardinality(Checked) < p.limit + Cardinality(Requests)
    BY DEF Overshoot, Allowance
  <2>1. entered[v] = 0 /\ Checked = {}
    BY DEF Init, Checked
  <2>2. p.limit \in Nat \ {0}
    BY PolicyType
  <2> QED
    BY <2>1, <2>2, CheckedFinite, FS_EmptySet
<1>2. IInv /\ Overshoot => RateOvershoot
  <2> SUFFICES ASSUME IInv, Overshoot, NEW p \in Policies,
                      \A q \in Policies : q.limit \in 1..p.limit, NEW v \in Windows
               PROVE  entered[v] < p.limit + Cardinality(Requests)
    BY DEF RateOvershoot
  <2>1. entered[v] + Cardinality(Checked) < p.limit + Cardinality(Requests)
    BY DEF Overshoot, Allowance
  <2>2. entered[v] \in Nat /\ p.limit \in Nat
    BY PolicyType DEF IInv, TypeOK
  <2> QED
    BY <2>1, <2>2, CheckedFinite
<1> QED
  BY <1>1, <1>2, OvershootStep, RateInvariance, Invariance, PTL DEF Spec

----------------------------------------------------------------------------
(* The day's count *)

LEMMA Adding ==
  ASSUME NEW r \in Requests
  PROVE  LET adds == {q \in Requests : pc[q] = "add"} IN
         /\ IsFiniteSet(adds) /\ Uncounted \in Nat
         /\ (\A q \in Requests \ {r} : pc'[q] = pc[q]) =>
              /\ pc[r] # "add" /\ pc'[r] = "add" => Uncounted' = Uncounted + 1
              /\ pc[r] = "add" /\ pc'[r] # "add" => Uncounted' = Uncounted - 1
              /\ (pc[r] = "add" <=> pc'[r] = "add") => Uncounted' = Uncounted
<1> DEFINE adds  == {q \in Requests : pc[q] = "add"}
           addsP == {q \in Requests : pc'[q] = "add"}
<1>1. /\ IsFiniteSet(adds) /\ Cardinality(adds) \in Nat
      /\ Uncounted = Cardinality(adds) /\ Uncounted' = Cardinality(addsP)
  BY RequestsAssumption, FS_Subset, FS_CardinalityType DEF Uncounted
<1>2. ASSUME \A q \in Requests \ {r} : pc'[q] = pc[q], pc[r] # "add", pc'[r] = "add"
      PROVE  addsP = adds \cup {r} /\ r \notin adds
  BY <1>2
<1>3. ASSUME \A q \in Requests \ {r} : pc'[q] = pc[q], pc[r] = "add", pc'[r] # "add"
      PROVE  addsP = adds \ {r} /\ r \in adds
  BY <1>3
<1>4. ASSUME \A q \in Requests \ {r} : pc'[q] = pc[q], pc[r] = "add" <=> pc'[r] = "add"
      PROVE  addsP = adds
  BY <1>4
<1>5. IsFiniteSet(adds) /\ Uncounted \in Nat
  BY <1>1
<1> HIDE DEF adds, addsP
<1>6. ASSUME \A q \in Requests \ {r} : pc'[q] = pc[q], pc[r] # "add", pc'[r] = "add"
      PROVE  Uncounted' = Uncounted + 1
  BY <1>1, <1>2, <1>6, FS_AddElement
<1>7. ASSUME \A q \in Requests \ {r} : pc'[q] = pc[q], pc[r] = "add", pc'[r] # "add"
      PROVE  Uncounted' = Uncounted - 1
  BY <1>1, <1>3, <1>7, FS_RemoveElement
<1>8. ASSUME \A q \in Requests \ {r} : pc'[q] = pc[q], pc[r] = "add" <=> pc'[r] = "add"
      PROVE  Uncounted' = Uncounted
  BY <1>1, <1>4, <1>8
<1> QED
  BY <1>5, <1>6, <1>7, <1>8 DEF adds

\* The entry that a step leaves as it was, or takes away.
CacheMoves(d) ==
  cache[d] # None /\ cache'[d] # None =>
    cache'[d] + Uncounted' - usage'[d] = cache[d] + Uncounted - usage[d]

LEMMA CacheStep ==
  ASSUME IInv, [Next]_vars, now' = now, ~ Filling(Day(now))
  PROVE  CacheMoves(Day(now))
<1> DEFINE d == Day(now)
<1>1. /\ d \in Days /\ pc \in [Requests -> Stages] /\ cache \in [Days -> Nat \cup {None}]
      /\ usage \in [Days -> Nat] /\ now \in Nat /\ req \in [Requests -> Carried]
  BY DayType DEF IInv, TypeOK, Carried, Ticks
<1> HIDE DEF d
<1>2. Uncounted \in Nat
  BY RequestsAssumption, FS_Subset, FS_CardinalityType DEF Uncounted
<1>3. ASSUME UNCHANGED usage, cache'[d] \in {cache[d], None}, Uncounted' = Uncounted
      PROVE  CacheMoves(d)
  BY <1>3 DEF CacheMoves
<1>4. ASSUME NEW r \in Requests, NEW stage, pc' = [pc EXCEPT ![r] = stage],
             pc[r] # "add", stage # "add"
      PROVE  Uncounted' = Uncounted
  BY <1>1, <1>4, Adding
<1>5. ASSUME NEW r \in Requests, Finish(r), pc[r] # "add"
      PROVE  Uncounted' = Uncounted
  BY <1>4, <1>5 DEF Finish
<1>6. ASSUME NEW r \in Requests, NEW n, Settle(r, n), pc[r] # "add"
      PROVE  Uncounted' = Uncounted
  BY <1>4, <1>5, <1>6 DEF Settle, Goto
<1>7. ASSUME NEW r \in Requests, View(r) \/ \E m \in Models : Arrive(r, m) PROVE CacheMoves(d)
  <2>1. UNCHANGED <<usage, cache>> /\ Uncounted' = Uncounted
    BY <1>4, <1>7 DEF View, Arrive, Goto
  <2> QED
    BY <1>3, <2>1
<1>8. ASSUME NEW r \in Requests, FallBack(r) \/ Refuse(r) \/ Pass(r) PROVE CacheMoves(d)
  <2>1. CASE FallBack(r)
    BY <1>3, <2>1 DEF FallBack, Uncounted
  <2>2. CASE Refuse(r)
    BY <1>3, <1>5, <2>2 DEF Refuse
  <2>3. CASE Pass(r)
    BY <1>3, <1>4, <2>3 DEF Pass, Goto
  <2> QED
    BY <1>8, <2>1, <2>2, <2>3
<1>9. ASSUME NEW r \in Requests, Look(r) \/ Query(r) \/ FailToQuery(r) \/ Enter(r)
      PROVE  CacheMoves(d)
  <2>1. CASE Look(r)
    BY <1>3, <1>4, <1>6, <2>1 DEF Look, Goto
  <2>2. CASE Query(r)
    BY <1>3, <1>4, <2>2 DEF Query, Goto
  <2>3. CASE FailToQuery(r)
    BY <1>3, <1>5, <2>3 DEF FailToQuery
  <2>4. CASE Enter(r)
    BY <1>3, <1>4, <2>4 DEF Enter, Goto
  <2> QED
    BY <1>9, <2>1, <2>2, <2>3, <2>4
<1>10. ASSUME NEW r \in Requests, Fill(r) PROVE CacheMoves(d)
  <2>1. pc[r] = "fill" /\ cache' = [cache EXCEPT ![req[r].day] = req[r].seen] /\ usage' = usage
    BY <1>10 DEF Fill
  <2>2. req[r].day # d
    BY <2>1 DEF Filling, d
  <2>3. cache'[d] = cache[d]
    BY <1>1, <2>1, <2>2
  <2>4. Uncounted' = Uncounted
    BY <1>6, <1>10, <2>1 DEF Fill
  <2> QED
    BY <1>3, <2>1, <2>3, <2>4
<1>11. ASSUME NEW r \in Requests, Complete(r) PROVE CacheMoves(d)
  <2>1. /\ pc[r] = "run" /\ pc' = [pc EXCEPT ![r] = "add"] /\ cache' = cache
        /\ usage' = [usage EXCEPT ![d] = @ + 1]
    BY <1>11 DEF Complete, Goto, d
  <2>2. Uncounted' = Uncounted + 1
    BY <1>1, <2>1, Adding
  <2>3. usage'[d] = usage[d] + 1 /\ usage[d] \in Nat
    BY <1>1, <2>1
  <2>4. cache[d] # None => cache[d] \in Nat
    BY <1>1
  <2> QED
    BY <1>2, <2>1, <2>2, <2>3, <2>4 DEF CacheMoves
<1>12. ASSUME NEW r \in Requests, Add(r) PROVE CacheMoves(d)
  <2>1. /\ pc[r] = "add" /\ pc' = [pc EXCEPT ![r] = "idle"] /\ usage' = usage
        /\ cache' = [cache EXCEPT ![d] = IF @ = None THEN 1 ELSE @ + 1]
    BY <1>12 DEF Add, Finish, d
  <2>2. Uncounted' = Uncounted - 1
    BY <1>1, <2>1, Adding
  <2>3. /\ cache[d] # None => cache'[d] = cache[d] + 1 /\ cache[d] \in Nat
        /\ usage[d] \in Nat
    BY <1>1, <2>1
  <2> QED
    BY <1>2, <2>1, <2>2, <2>3 DEF CacheMoves
<1>13. ASSUME NEW r \in Requests, Serve(r) \/ Drop(r) PROVE CacheMoves(d)
  <2>1. CASE SelectBackend(r)
    BY <1>3, <1>4, <2>1 DEF SelectBackend, Goto
  <2>2. CASE Unserved(r)
    BY <1>3, <1>5, <2>2 DEF Unserved
  <2>3. CASE Drop(r)
    BY <1>3, <1>5, <2>3 DEF Drop
  <2> QED
    BY <1>13, <2>1, <2>2, <2>3 DEF Serve
<1>14. ASSUME Cleanup \/ CleanupExpired \/ UNCHANGED vars PROVE CacheMoves(d)
  <2>1. UNCHANGED <<usage, pc>> /\ cache'[d] \in {cache[d], None}
    BY <1>1, <1>14 DEF Cleanup, CleanupExpired, vars, d
  <2> QED
    BY <1>3, <2>1 DEF Uncounted
<1>15. ASSUME Restart PROVE CacheMoves(d)
  <2>1. cache'[d] = None
    BY <1>1, <1>15 DEF Restart
  <2> QED
    BY <2>1 DEF CacheMoves
<1>16. ~ Tick
  BY <1>1 DEF Tick
<1>17. CacheMoves(d)
  BY <1>7, <1>8, <1>9, <1>10, <1>11, <1>12, <1>13, <1>14, <1>15, <1>16
     DEF Next, Check, Record
<1> QED
  BY <1>17 DEF d

\* getDailyRequestCountWithCache and RecordRequestTokens keep the cached count of the day at
\* its distance from the database's, requests between the two counted in, whatever steps of
\* other requests come between; a late answer of the database alone moves it.
THEOREM CacheKeepsDistance == Spec => CacheFollows
<1>1. IInv /\ [Next]_vars =>
        [LET d == Day(now)
         IN  /\ now' = now
             /\ ~ Filling(d) /\ cache[d] # None /\ cache'[d] # None
             => cache'[d] + Uncounted' - usage'[d] = cache[d] + Uncounted - usage[d]]_vars
  BY CacheStep DEF CacheMoves
<1> QED
  BY <1>1, Invariance, PTL DEF Spec, CacheFollows
=============================================================================
