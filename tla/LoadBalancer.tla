---------------------------- MODULE LoadBalancer ----------------------------
(***************************************************************************)
(* The weighted least-connections load balancer of the gateway             *)
(* (internal/gateway/proxy/loadbalancer.go) together with the requests     *)
(* that use it (ExecuteCoreWorkflow in internal/gateway/proxy/proxy.go),   *)
(* the health prober and the hot reload of its configuration.              *)
(*                                                                         *)
(* lb.mu is a read-write mutex.  Selecting a backend holds it for reading  *)
(* from the first to the last step; MarkFailed, MarkSuccess, the end of a  *)
(* probe and ReloadConfig take it for writing and are one step each.  The  *)
(* ActiveConcurrency counters are atomics that other readers, and releases *)
(* that hold no lock at all, move while a selection is under way.          *)
(***************************************************************************)
EXTENDS Naturals, Sequences, FiniteSets

CONSTANTS
  Requests,       \* request goroutines
  Backends,       \* backend IDs
  Models,         \* model IDs
  None,           \* no model, no permit, no health entry
  Catalogues,     \* the configurations a reload may bring
  Attempts,       \* scans before tryGetBackend gives up (3 in the code)
  FailThreshold,  \* consecutive failures that mark a backend unhealthy (3)
  MaxReloads      \* bound: reloads in a behaviour

ASSUME AttemptsAssumption  == Attempts \in Nat \ {0}
ASSUME ThresholdAssumption == FailThreshold \in Nat \ {0}
ASSUME ReloadsAssumption   == MaxReloads \in Nat
ASSUME RequestsAssumption  == IsFiniteSet(Requests)

\* What ReloadConfig registers of a configuration: the enabled models in order,
\* each with its enabled backends in order.
Slot  == [id : Backends, weight : Nat, max : Nat]
Model == [id : Models, slots : Seq(Slot)]

ASSUME CataloguesAssumption == Catalogues \subseteq Seq(Model)

\* AddModel and AddBackend of the configuration manager refuse an ID in use; two
\* models may list the same backend ID.
ASSUME UniqueIdsAssumption ==
  \A cat \in Catalogues : \A i \in DOMAIN cat :
    /\ \A j \in DOMAIN cat : cat[i].id = cat[j].id => i = j
    /\ \A k, l \in DOMAIN cat[i].slots :
         cat[i].slots[k].id = cat[i].slots[l].id => k = l

VARIABLES
  pool,      \* lb.backends: the enabled backends of each model, <<>> if absent
  health,    \* lb.health: backend ID -> entry, None if absent
  reloads,   \* how many reloads there have been; dates the health entries
  pc,        \* where each request is
  lookup,    \* the model whose backends a request selects from
  scan,      \* the local variables of tryGetBackend
  permit,    \* the health entry whose counter a request has incremented
  entry      \* the health entry ReleaseBackend has looked up (its birth date)

vars == <<pool, health, reloads, pc, lookup, scan, permit, entry>>

----------------------------------------------------------------------------
(* Data *)

\* An entry is identified by its backend and the reload that created it: two
\* entries of one backend are two objects, and pointers tell them apart.
Health == [born : Nat, fails : 0..FailThreshold, healthy : BOOLEAN,
           max : Nat, active : Nat]

\* What a request has taken; degraded says that no limit was looked at.
Permit == [id : Backends, born : Nat, degraded : BOOLEAN]

\* (The last set: permits as AdmissionControl sees them.)
ASSUME NoneAssumption ==
  None \notin Backends \cup Models \cup Nat \cup Health \cup Permit
                \cup [id : Backends, degraded : BOOLEAN]

Selecting == {"scan", "count"}
Marking   == {"markFailed", "markSuccess"}
Stages    == Selecting \cup Marking
               \cup {"idle", "refused", "sending", "reply", "release", "drop"}

Scan == [todo : Seq(Nat), attempt : Nat, best : Nat, seen : Nat,
         healthy : BOOLEAN, spare : BOOLEAN]

NoScan == [todo |-> <<>>, attempt |-> 0, best |-> 0, seen |-> 0,
           healthy |-> FALSE, spare |-> FALSE]

\* Indices 1..n from a start index on, wrapping around.
Rotation(n, start) == [k \in 1..n |-> ((start + k - 2) % n) + 1]

Indices(n) == [k \in 1..n |-> k]

Weight(slot) == IF slot.weight = 0 THEN 1 ELSE slot.weight

Slots(r) == pool[lookup[r]]

\* Mutant of Full: forgets that a limit of 0 is no limit.
FullAtZero(h) == h.active >= h.max

Full(h) == h.max > 0 /\ h.active >= h.max

----------------------------------------------------------------------------
(* The lock *)

Readers == {r \in Requests : pc[r] \in Selecting}

\* Mutant of CanWrite: writers do not take the lock.
CanWriteAnyTime == TRUE

\* A writer waits for the readers to leave; a waiting writer holds back the
\* readers that come after it.  The writers that block are the requests about
\* to mark their backend.
CanWrite == Readers = {}
CanRead  == \A r \in Requests : pc[r] \notin Marking

----------------------------------------------------------------------------
(* Configuration *)

PoolOf(cat, m) ==
  IF \E i \in DOMAIN cat : cat[i].id = m
  THEN cat[CHOOSE i \in DOMAIN cat : cat[i].id = m].slots
  ELSE <<>>

\* The positions of the models that list backend b.
Offers(cat, b) ==
  {i \in DOMAIN cat : \E k \in DOMAIN cat[i].slots : cat[i].slots[k].id = b}

\* The last model that lists a backend decides its limit.
LimitOf(cat, b) ==
  LET last  == CHOOSE i \in Offers(cat, b) : \A j \in Offers(cat, b) : j <= i
      slots == cat[last].slots
  IN  slots[CHOOSE k \in DOMAIN slots : slots[k].id = b].max

NewHealth(born, max) ==
  [born |-> born, fails |-> 0, healthy |-> TRUE, max |-> max, active |-> 0]

\* Mutant of Reconfigured: entries of removed backends are left behind.
ReconfiguredKeepingAll(cat, old, now) ==
  [b \in Backends |->
     IF Offers(cat, b) = {} THEN old[b]
     ELSE IF old[b] = None  THEN NewHealth(now, LimitOf(cat, b))
     ELSE [old[b] EXCEPT !.max = LimitOf(cat, b)]]

\* Entries of listed backends survive with a new limit or are created; the
\* others are deleted.
Reconfigured(cat, old, now) ==
  [b \in Backends |->
     IF Offers(cat, b) = {} THEN None
     ELSE IF old[b] = None  THEN NewHealth(now, LimitOf(cat, b))
     ELSE [old[b] EXCEPT !.max = LimitOf(cat, b)]]

\* initServices loads the configuration into an empty balancer before the
\* server listens.
Init ==
  /\ \E cat \in Catalogues :
       /\ pool   = [m \in Models |-> PoolOf(cat, m)]
       /\ health = Reconfigured(cat, [b \in Backends |-> None], 0)
  /\ reloads = 0
  /\ pc      = [r \in Requests |-> "idle"]
  /\ lookup  = [r \in Requests |-> None]
  /\ scan    = [r \in Requests |-> NoScan]
  /\ permit  = [r \in Requests |-> None]
  /\ entry   = [r \in Requests |-> None]

----------------------------------------------------------------------------
(* Selecting a backend *)

\* A scan visits every backend once, from a random start.
BeginScan(r, n, attempt) ==
  \E start \in 1..n :
    scan' = [scan EXCEPT ![r] =
               [NoScan EXCEPT !.todo = Rotation(n, start), !.attempt = attempt]]

\* The model whose backends serve model m: m's own, or the default's when m
\* has none.
Resolve(m, default) == IF pool[m] = <<>> /\ default # None THEN default ELSE m

\* The code's Next: take the read lock and start scanning, or find nothing to scan.
Select(r, m, default) ==
  /\ pc[r] = "idle" /\ CanRead
  /\ LET from == Resolve(m, default)
     IN  IF pool[from] = <<>>
         THEN /\ pc' = [pc EXCEPT ![r] = "refused"]
              /\ UNCHANGED <<lookup, scan>>
         ELSE /\ pc' = [pc EXCEPT ![r] = "scan"]
              /\ lookup' = [lookup EXCEPT ![r] = from]
              /\ BeginScan(r, Len(pool[from]), 1)
  /\ UNCHANGED <<pool, health, reloads, permit, entry>>

\* Slot i, seen with n permits taken, beats the best slot so far.
Lighter(r, i, n) ==
  LET best == scan[r].best
  IN  \/ best = 0
      \/ n * Weight(Slots(r)[best]) < scan[r].seen * Weight(Slots(r)[i])

\* One iteration of the scan: an atomic load of one backend's counter.
ScanOne(r) ==
  /\ pc[r] = "scan" /\ scan[r].todo # <<>>
  /\ LET i == Head(scan[r].todo)
         h == health[Slots(r)[i].id]
         rest == [scan[r] EXCEPT !.todo = Tail(@)]
     IN  scan' = [scan EXCEPT ![r] =
           IF h # None /\ h.healthy /\ ~Full(h) /\ Lighter(r, i, h.active)
           THEN [rest EXCEPT !.best = i, !.seen = h.active]
           ELSE rest]
  /\ UNCHANGED <<pool, health, reloads, pc, lookup, permit, entry>>

\* Mutant of Grant: the fallback hands out its backend without counting it.
GrantUncounted(r, b, degraded) ==
  /\ health' = [health EXCEPT ![b].active = IF degraded THEN @ ELSE @ + 1]
  /\ permit' = [permit EXCEPT ![r] = [id |-> b, born |-> health[b].born,
                                       degraded |-> degraded]]
  /\ pc'     = [pc EXCEPT ![r] = "sending"]
  /\ lookup' = [lookup EXCEPT ![r] = None]
  /\ scan'   = [scan EXCEPT ![r] = NoScan]

\* Request r now holds a permit of backend b's present entry.
Grant(r, b, degraded) ==
  /\ health' = [health EXCEPT ![b].active = @ + 1]
  /\ permit' = [permit EXCEPT ![r] = [id |-> b, born |-> health[b].born,
                                       degraded |-> degraded]]
  /\ pc'     = [pc EXCEPT ![r] = "sending"]
  /\ lookup' = [lookup EXCEPT ![r] = None]
  /\ scan'   = [scan EXCEPT ![r] = NoScan]

BestOf(r) == Slots(r)[scan[r].best].id

ScanDone(r) == pc[r] = "scan" /\ scan[r].todo = <<>>

\* Mutant of Unchanged: the counter is bumped without a compare-and-swap.
NotCompared(r) == TRUE

\* The compare-and-swap finds the value the scan saw; a backend with no limit is
\* bumped unconditionally.
Unchanged(r) ==
  LET h == health[BestOf(r)] IN h.max = 0 \/ h.active = scan[r].seen

\* Take a permit of the best backend.
TakeBest(r) ==
  /\ ScanDone(r) /\ scan[r].best # 0 /\ Unchanged(r)
  /\ Grant(r, BestOf(r), FALSE)
  /\ UNCHANGED <<pool, reloads, entry>>

BeginCount(r) ==
  /\ pc'   = [pc EXCEPT ![r] = "count"]
  /\ scan' = [scan EXCEPT ![r] = [NoScan EXCEPT !.todo = Indices(Len(Slots(r)))]]

\* Mutant of LoseRace: scans again without end.
LoseRaceForever(r) ==
  /\ ScanDone(r) /\ scan[r].best # 0 /\ ~Unchanged(r)
  /\ BeginScan(r, Len(Slots(r)), scan[r].attempt)
  /\ UNCHANGED <<pool, health, reloads, pc, lookup, permit, entry>>

\* The compare-and-swap fails: scan again, or give up after Attempts scans.
LoseRace(r) ==
  /\ ScanDone(r) /\ scan[r].best # 0 /\ ~Unchanged(r)
  /\ IF scan[r].attempt < Attempts
     THEN BeginScan(r, Len(Slots(r)), scan[r].attempt + 1) /\ UNCHANGED pc
     ELSE BeginCount(r)
  /\ UNCHANGED <<pool, health, reloads, lookup, permit, entry>>

\* The scan found no healthy backend with room.
FindNone(r) ==
  /\ ScanDone(r) /\ scan[r].best = 0
  /\ BeginCount(r)
  /\ UNCHANGED <<pool, health, reloads, lookup, permit, entry>>

\* One iteration of the count of healthy and busy backends, which loads the
\* counters afresh.
CountOne(r) ==
  /\ pc[r] = "count" /\ scan[r].todo # <<>>
  /\ LET h == health[Slots(r)[Head(scan[r].todo)].id]
         up == h # None /\ h.healthy
     IN  scan' = [scan EXCEPT ![r].todo    = Tail(@),
                              ![r].healthy = @ \/ up,
                              ![r].spare   = @ \/ (up /\ ~Full(h))]
  /\ UNCHANGED <<pool, health, reloads, pc, lookup, permit, entry>>

\* All healthy backends are busy: refuse.
Refuse(r) ==
  /\ pc[r] = "count" /\ scan[r].todo = <<>>
  /\ scan[r].healthy /\ ~scan[r].spare
  /\ pc'     = [pc EXCEPT ![r] = "refused"]
  /\ lookup' = [lookup EXCEPT ![r] = None]
  /\ scan'   = [scan EXCEPT ![r] = NoScan]
  /\ UNCHANGED <<pool, health, reloads, permit, entry>>

\* Otherwise take the first backend, whatever its health and its limit.  (The
\* code also proceeds when that backend has no entry: PoolTracked says that
\* cannot be.)
Fallback(r) ==
  /\ pc[r] = "count" /\ scan[r].todo = <<>>
  /\ ~scan[r].healthy \/ scan[r].spare
  /\ LET b == Slots(r)[1].id IN health[b] # None /\ Grant(r, b, TRUE)
  /\ UNCHANGED <<pool, reloads, entry>>

\* The refused request answers 429 and ends.
Reject(r) ==
  /\ pc[r] = "refused"
  /\ pc' = [pc EXCEPT ![r] = "idle"]
  /\ UNCHANGED <<pool, health, reloads, lookup, scan, permit, entry>>

----------------------------------------------------------------------------
(* Using the backend and giving the permit back *)

Step(r, from, to) ==
  /\ pc[r] = from
  /\ pc' = [pc EXCEPT ![r] = to]
  /\ UNCHANGED <<pool, health, reloads, lookup, scan, permit, entry>>

\* Mutant of FailToBuild: ReleaseBackend is not deferred, and skipped.
FailToBuildKeeping(r) == Step(r, "sending", "idle")

\* prepareAndSendRequest returns early: the request could not be built.
FailToBuild(r) == Step(r, "sending", "release")
\* The HTTP exchange fails, and the request goes on to lock lb.mu.
FailToSend(r)  == Step(r, "sending", "markFailed")
\* A response with any status arrives, and the request goes on to lock lb.mu.
GetResponse(r) == Step(r, "sending", "markSuccess")
\* The response has been relayed, or the client has gone: the deferred
\* ReleaseBackend runs.
EndReply(r)    == Step(r, "reply", "release")

\* One more consecutive failure; the count saturates at the threshold.
Failed(h) ==
  LET fails == IF h.fails < FailThreshold THEN h.fails + 1 ELSE h.fails
  IN  [h EXCEPT !.fails = fails, !.healthy = @ /\ fails < FailThreshold]

Recovered(h) == [h EXCEPT !.fails = 0, !.healthy = TRUE]

MarkFailed(r) ==
  /\ pc[r] = "markFailed" /\ CanWrite
  /\ LET b == permit[r].id
     IN  health' = [health EXCEPT ![b] = IF @ = None THEN None ELSE Failed(@)]
  /\ pc' = [pc EXCEPT ![r] = "release"]
  /\ UNCHANGED <<pool, reloads, lookup, scan, permit, entry>>

MarkSuccess(r) ==
  /\ pc[r] = "markSuccess" /\ CanWrite
  /\ LET b == permit[r].id
     IN  health' = [health EXCEPT ![b] = IF @ = None THEN None ELSE Recovered(@)]
  /\ pc' = [pc EXCEPT ![r] = "reply"]
  /\ UNCHANGED <<pool, reloads, lookup, scan, permit, entry>>

\* ReleaseBackend looks the entry up under the read lock; the backend may have
\* been removed, or removed and added again, since the permit was taken.
LookUpEntry(r) ==
  /\ pc[r] = "release" /\ CanRead
  /\ LET h == health[permit[r].id]
     IN  IF h = None
         THEN /\ pc'     = [pc EXCEPT ![r] = "idle"]
              /\ permit' = [permit EXCEPT ![r] = None]
              /\ UNCHANGED entry
         ELSE /\ pc'    = [pc EXCEPT ![r] = "drop"]
              /\ entry' = [entry EXCEPT ![r] = h.born]
              /\ UNCHANGED permit
  /\ UNCHANGED <<pool, health, reloads, lookup, scan>>

\* The compare-and-swap loop that lowers the looked-up entry's counter, as one
\* step (its failed rounds change nothing).  No lock is held: the entry may be
\* out of the map by now, and then nobody reads its counter.
DropPermit(r) ==
  /\ pc[r] = "drop"
  /\ LET b == permit[r].id
         lowers == /\ health[b] # None
                   /\ health[b].born = entry[r]
                   /\ health[b].active > 0
     IN  health' = IF lowers THEN [health EXCEPT ![b].active = @ - 1] ELSE health
  /\ pc'     = [pc EXCEPT ![r] = "idle"]
  /\ permit' = [permit EXCEPT ![r] = None]
  /\ entry'  = [entry EXCEPT ![r] = None]
  /\ UNCHANGED <<pool, reloads, lookup, scan>>

----------------------------------------------------------------------------
(* Health checks and reloads *)

\* CheckHealth reads the URL under the read lock, probes with no lock held and
\* applies the answer to whatever entry of the backend it finds afterwards, so
\* a probe under way restricts nothing and has no state here.
CheckHealth(b, ok) ==
  /\ health[b] # None /\ CanWrite
  /\ health' = [health EXCEPT ![b] = IF ok THEN Recovered(@) ELSE Failed(@)]
  /\ UNCHANGED <<pool, reloads, pc, lookup, scan, permit, entry>>

ReloadConfig(cat) ==
  /\ reloads < MaxReloads /\ CanWrite
  /\ pool'    = [m \in Models |-> PoolOf(cat, m)]
  /\ health'  = Reconfigured(cat, health, reloads + 1)
  /\ reloads' = reloads + 1
  /\ UNCHANGED <<pc, lookup, scan, permit, entry>>

----------------------------------------------------------------------------
(* Specification *)

Request(r) ==
  \/ \E m \in Models, default \in Models \cup {None} : Select(r, m, default)
  \/ ScanOne(r) \/ TakeBest(r) \/ LoseRace(r) \/ FindNone(r)
  \/ CountOne(r) \/ Refuse(r) \/ Fallback(r) \/ Reject(r)
  \/ FailToBuild(r) \/ FailToSend(r) \/ GetResponse(r) \/ EndReply(r)
  \/ MarkFailed(r) \/ MarkSuccess(r) \/ LookUpEntry(r) \/ DropPermit(r)

Next ==
  \/ \E r \in Requests : Request(r)
  \/ \E b \in Backends, ok \in BOOLEAN : CheckHealth(b, ok)
  \/ \E cat \in Catalogues : ReloadConfig(cat)

Spec == Init /\ [][Next]_vars

----------------------------------------------------------------------------
(* Properties *)

Serving == Marking \cup {"sending", "reply", "release", "drop"}

\* Every variable has its type, and a request holds a permit from the moment it
\* is granted one to the moment ReleaseBackend is through, and at no other.
TypeOK ==
  /\ pool \in [Models -> Seq(Slot)]
  /\ health \in [Backends -> Health \cup {None}]
  /\ reloads \in 0..MaxReloads
  /\ pc \in [Requests -> Stages]
  /\ lookup \in [Requests -> Models \cup {None}]
  /\ scan \in [Requests -> Scan]
  /\ permit \in [Requests -> Permit \cup {None}]
  /\ entry \in [Requests -> Nat \cup {None}]
  /\ \A r \in Requests : /\ permit[r] # None <=> pc[r] \in Serving
                         /\ entry[r] # None <=> pc[r] = "drop"

\* Every backend a model can be served by has a health entry, and every entry is
\* one of such a backend: what a reload keeps, makes and deletes in lb.health
\* fits what it puts in lb.backends, also when two models share a backend.
PoolTracked ==
  \A b \in Backends :
    health[b] # None <=>
      \E m \in Models : \E i \in DOMAIN pool[m] : pool[m][i].id = b

\* A selection under way only ever indexes the backends it started with: no
\* reload shrinks or replaces them before it ends.
ReadersSeeOnePool ==
  \A r \in Readers :
    /\ lookup[r] \in Models
    /\ Slots(r) # <<>>
    /\ \A k \in DOMAIN scan[r].todo : scan[r].todo[k] \in DOMAIN Slots(r)
    /\ scan[r].best \in {0} \cup DOMAIN Slots(r)

\* The requests that hold a permit of backend b's present entry.
Holders(b) ==
  {r \in Requests : /\ permit[r] # None
                    /\ permit[r].id = b
                    /\ permit[r].born = health[b].born}

\* No permit leaks: a backend never counts more requests than hold its permits,
\* whatever errors, reloads and removals happen between taking one and giving
\* it back.
NoPermitLeak ==
  \A b \in Backends :
    health[b] # None => health[b].active <= Cardinality(Holders(b))

\* The count of a backend that has been there from the start is exact.  (One
\* that was removed and added again is also charged the releases of requests
\* that were admitted before its removal, so its count can fall short.)
ExactUntilRemoved ==
  \A b \in Backends :
    (health[b] # None /\ health[b].born = 0)
      => health[b].active = Cardinality(Holders(b))

\* While a selection holds the lock, the backend it favours stays what it was
\* chosen for: present, healthy, and with room at the count the scan saw.
BestStillOpen ==
  \A r \in Requests :
    pc[r] = "scan" /\ scan[r].best # 0 =>
      LET h == health[BestOf(r)]
      IN  h # None /\ h.healthy /\ (h.max = 0 \/ scan[r].seen < h.max)

\* A permit is never younger than the entry it will be given back to, nor that
\* entry than the one in the map.
BirthsOrdered ==
  /\ \A b \in Backends : health[b] # None => health[b].born <= reloads
  /\ \A r \in Requests : permit[r] # None =>
       LET h == health[permit[r].id]
       IN  /\ permit[r].born <= reloads
           /\ h # None => permit[r].born <= h.born
           /\ entry[r] # None => /\ permit[r].born <= entry[r]
                                 /\ entry[r] <= reloads
                                 /\ h # None => entry[r] <= h.born

\* The inductive invariant: what the proofs of LoadBalancerProofs rest on.
IInv ==
  /\ TypeOK /\ PoolTracked /\ ReadersSeeOnePool /\ BestStillOpen
  /\ BirthsOrdered /\ NoPermitLeak /\ ExactUntilRemoved

\* A request is not refused while its model has a healthy backend without a
\* limit (README: no 429 by mistake because of a backend that is not limited).
RefusedOnlyIfLimited ==
  [][\A r \in Requests :
       pc[r] = "count" /\ pc'[r] = "refused" =>
         \A i \in DOMAIN Slots(r) :
           LET h == health[Slots(r)[i].id] IN h.healthy => h.max > 0]_vars

\* The balancer is an implementation of the abstract admission control.
Admission == INSTANCE AdmissionControl WITH
  inUse  <- [b \in Backends |-> IF health[b] = None THEN 0 ELSE health[b].active],
  limit  <- [b \in Backends |-> IF health[b] = None THEN 0 ELSE health[b].max],
  up     <- {b \in Backends : health[b] # None /\ health[b].healthy},
  holder <- [r \in Requests |->
               IF permit[r] = None THEN None
               ELSE [id |-> permit[r].id, degraded |-> permit[r].degraded]]

\* A regular grant is given, in one step, by a backend that is healthy and below
\* its limit at that very moment, although the scan that chose the backend read
\* the counters one by one and earlier; and nothing but grants, releases and
\* reloads moves a counter.
ImplementsAdmissionControl == Admission!Spec

----------------------------------------------------------------------------
(* Fairness and liveness *)

\* A goroutine that can run runs.  The HTTP client has a timeout, so every
\* exchange and every reply ends.  A waiting writer is let in once the readers
\* before it have left; when it leaves, the readers that waited come before
\* the next writer, hence the strong fairness of LookUpEntry.
SelectStep(r) ==
  \/ ScanOne(r) \/ TakeBest(r) \/ LoseRace(r) \/ FindNone(r)
  \/ CountOne(r) \/ Refuse(r) \/ Fallback(r)

Exchange(r) == FailToBuild(r) \/ FailToSend(r) \/ GetResponse(r)

Fairness ==
  \A r \in Requests :
    /\ WF_vars(SelectStep(r)) /\ WF_vars(Reject(r))
    /\ WF_vars(Exchange(r)) /\ WF_vars(EndReply(r))
    /\ WF_vars(MarkFailed(r) \/ MarkSuccess(r))
    /\ SF_vars(LookUpEntry(r)) /\ WF_vars(DropPermit(r))

FairSpec == Spec /\ Fairness

\* However often it loses the race for a counter, a selection ends.
SelectionEnds == \A r \in Requests : r \in Readers ~> r \notin Readers

\* Every permit is given back in the end, on every path through the workflow.
PermitReturned == \A r \in Requests : permit[r] # None ~> permit[r] = None

----------------------------------------------------------------------------
(* What comments and documentation say, and the code does not do *)

\* "Use CAS to make sure that the concurrency limit is not exceeded": no grant
\* takes a healthy backend past its limit.
HealthyKeepsItsLimit ==
  [][\A b \in Backends :
       /\ health[b] # None /\ health[b].healthy /\ health[b].max > 0
       /\ health'[b] # None /\ health'[b].active > health[b].active
       => health'[b].active <= health[b].max]_vars

\* "If all backends are unhealthy, answer 503": no request is let through to a
\* model none of whose backends is healthy.
UnhealthyModelAnswers503 ==
  [][\A r \in Requests :
       pc[r] \in Selecting /\ pc'[r] = "sending" =>
         \E i \in DOMAIN Slots(r) : health[Slots(r)[i].id].healthy]_vars
=============================================================================
