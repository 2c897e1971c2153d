------------------------- MODULE LoadBalancerProofs -------------------------
(***************************************************************************)
(* Proofs about LoadBalancer for every set of requests, every catalogue    *)
(* and every bound.  IInv is inductive; the safety invariants are conjuncts *)
(* of it, and with its help every step of the balancer is a step, or a     *)
(* stutter, of AdmissionControl.                                           *)
(***************************************************************************)
EXTENDS LoadBalancer, TLAPS, FiniteSetTheorems, SequenceTheorems,
        WellFoundedInduction

----------------------------------------------------------------------------
(* Data *)

\* A non-empty set of positions of a sequence has a last one.
LEMMA LastPosition ==
  ASSUME NEW n \in Nat, NEW T \in SUBSET (1..n), T # {}
  PROVE  \E i \in T : \A j \in T : j <= i
<1> DEFINE D == {n - i : i \in T}
<1>1. D \subseteq Nat /\ D # {}
  <2>1. \A i \in T : n - i \in Nat
    OBVIOUS
  <2> QED
    BY <2>1
<1>2. PICK d \in D : \A e \in D : ~ (<<e, d>> \in OpToRel(<, Nat))
  BY <1>1, WFMin, NatLessThanWellFounded
<1>3. PICK i \in T : d = n - i
  OBVIOUS
<1>4. ASSUME NEW j \in T PROVE j <= i
  <2>1. n - j \in D
    OBVIOUS
  <2>2. ~ (n - j < d)
    BY <1>1, <1>2, <2>1 DEF OpToRel
  <2> QED
    BY <1>3, <2>2
<1> QED
  BY <1>4

\* A backend that is not full has no limit or room below it.
LEMMA RoomUnlessFull ==
  ASSUME NEW h \in Health, ~ Full(h)
  PROVE  h.max = 0 \/ h.active < h.max
<1>1. h.max \in Nat /\ h.active \in Nat
  BY DEF Health
<1> QED
  BY <1>1 DEF Full

\* A configured backend has a limit.
LEMMA LimitType ==
  ASSUME NEW cat \in Catalogues, NEW b \in Backends, Offers(cat, b) # {}
  PROVE  LimitOf(cat, b) \in Nat
<1>1. cat \in Seq(Model) /\ Len(cat) \in Nat /\ DOMAIN cat = 1..Len(cat)
  BY CataloguesAssumption, LenProperties
<1>2. Offers(cat, b) \in SUBSET (1..Len(cat))
  BY <1>1 DEF Offers
<1> DEFINE last  == CHOOSE i \in Offers(cat, b) : \A j \in Offers(cat, b) : j <= i
           slots == cat[last].slots
           k     == CHOOSE k \in DOMAIN slots : slots[k].id = b
<1>3. last \in Offers(cat, b)
  BY <1>1, <1>2, LastPosition
<1>4. cat[last] \in Model
  BY <1>1, <1>2, <1>3, ElementOfSeq
<1>5. slots \in Seq(Slot)
  BY <1>4 DEF Model
<1>6. k \in DOMAIN slots
  BY <1>3 DEF Offers
<1>7. slots[k] \in Slot
  BY <1>5, <1>6, ElementOfSeq, LenProperties
<1> QED
  BY <1>7 DEF LimitOf, Slot

LEMMA PoolType ==
  ASSUME NEW cat \in Catalogues, NEW m \in Models
  PROVE  PoolOf(cat, m) \in Seq(Slot)
<1>1. cat \in Seq(Model) /\ DOMAIN cat = 1..Len(cat)
  BY CataloguesAssumption, LenProperties
<1>2. CASE \E i \in DOMAIN cat : cat[i].id = m
  <2> DEFINE c == CHOOSE i \in DOMAIN cat : cat[i].id = m
  <2>1. c \in DOMAIN cat
    BY <1>2
  <2>2. cat[c] \in Model
    BY <1>1, <2>1, ElementOfSeq
  <2> QED
    BY <1>2, <2>2 DEF PoolOf, Model
<1>3. CASE ~ \E i \in DOMAIN cat : cat[i].id = m
  BY <1>3, EmptySeq DEF PoolOf
<1> QED
  BY <1>2, <1>3

\* A scan starts with indices of the backends it is about, and so does a count.
LEMMA RotationType ==
  ASSUME NEW n \in Nat, NEW start \in 1..n
  PROVE  /\ Rotation(n, start) \in Seq(Nat)
         /\ \A k \in DOMAIN Rotation(n, start) : Rotation(n, start)[k] \in 1..n
<1>1. \A k \in 1..n : start + k - 2 \in Nat
  OBVIOUS
<1>2. \A k \in 1..n : ((start + k - 2) % n) + 1 \in 1..n
  BY <1>1
<1>3. Rotation(n, start) \in [1..n -> Nat]
  BY <1>2 DEF Rotation
<1>4. Rotation(n, start) \in Seq(Nat)
  BY <1>3, SeqDef
<1> QED
  BY <1>2, <1>4 DEF Rotation

LEMMA IndicesType ==
  ASSUME NEW n \in Nat
  PROVE  /\ Indices(n) \in Seq(Nat)
         /\ \A k \in DOMAIN Indices(n) : Indices(n)[k] \in 1..n
<1>1. Indices(n) \in [1..n -> Nat]
  BY DEF Indices
<1> QED
  BY <1>1, SeqDef DEF Indices

\* A reload makes the health entries of listed backends, and keeps those there
\* already are; the others go.
LEMMA ReconfiguredType ==
  ASSUME NEW cat \in Catalogues, NEW now \in Nat,
         NEW old \in [Backends -> Health \cup {None}]
  PROVE  /\ Reconfigured(cat, old, now) \in [Backends -> Health \cup {None}]
         /\ \A b \in Backends :
              LET h == Reconfigured(cat, old, now)[b]
              IN  /\ h # None <=> Offers(cat, b) # {}
                  /\ h # None /\ old[b] # None =>
                       h.born = old[b].born /\ h.active = old[b].active
                  /\ h # None /\ old[b] = None => h.born = now /\ h.active = 0
<1> SUFFICES ASSUME NEW b \in Backends
             PROVE  LET h == Reconfigured(cat, old, now)[b]
                    IN  /\ h \in Health \cup {None}
                        /\ h # None <=> Offers(cat, b) # {}
                        /\ h # None /\ old[b] # None =>
                             h.born = old[b].born /\ h.active = old[b].active
                        /\ h # None /\ old[b] = None =>
                             h.born = now /\ h.active = 0
  BY DEF Reconfigured
<1> DEFINE h == Reconfigured(cat, old, now)[b]
<1>1. CASE Offers(cat, b) = {}
  BY <1>1 DEF Reconfigured
<1>2. CASE Offers(cat, b) # {} /\ old[b] = None
  <2>1. h = NewHealth(now, LimitOf(cat, b))
    BY <1>2 DEF Reconfigured
  <2>2. h \in Health /\ h.born = now /\ h.active = 0
    BY <1>2, <2>1, LimitType, ThresholdAssumption DEF NewHealth, Health
  <2> QED
    BY <1>2, <2>2, NoneAssumption
<1>3. CASE Offers(cat, b) # {} /\ old[b] # None
  <2>1. h = [old[b] EXCEPT !.max = LimitOf(cat, b)]
    BY <1>3 DEF Reconfigured
  <2>2. old[b] \in Health
    BY <1>3
  <2>3. h \in Health /\ h.born = old[b].born /\ h.active = old[b].active
    BY <1>3, <2>1, <2>2, LimitType DEF Health
  <2> QED
    BY <1>3, <2>3, NoneAssumption
<1> QED
  BY <1>1, <1>2, <1>3

----------------------------------------------------------------------------
(* What a step that is not a reload leaves alone *)

\* Every backend a selection looks at has a health entry.
LEMMA SlotFacts ==
  ASSUME TypeOK, PoolTracked, ReadersSeeOnePool,
         NEW r \in Readers, NEW i \in DOMAIN Slots(r)
  PROVE  /\ Slots(r) \in Seq(Slot)
         /\ Slots(r)[i] \in Slot
         /\ Slots(r)[i].id \in Backends
         /\ health[Slots(r)[i].id] \in Health
<1>1. lookup[r] \in Models
  BY DEF ReadersSeeOnePool
<1>2. Slots(r) \in Seq(Slot)
  BY <1>1 DEF TypeOK, Slots
<1>3. Slots(r)[i] \in Slot
  BY <1>2, ElementOfSeq, LenProperties
<1>4. Slots(r)[i].id \in Backends
  BY <1>3 DEF Slot
<1>5. health[Slots(r)[i].id] # None
  BY <1>1, <1>4 DEF PoolTracked, Slots
<1> QED
  BY <1>2, <1>3, <1>4, <1>5 DEF TypeOK

\* The requests' backends exist.
LEMMA PermitFacts ==
  ASSUME TypeOK, NEW r \in Requests, pc[r] \in Serving
  PROVE  permit[r] \in Permit /\ permit[r].id \in Backends
BY DEF TypeOK, Permit

\* Entry h1 may replace entry h2 in a step that is not a reload.
SameEntry(h1, h2) ==
  /\ h1 \in Health \cup {None}
  /\ h1 # None <=> h2 # None
  /\ h2 # None => h1.born = h2.born /\ h1.max = h2.max

LEMMA FailedType ==
  ASSUME NEW h \in Health
  PROVE  /\ Failed(h) \in Health /\ Recovered(h) \in Health
         /\ SameEntry(Failed(h), h) /\ SameEntry(Recovered(h), h)
         /\ Failed(h).active = h.active /\ Recovered(h).active = h.active
<1> DEFINE f == IF h.fails < FailThreshold THEN h.fails + 1 ELSE h.fails
<1>1. f \in 0..FailThreshold
  BY ThresholdAssumption DEF Health
<1>2. /\ Failed(h) \in Health
      /\ Failed(h).born = h.born /\ Failed(h).max = h.max
      /\ Failed(h).active = h.active
  BY <1>1 DEF Failed, Health
<1>3. /\ Recovered(h) \in Health
      /\ Recovered(h).born = h.born /\ Recovered(h).max = h.max
      /\ Recovered(h).active = h.active
  <2>1. 0 \in 0..FailThreshold
    BY ThresholdAssumption
  <2> QED
    BY <2>1 DEF Recovered, Health
<1> QED
  BY <1>2, <1>3, NoneAssumption DEF SameEntry

LEMMA CountedType ==
  ASSUME NEW h \in Health, NEW n \in Nat
  PROVE  /\ [h EXCEPT !.active = n] \in Health
         /\ SameEntry([h EXCEPT !.active = n], h)
         /\ [h EXCEPT !.active = n].healthy = h.healthy
         /\ [h EXCEPT !.active = n].active = n
<1>1. /\ [h EXCEPT !.active = n] \in Health
      /\ [h EXCEPT !.active = n].born = h.born
      /\ [h EXCEPT !.active = n].max = h.max
      /\ [h EXCEPT !.active = n].healthy = h.healthy
      /\ [h EXCEPT !.active = n].active = n
  BY DEF Health
<1> QED
  BY <1>1, NoneAssumption DEF SameEntry

\* A grant raises the counter of an entry there is.
LEMMA GrantFacts ==
  ASSUME TypeOK, NEW r \in Requests, NEW b \in Backends, health[b] # None,
         NEW d \in BOOLEAN, Grant(r, b, d)
  PROVE  /\ health' \in [Backends -> Health \cup {None}]
         /\ \A c \in Backends : SameEntry(health'[c], health[c])
         /\ \A c \in Backends \ {b} : health'[c] = health[c]
         /\ health'[b].healthy = health[b].healthy
         /\ health'[b].active = health[b].active + 1
         /\ permit'[r] = [id |-> b, born |-> health[b].born, degraded |-> d]
         /\ permit'[r] \in Permit
<1>1. health \in [Backends -> Health \cup {None}] /\ health[b] \in Health
  BY DEF TypeOK
<1>2. health' = [health EXCEPT ![b] = [health[b] EXCEPT !.active = health[b].active + 1]]
  BY DEF Grant
<1>3. health[b].active + 1 \in Nat
  BY <1>1 DEF Health
<1>4. permit'[r] = [id |-> b, born |-> health[b].born, degraded |-> d]
  BY DEF Grant, TypeOK
<1>5. permit'[r] \in Permit
  BY <1>1, <1>4 DEF Permit, Health
<1> DEFINE h == [health[b] EXCEPT !.active = health[b].active + 1]
<1>6. /\ h \in Health /\ SameEntry(h, health[b])
      /\ h.healthy = health[b].healthy /\ h.active = health[b].active + 1
  BY <1>1, <1>3, CountedType
<1>7. \A c \in Backends : health'[c] = IF c = b THEN h ELSE health[c]
  BY <1>1, <1>2
<1> HIDE DEF h
<1>8. health' \in [Backends -> Health \cup {None}]
  BY <1>1, <1>2, <1>6 DEF h
<1> QED
  BY <1>1, <1>4, <1>5, <1>6, <1>7, <1>8 DEF SameEntry

LEMMA MarkFacts ==
  ASSUME TypeOK, NEW b \in Backends, NEW ok \in BOOLEAN,
         health' = [health EXCEPT ![b] =
                      IF @ = None THEN None
                      ELSE IF ok THEN Recovered(@) ELSE Failed(@)]
  PROVE  /\ health' \in [Backends -> Health \cup {None}]
         /\ \A c \in Backends : SameEntry(health'[c], health[c])
         /\ \A c \in Backends : health[c] # None =>
              health'[c].active = health[c].active
<1>1. health \in [Backends -> Health \cup {None}]
  BY DEF TypeOK
<1>2. \A c \in Backends :
        health'[c] = IF c # b \/ health[c] = None THEN health[c]
                     ELSE IF ok THEN Recovered(health[c]) ELSE Failed(health[c])
  BY <1>1
<1>3. \A c \in Backends : /\ SameEntry(health'[c], health[c])
                          /\ health[c] # None =>
                               health'[c].active = health[c].active
  BY <1>1, <1>2, FailedType DEF SameEntry
<1>4. health' \in [Backends -> Health \cup {None}]
  BY <1>1, <1>3 DEF SameEntry
<1> QED
  BY <1>3, <1>4

\* Giving a permit back lowers the counter of the entry that was looked up, if
\* it is still there and above 0, and no other.
LEMMA DropFacts ==
  ASSUME TypeOK, NEW r \in Requests, DropPermit(r)
  PROVE  /\ health' \in [Backends -> Health \cup {None}]
         /\ \A c \in Backends : SameEntry(health'[c], health[c])
         /\ \A c \in Backends \ {permit[r].id} : health'[c] = health[c]
         /\ LET b == permit[r].id
            IN  health[b] # None =>
                  /\ health'[b].healthy = health[b].healthy
                  /\ health'[b].active =
                       IF health[b].born = entry[r] /\ health[b].active > 0
                       THEN health[b].active - 1 ELSE health[b].active
<1> DEFINE b == permit[r].id
           lowers == /\ health[b] # None
                     /\ health[b].born = entry[r]
                     /\ health[b].active > 0
           h == [health[b] EXCEPT !.active = health[b].active - 1]
<1>1. health \in [Backends -> Health \cup {None}] /\ b \in Backends
  BY PermitFacts DEF TypeOK, DropPermit, Serving
<1>2. CASE ~ lowers
  <2>1. health' = health
    BY <1>2 DEF DropPermit
  <2> QED
    BY <1>1, <1>2, <2>1 DEF SameEntry
<1>3. CASE lowers
  <2>1. health[b] \in Health /\ health[b].active - 1 \in Nat
    BY <1>1, <1>3 DEF Health
  <2>2. /\ h \in Health /\ SameEntry(h, health[b])
        /\ h.healthy = health[b].healthy /\ h.active = health[b].active - 1
    BY <2>1, CountedType
  <2>3. health' = [health EXCEPT ![b] = h]
    BY <1>3 DEF DropPermit
  <2> HIDE DEF h
  <2>4. \A c \in Backends : health'[c] = IF c = b THEN h ELSE health[c]
    BY <1>1, <2>3
  <2>5. health' \in [Backends -> Health \cup {None}]
    BY <1>1, <2>2, <2>3
  <2> QED
    BY <1>1, <1>3, <2>1, <2>2, <2>4, <2>5 DEF SameEntry
<1> QED
  BY <1>2, <1>3

\* A favoured backend is one with an entry.
LEMMA BestFacts ==
  ASSUME TypeOK, ReadersSeeOnePool, BestStillOpen,
         NEW r \in Requests, pc[r] = "scan", scan[r].best # 0
  PROVE  /\ BestOf(r) \in Backends
         /\ health[BestOf(r)] \in Health
         /\ health[BestOf(r)].healthy
         /\ \/ health[BestOf(r)].max = 0
            \/ scan[r].seen < health[BestOf(r)].max
<1>1. r \in Readers
  BY DEF Readers, Selecting
<1>2. scan[r].best \in DOMAIN Slots(r) /\ lookup[r] \in Models
  BY <1>1 DEF ReadersSeeOnePool
<1>3. Slots(r) \in Seq(Slot)
  BY <1>2 DEF TypeOK, Slots
<1>4. Slots(r)[scan[r].best] \in Slot
  BY <1>2, <1>3, ElementOfSeq, LenProperties
<1>5. BestOf(r) \in Backends
  BY <1>4 DEF BestOf, Slot
<1> QED
  BY <1>5 DEF BestStillOpen, TypeOK

\* Degraded or not, a request that leaves its selection with a backend has been
\* granted a permit of an entry there is.
LEMMA FirstFacts ==
  ASSUME TypeOK, PoolTracked, ReadersSeeOnePool,
         NEW r \in Readers
  PROVE  Slots(r)[1].id \in Backends /\ health[Slots(r)[1].id] \in Health
<1>1. lookup[r] \in Models /\ Slots(r) # <<>>
  BY DEF ReadersSeeOnePool
<1>2. Slots(r) \in Seq(Slot)
  BY <1>1 DEF TypeOK, Slots
<1>3. 1 \in DOMAIN Slots(r)
  BY <1>1, <1>2, EmptySeq, LenProperties
<1> QED
  BY <1>3, SlotFacts

LEMMA EntriesStay ==
  ASSUME IInv, NEW r \in Requests, Request(r)
  PROVE  /\ pool' = pool /\ reloads' = reloads
         /\ health' \in [Backends -> Health \cup {None}]
         /\ \A b \in Backends : SameEntry(health'[b], health[b])
         /\ Readers # {} => \A b \in Backends : health[b] # None =>
              health'[b].healthy = health[b].healthy
<1> USE DEF IInv
<1>1. pool' = pool /\ reloads' = reloads
  BY DEF Request, Select, ScanOne, TakeBest, LoseRace, FindNone, CountOne,
         Refuse, Fallback, Reject, FailToBuild, FailToSend, GetResponse,
         EndReply, MarkFailed, MarkSuccess, LookUpEntry, DropPermit, Step
<1>2. CASE UNCHANGED health
  BY <1>1, <1>2 DEF TypeOK, SameEntry
<1>3. CASE TakeBest(r)
  <2>1. /\ Grant(r, BestOf(r), FALSE)
        /\ BestOf(r) \in Backends /\ health[BestOf(r)] # None
    BY <1>3, BestFacts, NoneAssumption DEF TakeBest, ScanDone
  <2> HIDE DEF IInv
  <2> QED
    BY <1>1, <2>1, GrantFacts DEF IInv
<1>4. CASE Fallback(r)
  <2>1. r \in Readers
    BY <1>4 DEF Fallback, Readers, Selecting
  <2>2. /\ Grant(r, Slots(r)[1].id, TRUE)
        /\ Slots(r)[1].id \in Backends /\ health[Slots(r)[1].id] # None
    BY <1>4, <2>1, FirstFacts, NoneAssumption DEF Fallback
  <2> QED
    BY <1>1, <2>2, GrantFacts
<1>5. CASE MarkFailed(r) \/ MarkSuccess(r)
  <2>1. Readers = {} /\ pc[r] \in Serving
    BY <1>5 DEF MarkFailed, MarkSuccess, CanWrite, Serving, Marking
  <2>2. PICK ok \in BOOLEAN :
          health' = [health EXCEPT ![permit[r].id] =
                      IF @ = None THEN None
                      ELSE IF ok THEN Recovered(@) ELSE Failed(@)]
    BY <1>5 DEF MarkFailed, MarkSuccess
  <2> QED
    BY <1>1, <2>1, <2>2, PermitFacts, MarkFacts
<1>6. CASE DropPermit(r)
  BY <1>1, <1>6, DropFacts
<1> QED
  BY <1>2, <1>3, <1>4, <1>5, <1>6
  DEF Request, Select, ScanOne, LoseRace, FindNone, CountOne,
      Refuse, Reject, FailToBuild, FailToSend, GetResponse, EndReply,
      LookUpEntry, Step

----------------------------------------------------------------------------
(* Types *)

LEMMA NoScanType == NoScan \in Scan
BY EmptySeq DEF NoScan, Scan

\* A new scan visits backends there are.
LEMMA BeginScanFacts ==
  ASSUME TypeOK, NEW r \in Requests, NEW n \in Nat, NEW a \in Nat,
         BeginScan(r, n, a)
  PROVE  /\ scan' \in [Requests -> Scan]
         /\ \A q \in Requests \ {r} : scan'[q] = scan[q]
         /\ \A k \in DOMAIN scan'[r].todo : scan'[r].todo[k] \in 1..n
         /\ scan'[r].best = 0
<1>1. PICK start \in 1..n :
        scan' = [scan EXCEPT ![r] =
                  [NoScan EXCEPT !.todo = Rotation(n, start), !.attempt = a]]
  BY DEF BeginScan
<1> DEFINE s == [NoScan EXCEPT !.todo = Rotation(n, start), !.attempt = a]
<1>2. s \in Scan /\ s.todo = Rotation(n, start) /\ s.best = 0
  BY RotationType DEF NoScan, Scan
<1> HIDE DEF s
<1>3. scan \in [Requests -> Scan] /\ scan' = [scan EXCEPT ![r] = s]
  BY <1>1 DEF TypeOK, s
<1> QED
  BY <1>2, <1>3, RotationType

LEMMA BeginCountFacts ==
  ASSUME TypeOK, PoolTracked, ReadersSeeOnePool,
         NEW r \in Readers, BeginCount(r)
  PROVE  /\ scan' \in [Requests -> Scan]
         /\ \A q \in Requests \ {r} : scan'[q] = scan[q]
         /\ \A k \in DOMAIN scan'[r].todo : scan'[r].todo[k] \in DOMAIN Slots(r)
         /\ scan'[r].best = 0
<1> DEFINE n == Len(Slots(r))
           s == [NoScan EXCEPT !.todo = Indices(n)]
<1>1. r \in Requests /\ lookup[r] \in Models
  BY DEF Readers, ReadersSeeOnePool
<1>2. Slots(r) \in Seq(Slot)
  BY <1>1 DEF TypeOK, Slots
<1>3. n \in Nat /\ DOMAIN Slots(r) = 1..n
  BY <1>2, LenProperties
<1>4. s \in Scan /\ s.todo = Indices(n) /\ s.best = 0
  BY <1>3, IndicesType DEF NoScan, Scan
<1>5. scan \in [Requests -> Scan] /\ scan' = [scan EXCEPT ![r] = s]
  BY DEF TypeOK, BeginCount
<1> HIDE DEF s, n
<1> QED
  BY <1>1, <1>3, <1>4, <1>5, IndicesType

\* A step of a scan or of a count takes one index from the list.
LEMMA ScanOneFacts ==
  ASSUME TypeOK, PoolTracked, ReadersSeeOnePool, NEW r \in Requests, ScanOne(r)
  PROVE  /\ r \in Readers
         /\ Head(scan[r].todo) \in DOMAIN Slots(r)
         /\ scan' \in [Requests -> Scan]
         /\ \A q \in Requests \ {r} : scan'[q] = scan[q]
         /\ scan'[r].todo = Tail(scan[r].todo)
         /\ \/ /\ scan'[r].best = scan[r].best
               /\ scan'[r].seen = scan[r].seen
            \/ LET h == health[Slots(r)[Head(scan[r].todo)].id]
               IN  /\ scan'[r].best = Head(scan[r].todo)
                   /\ scan'[r].seen = h.active
                   /\ h.healthy /\ ~ Full(h)
<1> DEFINE i == Head(scan[r].todo)
           h == health[Slots(r)[i].id]
           rest == [scan[r] EXCEPT !.todo = Tail(@)]
           took == [rest EXCEPT !.best = i, !.seen = h.active]
<1>1. r \in Readers /\ scan[r] \in Scan /\ scan[r].todo # <<>>
  BY DEF ScanOne, Readers, Selecting, TypeOK
<1>2. scan[r].todo \in Seq(Nat)
  BY <1>1 DEF Scan
<1>3. 1 \in DOMAIN scan[r].todo /\ i = scan[r].todo[1]
  BY <1>1, <1>2, EmptySeq, LenProperties
<1>4. i \in DOMAIN Slots(r) /\ i \in Nat /\ Tail(scan[r].todo) \in Seq(Nat)
  BY <1>1, <1>2, <1>3, HeadTailProperties DEF ReadersSeeOnePool
<1>5. h \in Health
  BY <1>1, <1>4, SlotFacts
<1>6. /\ rest \in Scan /\ rest.todo = Tail(scan[r].todo)
      /\ rest.best = scan[r].best /\ rest.seen = scan[r].seen
  BY <1>1, <1>4 DEF Scan
<1>7. /\ took \in Scan /\ took.todo = Tail(scan[r].todo)
      /\ took.best = i /\ took.seen = h.active
  BY <1>1, <1>4, <1>5 DEF Scan, Health
<1>8. \/ scan' = [scan EXCEPT ![r] = rest]
      \/ scan' = [scan EXCEPT ![r] = took] /\ h.healthy /\ ~ Full(h)
  BY DEF ScanOne
<1>9. scan \in [Requests -> Scan]
  BY DEF TypeOK
<1> HIDE DEF rest, took, h, i
<1>10. CASE scan' = [scan EXCEPT ![r] = rest]
  BY <1>1, <1>4, <1>6, <1>9, <1>10 DEF i
<1>11. CASE scan' = [scan EXCEPT ![r] = took] /\ h.healthy /\ ~ Full(h)
  BY <1>1, <1>4, <1>7, <1>9, <1>11 DEF i, h
<1> QED
  BY <1>8, <1>10, <1>11

LEMMA CountOneFacts ==
  ASSUME TypeOK, NEW r \in Requests, CountOne(r)
  PROVE  /\ r \in Readers
         /\ scan[r].todo \in Seq(Nat) /\ scan[r].todo # <<>>
         /\ scan' \in [Requests -> Scan]
         /\ \A q \in Requests \ {r} : scan'[q] = scan[q]
         /\ scan'[r].todo = Tail(scan[r].todo)
         /\ scan'[r].best = scan[r].best
<1>1. r \in Readers /\ scan[r] \in Scan /\ scan[r].todo # <<>>
  BY DEF CountOne, Readers, Selecting, TypeOK
<1>2. scan[r].todo \in Seq(Nat)
  BY <1>1 DEF Scan
<1> DEFINE h  == health[Slots(r)[Head(scan[r].todo)].id]
           up == h # None /\ h.healthy
           healthy == scan[r].healthy \/ up
           spare   == scan[r].spare \/ (up /\ ~ Full(h))
           s == [scan[r] EXCEPT !.todo = Tail(@), !.healthy = healthy,
                                !.spare = spare]
<1>3. healthy \in BOOLEAN /\ spare \in BOOLEAN
  OBVIOUS
<1>4. Tail(scan[r].todo) \in Seq(Nat)
  BY <1>1, <1>2, HeadTailProperties
<1>5. scan' = [scan EXCEPT ![r] = s]
  BY DEF CountOne
<1> HIDE DEF healthy, spare
<1>6. s \in Scan /\ s.todo = Tail(scan[r].todo) /\ s.best = scan[r].best
  BY <1>1, <1>3, <1>4 DEF Scan
<1> HIDE DEF s
<1> QED
  BY <1>1, <1>2, <1>5, <1>6 DEF TypeOK

\* The types of what a selection changes.
LEMMA SelectType ==
  ASSUME IInv, NEW r \in Requests, NEW m \in Models,
         NEW default \in Models \cup {None}, Select(r, m, default)
  PROVE  TypeOK'
<1> DEFINE from == Resolve(m, default)
<1>1. from \in Models
  BY DEF Resolve
<1>2. pool[from] \in Seq(Slot) /\ Len(pool[from]) \in Nat
  BY <1>1, LenProperties DEF IInv, TypeOK
<1>3. CASE pool[from] = <<>>
  BY <1>3 DEF Select, IInv, TypeOK, Stages, Serving, Marking, Selecting
<1>4. CASE pool[from] # <<>>
  <2>1. /\ pc' = [pc EXCEPT ![r] = "scan"]
        /\ lookup' = [lookup EXCEPT ![r] = from]
        /\ BeginScan(r, Len(pool[from]), 1)
        /\ UNCHANGED <<pool, health, reloads, permit, entry>>
    BY <1>4 DEF Select
  <2>2. scan' \in [Requests -> Scan]
    BY <1>2, <2>1, BeginScanFacts DEF IInv
  <2> QED
    BY <1>1, <2>1, <2>2
    DEF Select, IInv, TypeOK, Stages, Serving, Marking, Selecting
<1> QED
  BY <1>3, <1>4

LEMMA ScanningType ==
  ASSUME IInv, NEW r \in Requests,
         ScanOne(r) \/ CountOne(r) \/ LoseRace(r) \/ FindNone(r) \/ Refuse(r)
  PROVE  TypeOK'
<1>1. UNCHANGED <<pool, health, reloads, permit, entry>>
  BY DEF ScanOne, CountOne, LoseRace, FindNone, Refuse
<1>2. scan' \in [Requests -> Scan]
  <2>1. CASE ScanOne(r)
    BY <2>1, ScanOneFacts DEF IInv
  <2>2. CASE CountOne(r)
    BY <2>2, CountOneFacts DEF IInv
  <2>3. CASE LoseRace(r) \/ FindNone(r)
    <3>1. r \in Readers
      BY <2>3 DEF LoseRace, FindNone, ScanDone, Readers, Selecting
    <3>2. Slots(r) \in Seq(Slot) /\ Len(Slots(r)) \in Nat
      BY <3>1, LenProperties DEF IInv, TypeOK, ReadersSeeOnePool, Slots
    <3>3. scan[r].attempt + 1 \in Nat
      BY DEF IInv, TypeOK, Scan
    <3>4. CASE BeginScan(r, Len(Slots(r)), scan[r].attempt + 1)
      BY <3>2, <3>3, <3>4, BeginScanFacts DEF IInv
    <3>5. CASE BeginCount(r)
      BY <3>1, <3>5, BeginCountFacts DEF IInv
    <3> QED
      BY <2>3, <3>4, <3>5 DEF LoseRace, FindNone
  <2>4. CASE Refuse(r)
    BY <2>4, NoScanType DEF Refuse, IInv, TypeOK
  <2> QED
    BY <2>1, <2>2, <2>3, <2>4
<1>3. /\ lookup' \in [Requests -> Models \cup {None}]
      /\ pc' \in [Requests -> Stages]
      /\ pc[r] \notin Serving /\ pc'[r] \notin Serving
      /\ \A q \in Requests \ {r} : pc'[q] = pc[q]
  BY DEF ScanOne, CountOne, LoseRace, FindNone, Refuse, BeginCount, ScanDone,
         IInv, TypeOK, Stages, Serving, Marking, Selecting
<1> QED
  BY <1>1, <1>2, <1>3 DEF IInv, TypeOK, Serving

LEMMA GrantType ==
  ASSUME IInv, NEW r \in Requests, TakeBest(r) \/ Fallback(r)
  PROVE  TypeOK'
<1>1. PICK b \in Backends, d \in BOOLEAN : Grant(r, b, d) /\ health[b] # None
  <2>1. CASE TakeBest(r)
    BY <2>1, BestFacts, NoneAssumption DEF TakeBest, ScanDone, IInv
  <2>2. CASE Fallback(r)
    <3>1. r \in Readers
      BY <2>2 DEF Fallback, Readers, Selecting
    <3> QED
      BY <2>2, <3>1, FirstFacts DEF Fallback, IInv
  <2> QED
    BY <2>1, <2>2
<1>2. health' \in [Backends -> Health \cup {None}] /\ permit'[r] \in Permit
  BY <1>1, GrantFacts DEF IInv
<1>3. permit' \in [Requests -> Permit \cup {None}] /\ permit'[r] # None
  <2>1. permit'[r] # None
    BY <1>2, NoneAssumption
  <2>2. permit' = [permit EXCEPT ![r] = permit'[r]]
    BY <1>1 DEF Grant, IInv, TypeOK
  <2> QED
    BY <1>2, <2>1, <2>2 DEF IInv, TypeOK
<1>4. /\ pc' = [pc EXCEPT ![r] = "sending"]
      /\ lookup' = [lookup EXCEPT ![r] = None]
      /\ scan' = [scan EXCEPT ![r] = NoScan]
      /\ \A q \in Requests \ {r} : permit'[q] = permit[q]
      /\ UNCHANGED <<pool, reloads, entry>>
  BY <1>1 DEF Grant, TakeBest, Fallback, IInv, TypeOK
<1>5. entry[r] = None
  BY DEF IInv, TypeOK, TakeBest, Fallback, ScanDone
<1> QED
  BY <1>2, <1>3, <1>4, <1>5, NoScanType
  DEF IInv, TypeOK, Stages, Serving, Marking, Selecting

LEMMA ServingType ==
  ASSUME IInv, NEW r \in Requests,
         \/ Reject(r) \/ FailToBuild(r) \/ FailToSend(r) \/ GetResponse(r)
         \/ EndReply(r) \/ MarkFailed(r) \/ MarkSuccess(r)
         \/ LookUpEntry(r) \/ DropPermit(r)
  PROVE  TypeOK'
<1>1. Request(r)
  BY DEF Request
<1>2. pool' = pool /\ reloads' = reloads
      /\ health' \in [Backends -> Health \cup {None}]
  BY <1>1, EntriesStay
<1>3. CASE Reject(r)
  BY <1>2, <1>3
  DEF Reject, IInv, TypeOK, Stages, Serving, Marking, Selecting
<1>4. CASE \/ FailToBuild(r) \/ FailToSend(r) \/ GetResponse(r) \/ EndReply(r)
           \/ MarkFailed(r) \/ MarkSuccess(r)
  BY <1>2, <1>4
  DEF FailToBuild, FailToSend, GetResponse, EndReply, Step, MarkFailed,
      MarkSuccess, IInv, TypeOK, Stages, Serving, Marking, Selecting
<1>5. CASE LookUpEntry(r)
  <2> DEFINE h == health[permit[r].id]
  <2>1. permit[r] # None /\ h \in Health \cup {None}
    BY <1>5, PermitFacts, NoneAssumption
    DEF LookUpEntry, IInv, TypeOK, Serving
  <2>2. h # None => h.born \in Nat /\ h.born # None
    BY <2>1, NoneAssumption DEF Health
  <2> HIDE DEF h
  <2>3. \/ /\ pc'     = [pc EXCEPT ![r] = "idle"]
           /\ permit' = [permit EXCEPT ![r] = None]
           /\ UNCHANGED entry
        \/ /\ h # None
           /\ pc'    = [pc EXCEPT ![r] = "drop"]
           /\ entry' = [entry EXCEPT ![r] = h.born]
           /\ UNCHANGED permit
    BY <1>5 DEF LookUpEntry, h
  <2> QED
    BY <1>2, <1>5, <2>1, <2>2, <2>3
    DEF LookUpEntry, IInv, TypeOK, Stages, Serving, Marking, Selecting
<1>6. CASE DropPermit(r)
  BY <1>2, <1>6
  DEF DropPermit, IInv, TypeOK, Stages, Serving, Marking, Selecting
<1> QED
  BY <1>3, <1>4, <1>5, <1>6

LEMMA CheckFacts ==
  ASSUME TypeOK, NEW b \in Backends, NEW ok \in BOOLEAN, CheckHealth(b, ok)
  PROVE  /\ health' \in [Backends -> Health \cup {None}]
         /\ \A c \in Backends : SameEntry(health'[c], health[c])
         /\ \A c \in Backends : health[c] # None =>
              health'[c].active = health[c].active
<1>1. health' = [health EXCEPT ![b] =
                   IF @ = None THEN None
                   ELSE IF ok THEN Recovered(@) ELSE Failed(@)]
  BY DEF CheckHealth
<1> QED
  BY <1>1, MarkFacts

LEMMA TypeStep == ASSUME IInv, [Next]_vars PROVE TypeOK'
<1>1. ASSUME NEW r \in Requests, Request(r) PROVE TypeOK'
  BY <1>1, SelectType, ScanningType, GrantType, ServingType DEF Request
<1>2. ASSUME NEW b \in Backends, NEW ok \in BOOLEAN, CheckHealth(b, ok)
      PROVE  TypeOK'
  BY <1>2, CheckFacts DEF CheckHealth, IInv, TypeOK, Serving
<1>3. ASSUME NEW cat \in Catalogues, ReloadConfig(cat) PROVE TypeOK'
  <2>1. reloads' \in 0..MaxReloads /\ reloads + 1 \in Nat
    BY <1>3, ReloadsAssumption DEF ReloadConfig, IInv, TypeOK
  <2>2. health' \in [Backends -> Health \cup {None}]
    BY <1>3, <2>1, ReconfiguredType DEF ReloadConfig, IInv, TypeOK
  <2>3. pool' \in [Models -> Seq(Slot)]
    BY <1>3, PoolType DEF ReloadConfig
  <2> QED
    BY <1>3, <2>1, <2>2, <2>3 DEF ReloadConfig, IInv, TypeOK, Serving
<1>4. CASE UNCHANGED vars
  BY <1>4 DEF vars, IInv, TypeOK, Serving
<1> QED
  BY <1>1, <1>2, <1>3, <1>4 DEF Next

----------------------------------------------------------------------------
(* The configuration and the selections under way *)

\* IDs being unique within a configuration, the models that list a backend are
\* those whose pool has it.
LEMMA OffersInPool ==
  ASSUME NEW cat \in Catalogues, NEW b \in Backends
  PROVE  Offers(cat, b) # {} <=>
           \E m \in Models : \E k \in DOMAIN PoolOf(cat, m) : PoolOf(cat, m)[k].id = b
<1>1. cat \in Seq(Model) /\ DOMAIN cat = 1..Len(cat)
  BY CataloguesAssumption, LenProperties
<1>2. ASSUME NEW i \in DOMAIN cat PROVE cat[i].id \in Models /\ PoolOf(cat, cat[i].id) = cat[i].slots
  <2>1. cat[i] \in Model
    BY <1>1, ElementOfSeq
  <2> DEFINE c == CHOOSE j \in DOMAIN cat : cat[j].id = cat[i].id
  <2>2. c \in DOMAIN cat /\ cat[c].id = cat[i].id
    OBVIOUS
  <2>3. c = i
    BY <2>2, UniqueIdsAssumption
  <2> QED
    BY <2>1, <2>3 DEF PoolOf, Model
<1>3. ASSUME Offers(cat, b) # {}
      PROVE  \E m \in Models : \E k \in DOMAIN PoolOf(cat, m) : PoolOf(cat, m)[k].id = b
  <2>1. PICK i \in DOMAIN cat : \E k \in DOMAIN cat[i].slots : cat[i].slots[k].id = b
    BY <1>3 DEF Offers
  <2> QED
    BY <1>2, <2>1
<1>4. ASSUME NEW m \in Models, NEW k \in DOMAIN PoolOf(cat, m), PoolOf(cat, m)[k].id = b
      PROVE  Offers(cat, b) # {}
  <2>1. CASE \E i \in DOMAIN cat : cat[i].id = m
    BY <1>2, <1>4, <2>1 DEF Offers
  <2>2. CASE ~ \E i \in DOMAIN cat : cat[i].id = m
    <3>1. PoolOf(cat, m) = <<>>
      BY <2>2 DEF PoolOf
    <3>2. k \in 1..0
      BY <3>1
    <3> QED
      BY <3>2
  <2> QED
    BY <2>1, <2>2
<1> QED
  BY <1>3, <1>4

LEMMA TrackedStep == ASSUME IInv, [Next]_vars PROVE PoolTracked'
<1>1. ASSUME pool' = pool, \A b \in Backends : health'[b] # None <=> health[b] # None
      PROVE  PoolTracked'
  BY <1>1 DEF IInv, PoolTracked
<1>2. ASSUME NEW r \in Requests, Request(r) PROVE PoolTracked'
  BY <1>1, <1>2, EntriesStay DEF SameEntry
<1>3. ASSUME NEW b \in Backends, NEW ok \in BOOLEAN, CheckHealth(b, ok)
      PROVE  PoolTracked'
  BY <1>1, <1>3, CheckFacts DEF SameEntry, CheckHealth, IInv
<1>4. ASSUME NEW cat \in Catalogues, ReloadConfig(cat) PROVE PoolTracked'
  <2>1. reloads + 1 \in Nat /\ health \in [Backends -> Health \cup {None}]
    BY DEF IInv, TypeOK
  <2>2. \A b \in Backends : health'[b] # None <=> Offers(cat, b) # {}
    BY <1>4, <2>1, ReconfiguredType DEF ReloadConfig
  <2>3. \A m \in Models : pool'[m] = PoolOf(cat, m)
    BY <1>4 DEF ReloadConfig
  <2> QED
    BY <2>2, <2>3, OffersInPool DEF PoolTracked
<1>5. CASE UNCHANGED vars
  BY <1>1, <1>5 DEF vars
<1> QED
  BY <1>2, <1>3, <1>4, <1>5 DEF Next

\* A selection sees one pool from its first to its last step.
ReaderOf(p, r) ==
  /\ lookup[r] \in Models
  /\ p[lookup[r]] # <<>>
  /\ \A k \in DOMAIN scan[r].todo : scan[r].todo[k] \in DOMAIN p[lookup[r]]
  /\ scan[r].best \in {0} \cup DOMAIN p[lookup[r]]

LEMMA ReadersStep == ASSUME IInv, [Next]_vars PROVE ReadersSeeOnePool'
<1>1. \A q \in Requests : pc[q] \in Selecting => ReaderOf(pool, q)
  BY DEF IInv, ReadersSeeOnePool, Readers, Slots, ReaderOf
<1>2. ASSUME pool' = pool,
             NEW r \in Requests,
             \A q \in Requests \ {r} : /\ pc'[q] = pc[q]
                                       /\ lookup'[q] = lookup[q]
                                       /\ scan'[q] = scan[q],
             pc'[r] \in Selecting => ReaderOf(pool, r)'
      PROVE  ReadersSeeOnePool'
  BY <1>1, <1>2 DEF ReadersSeeOnePool, Readers, Slots, ReaderOf
<1>3. ASSUME NEW r \in Requests, NEW m \in Models,
             NEW default \in Models \cup {None}, Select(r, m, default)
      PROVE  ReadersSeeOnePool'
  <2> DEFINE from == Resolve(m, default)
  <2>1. from \in Models
    BY DEF Resolve
  <2>2. /\ pool[from] \in Seq(Slot) /\ Len(pool[from]) \in Nat
        /\ DOMAIN pool[from] = 1..Len(pool[from])
    BY <2>1, LenProperties DEF IInv, TypeOK
  <2>3. CASE pool[from] = <<>>
    BY <1>2, <1>3, <2>3 DEF Select, Selecting, IInv, TypeOK
  <2>4. CASE pool[from] # <<>>
    <3>1. /\ pc' = [pc EXCEPT ![r] = "scan"]
          /\ lookup' = [lookup EXCEPT ![r] = from]
          /\ BeginScan(r, Len(pool[from]), 1)
          /\ pool' = pool
      BY <1>3, <2>4 DEF Select
    <3>2. /\ \A q \in Requests \ {r} : scan'[q] = scan[q]
          /\ \A k \in DOMAIN scan'[r].todo :
               scan'[r].todo[k] \in DOMAIN pool[from]
          /\ scan'[r].best = 0
      BY <2>2, <3>1, BeginScanFacts DEF IInv
    <3>3. lookup'[r] = from
      BY <3>1 DEF IInv, TypeOK
    <3>4. ReaderOf(pool, r)'
      BY <2>1, <2>4, <3>1, <3>2, <3>3 DEF ReaderOf
    <3> QED
      BY <1>2, <3>1, <3>2, <3>4 DEF IInv, TypeOK
  <2> QED
    BY <2>3, <2>4
<1>4. ASSUME NEW r \in Requests, ScanOne(r) \/ CountOne(r)
      PROVE  ReadersSeeOnePool'
  <2>1. /\ r \in Readers /\ scan[r].todo \in Seq(Nat) /\ scan[r].todo # <<>>
        /\ \A q \in Requests \ {r} : scan'[q] = scan[q]
        /\ scan'[r].todo = Tail(scan[r].todo)
        /\ scan'[r].best \in {0} \cup DOMAIN Slots(r)
    <3>1. r \in Readers /\ scan[r] \in Scan /\ scan[r].todo # <<>>
      BY <1>4 DEF ScanOne, CountOne, Readers, Selecting, IInv, TypeOK
    <3>2. scan[r].best \in {0} \cup DOMAIN Slots(r)
      BY <3>1 DEF IInv, ReadersSeeOnePool
    <3> QED
      BY <1>4, <3>1, <3>2, ScanOneFacts, CountOneFacts DEF IInv, Scan
  <2>2. /\ \A k \in DOMAIN Tail(scan[r].todo) :
             /\ k + 1 \in DOMAIN scan[r].todo
             /\ Tail(scan[r].todo)[k] = scan[r].todo[k + 1]
    BY <2>1, HeadTailProperties, LenProperties
  <2>3. UNCHANGED <<pool, pc, lookup>>
    BY <1>4 DEF ScanOne, CountOne
  <2>4. ReaderOf(pool, r)'
    BY <1>1, <2>1, <2>2, <2>3 DEF ReaderOf, Readers, Slots
  <2> QED
    BY <1>2, <2>1, <2>3, <2>4
<1>5. ASSUME NEW r \in Requests, LoseRace(r) \/ FindNone(r)
      PROVE  ReadersSeeOnePool'
  <2>1. r \in Readers /\ Slots(r) \in Seq(Slot) /\ Len(Slots(r)) \in Nat
        /\ DOMAIN Slots(r) = 1..Len(Slots(r)) /\ scan[r].attempt + 1 \in Nat
    <3>1. r \in Readers /\ lookup[r] \in Models
      BY <1>5
      DEF LoseRace, FindNone, ScanDone, Readers, Selecting, IInv, ReadersSeeOnePool
    <3> QED
      BY <3>1, LenProperties DEF IInv, TypeOK, Slots, Scan
  <2>2. \/ BeginScan(r, Len(Slots(r)), scan[r].attempt + 1) /\ UNCHANGED pc
        \/ BeginCount(r)
    BY <1>5 DEF LoseRace, FindNone
  <2>3. /\ \A q \in Requests \ {r} : scan'[q] = scan[q]
        /\ \A k \in DOMAIN scan'[r].todo : scan'[r].todo[k] \in DOMAIN Slots(r)
        /\ scan'[r].best = 0
    BY <2>1, <2>2, BeginScanFacts, BeginCountFacts DEF IInv
  <2>4. UNCHANGED <<pool, lookup>> /\ \A q \in Requests \ {r} : pc'[q] = pc[q]
    BY <1>5, <2>2 DEF LoseRace, FindNone, BeginCount, IInv, TypeOK
  <2>5. ReaderOf(pool, r)'
    BY <1>1, <2>1, <2>3, <2>4 DEF ReaderOf, Readers, Slots
  <2> QED
    BY <1>2, <2>3, <2>4, <2>5
<1>6. ASSUME NEW r \in Requests,
             \/ Refuse(r) \/ TakeBest(r) \/ Fallback(r)
             \/ Reject(r) \/ FailToBuild(r) \/ FailToSend(r) \/ GetResponse(r)
             \/ EndReply(r) \/ MarkFailed(r) \/ MarkSuccess(r)
             \/ LookUpEntry(r) \/ DropPermit(r)
      PROVE  ReadersSeeOnePool'
  <2>1. /\ \A q \in Requests \ {r} : /\ pc'[q] = pc[q]
                                     /\ lookup'[q] = lookup[q]
                                     /\ scan'[q] = scan[q]
        /\ pc'[r] \notin Selecting
        /\ pool' = pool
    BY <1>6
    DEF Refuse, TakeBest, Fallback, Grant, Reject, FailToBuild, FailToSend,
        GetResponse, EndReply, Step, MarkFailed, MarkSuccess, LookUpEntry,
        DropPermit, Selecting, IInv, TypeOK
  <2> QED
    BY <1>2, <2>1
<1>7. ASSUME NEW b \in Backends, NEW ok \in BOOLEAN, CheckHealth(b, ok)
      PROVE  ReadersSeeOnePool'
  BY <1>7 DEF CheckHealth, IInv, ReadersSeeOnePool, Readers, Slots
<1>8. ASSUME NEW cat \in Catalogues, ReloadConfig(cat) PROVE ReadersSeeOnePool'
  BY <1>8 DEF ReloadConfig, CanWrite, ReadersSeeOnePool, Readers
<1>9. CASE UNCHANGED vars
  BY <1>9 DEF vars, IInv, ReadersSeeOnePool, Readers, Slots
<1> QED
  BY <1>3, <1>4, <1>5, <1>6, <1>7, <1>8, <1>9 DEF Next, Request

----------------------------------------------------------------------------
(* The favourite of a scan *)

LEMMA BestStep == ASSUME IInv, [Next]_vars PROVE BestStillOpen'
<1> DEFINE Open(q) == pc[q] = "scan" /\ scan[q].best # 0 =>
             LET h == health[BestOf(q)]
             IN  h # None /\ h.healthy /\ (h.max = 0 \/ scan[q].seen < h.max)
<1>1. \A q \in Requests : Open(q)
  BY DEF IInv, BestStillOpen
\* What a request was about to pick stays as good as it was.
<1>2. ASSUME pool' = pool,
             \A b \in Backends : SameEntry(health'[b], health[b]),
             Readers # {} => \A b \in Backends : health[b] # None =>
               health'[b].healthy = health[b].healthy,
             NEW q \in Requests,
             UNCHANGED <<pc[q], lookup[q], scan[q].best, scan[q].seen>>
      PROVE  Open(q)'
  <2> SUFFICES ASSUME pc[q] = "scan", scan[q].best # 0 PROVE Open(q)'
    BY <1>2
  <2>1. BestOf(q) \in Backends /\ health[BestOf(q)] \in Health
    BY BestFacts DEF IInv
  <2>2. BestOf(q)' = BestOf(q)
    BY <1>2 DEF BestOf, Slots
  <2>3. Readers # {}
    BY DEF Readers, Selecting
  <2>4. health[BestOf(q)] # None
    BY <2>1, NoneAssumption
  <2> QED
    BY <1>1, <1>2, <2>1, <2>2, <2>3, <2>4 DEF SameEntry
<1>3. ASSUME NEW r \in Requests, Request(r) PROVE BestStillOpen'
  <2>1. /\ pool' = pool
        /\ \A b \in Backends : SameEntry(health'[b], health[b])
        /\ Readers # {} => \A b \in Backends : health[b] # None =>
             health'[b].healthy = health[b].healthy
    BY <1>3, EntriesStay
  <2>2. CASE ScanOne(r)
    <3> DEFINE i == Head(scan[r].todo)
               h == health[Slots(r)[i].id]
    <3>1. /\ UNCHANGED <<pool, health, pc, lookup>>
          /\ \A q \in Requests \ {r} : scan'[q] = scan[q]
          /\ r \in Readers /\ i \in DOMAIN Slots(r)
      BY <2>2, ScanOneFacts DEF ScanOne, IInv
    <3>2. h \in Health /\ h # None
      BY <3>1, SlotFacts, NoneAssumption DEF IInv
    <3>3. CASE scan'[r].best = scan[r].best /\ scan'[r].seen = scan[r].seen
      <4>1. Open(r)'
        BY <1>2, <2>1, <3>1, <3>3
      <4> QED
        BY <1>2, <2>1, <3>1, <4>1 DEF BestStillOpen
    <3>4. CASE /\ scan'[r].best = i /\ scan'[r].seen = h.active
               /\ h.healthy /\ ~ Full(h)
      <4>1. BestOf(r)' = Slots(r)[i].id
        BY <3>1, <3>4 DEF BestOf, Slots
      <4>2. h.max = 0 \/ h.active < h.max
        <5> HIDE DEF h
        <5> QED
          BY <3>2, <3>4, RoomUnlessFull
      <4>3. Open(r)'
        BY <3>1, <3>2, <3>4, <4>1, <4>2
      <4> QED
        BY <1>2, <2>1, <3>1, <4>3 DEF BestStillOpen
    <3> QED
      BY <2>2, <3>3, <3>4, ScanOneFacts DEF IInv
  <2>3. ASSUME \A q \in Requests \ {r} : UNCHANGED <<pc[q], lookup[q], scan[q]>>,
               pc'[r] = "scan" => scan'[r].best = 0
        PROVE  BestStillOpen'
    BY <1>2, <2>1, <2>3 DEF BestStillOpen
  <2>4. ASSUME NEW m \in Models, NEW default \in Models \cup {None},
               Select(r, m, default)
        PROVE  BestStillOpen'
    <3> DEFINE from == Resolve(m, default)
    <3>1. CASE pool[from] = <<>>
      BY <2>3, <2>4, <3>1 DEF Select, IInv, TypeOK
    <3>2. CASE pool[from] # <<>>
      <4>1. from \in Models
        BY DEF Resolve
      <4>2. Len(pool[from]) \in Nat
        BY <4>1, LenProperties DEF IInv, TypeOK
      <4>3. /\ pc' = [pc EXCEPT ![r] = "scan"]
            /\ lookup' = [lookup EXCEPT ![r] = from]
            /\ BeginScan(r, Len(pool[from]), 1)
        BY <2>4, <3>2 DEF Select
      <4> QED
        BY <2>3, <4>2, <4>3, BeginScanFacts DEF IInv, TypeOK
    <3> QED
      BY <3>1, <3>2
  <2>5. CASE LoseRace(r) \/ FindNone(r)
    <3>1. r \in Readers /\ Len(Slots(r)) \in Nat /\ scan[r].attempt + 1 \in Nat
      <4>1. r \in Readers /\ lookup[r] \in Models
        BY <2>5
        DEF LoseRace, FindNone, ScanDone, Readers, Selecting, IInv, ReadersSeeOnePool
      <4> QED
        BY <4>1, LenProperties DEF IInv, TypeOK, Slots, Scan
    <3>2. \/ BeginScan(r, Len(Slots(r)), scan[r].attempt + 1) /\ UNCHANGED pc
          \/ BeginCount(r)
      BY <2>5 DEF LoseRace, FindNone
    <3>3. /\ \A q \in Requests \ {r} : scan'[q] = scan[q]
          /\ scan'[r].best = 0
      BY <3>1, <3>2, BeginScanFacts, BeginCountFacts DEF IInv
    <3>4. UNCHANGED lookup /\ \A q \in Requests \ {r} : pc'[q] = pc[q]
      BY <2>5, <3>2 DEF LoseRace, FindNone, BeginCount, IInv, TypeOK
    <3> QED
      BY <2>3, <3>3, <3>4
  <2>6. CASE CountOne(r)
    <3>1. /\ \A q \in Requests \ {r} : scan'[q] = scan[q]
          /\ UNCHANGED <<pc, lookup>> /\ pc[r] = "count"
      BY <2>6, CountOneFacts DEF CountOne, IInv
    <3> QED
      BY <2>3, <3>1
  <2>7. CASE \/ Refuse(r) \/ TakeBest(r) \/ Fallback(r)
             \/ Reject(r) \/ FailToBuild(r) \/ FailToSend(r) \/ GetResponse(r)
             \/ EndReply(r) \/ MarkFailed(r) \/ MarkSuccess(r)
             \/ LookUpEntry(r) \/ DropPermit(r)
    <3>1. /\ \A q \in Requests \ {r} : UNCHANGED <<pc[q], lookup[q], scan[q]>>
          /\ pc'[r] # "scan"
      BY <2>7
      DEF Refuse, TakeBest, Fallback, Grant, Reject, FailToBuild, FailToSend,
          GetResponse, EndReply, Step, MarkFailed, MarkSuccess, LookUpEntry,
          DropPermit, IInv, TypeOK
    <3> QED
      BY <2>3, <3>1
  <2> QED
    BY <1>3, <2>2, <2>4, <2>5, <2>6, <2>7 DEF Request
<1>4. ASSUME NEW b \in Backends, NEW ok \in BOOLEAN, CheckHealth(b, ok)
      PROVE  BestStillOpen'
  BY <1>4, <1>2, CheckFacts DEF CheckHealth, CanWrite, IInv, BestStillOpen
<1>5. ASSUME NEW cat \in Catalogues, ReloadConfig(cat) PROVE BestStillOpen'
  BY <1>5 DEF ReloadConfig, CanWrite, Readers, Selecting, BestStillOpen
<1>6. CASE UNCHANGED vars
  BY <1>1, <1>6 DEF vars, BestStillOpen, BestOf, Slots
<1> QED
  BY <1>3, <1>4, <1>5, <1>6 DEF Next

----------------------------------------------------------------------------
(* The order of births *)

LEMMA BirthsStep == ASSUME IInv, [Next]_vars PROVE BirthsOrdered'
<1> DEFINE Born(q) == permit[q] # None =>
             LET h == health[permit[q].id]
             IN  /\ permit[q].born <= reloads
                 /\ h # None => permit[q].born <= h.born
                 /\ entry[q] # None => /\ permit[q].born <= entry[q]
                                       /\ entry[q] <= reloads
                                       /\ h # None => entry[q] <= h.born
           Dated(b) == health[b] # None => health[b].born <= reloads
<1>1. /\ \A b \in Backends : Dated(b)
      /\ \A q \in Requests : Born(q)
      /\ \A q \in Requests : permit[q] # None => permit[q].id \in Backends
  BY DEF IInv, BirthsOrdered, TypeOK, Permit
<1>2. ASSUME reloads' = reloads,
             \A b \in Backends : SameEntry(health'[b], health[b]),
             NEW r \in Requests, Born(r)',
             \A q \in Requests \ {r} : UNCHANGED <<permit[q], entry[q]>>
      PROVE  BirthsOrdered'
  BY <1>1, <1>2 DEF SameEntry, BirthsOrdered
<1>3. ASSUME NEW r \in Requests, Request(r) PROVE BirthsOrdered'
  <2>1. /\ reloads' = reloads
        /\ \A b \in Backends : SameEntry(health'[b], health[b])
    BY <1>3, EntriesStay
  <2>2. CASE UNCHANGED <<permit, entry>>
    <3>1. Born(r)'
      BY <1>1, <2>1, <2>2 DEF SameEntry
    <3> QED
      BY <1>2, <2>1, <2>2, <3>1
  <2>3. CASE TakeBest(r) \/ Fallback(r)
    <3>1. PICK b \in Backends, d \in BOOLEAN : Grant(r, b, d) /\ health[b] # None
      <4>1. CASE TakeBest(r)
        BY <4>1, BestFacts, NoneAssumption DEF TakeBest, ScanDone, IInv
      <4>2. CASE Fallback(r)
        <5>1. r \in Readers
          BY <4>2 DEF Fallback, Readers, Selecting
        <5> QED
          BY <4>2, <5>1, FirstFacts DEF Fallback, IInv
      <4> QED
        BY <2>3, <4>1, <4>2
    <3>2. permit'[r] = [id |-> b, born |-> health[b].born, degraded |-> d]
      BY <3>1, GrantFacts DEF IInv
    <3>3. permit'[r].id = b /\ permit'[r].born = health[b].born
      BY <3>2
    <3>4. UNCHANGED entry /\ entry[r] = None
      BY <2>3 DEF TakeBest, Fallback, ScanDone, IInv, TypeOK
    <3>5. \A q \in Requests \ {r} : permit'[q] = permit[q]
      BY <3>1 DEF Grant, IInv, TypeOK
    <3>6. health'[b].born = health[b].born /\ health[b].born \in Nat
      BY <2>1, <3>1 DEF SameEntry, IInv, TypeOK, Health
    <3>7. Born(r)'
      BY <1>1, <2>1, <3>1, <3>3, <3>4, <3>6
    <3> QED
      BY <1>2, <2>1, <3>4, <3>5, <3>7
  <2>4. CASE LookUpEntry(r)
    <3> DEFINE h == health[permit[r].id]
    <3>1. permit[r] # None /\ permit[r].id \in Backends
      BY <1>1, <2>4 DEF LookUpEntry, IInv, TypeOK, Serving
    <3>2. h # None => h.born \in Nat
      BY <3>1 DEF IInv, TypeOK, Health
    <3>3. \/ permit'[r] = None
          \/ /\ h # None /\ permit'[r] = permit[r] /\ entry'[r] = h.born
      BY <2>4 DEF LookUpEntry, IInv, TypeOK
    <3>4. \A q \in Requests \ {r} : UNCHANGED <<permit[q], entry[q]>>
      BY <2>4 DEF LookUpEntry, IInv, TypeOK
    <3>5. Born(r)'
      BY <1>1, <2>1, <3>1, <3>2, <3>3 DEF SameEntry
    <3> QED
      BY <1>2, <2>1, <3>4, <3>5
  <2>5. CASE DropPermit(r)
    <3>1. permit'[r] = None
          /\ \A q \in Requests \ {r} : UNCHANGED <<permit[q], entry[q]>>
      BY <2>5 DEF DropPermit, IInv, TypeOK
    <3> QED
      BY <1>2, <2>1, <3>1
  <2> QED
    BY <1>3, <2>2, <2>3, <2>4, <2>5
    DEF Request, Select, ScanOne, LoseRace, FindNone, CountOne, Refuse, Reject,
        FailToBuild, FailToSend, GetResponse, EndReply, Step, MarkFailed,
        MarkSuccess
<1>4. ASSUME NEW b \in Backends, NEW ok \in BOOLEAN, CheckHealth(b, ok)
      PROVE  BirthsOrdered'
  <2>1. /\ UNCHANGED <<reloads, permit, entry>>
        /\ \A c \in Backends : SameEntry(health'[c], health[c])
    BY <1>4, CheckFacts DEF CheckHealth, IInv
  <2> QED
    BY <1>1, <2>1 DEF SameEntry, BirthsOrdered
<1>5. ASSUME NEW cat \in Catalogues, ReloadConfig(cat) PROVE BirthsOrdered'
  <2>1. /\ reloads \in Nat /\ reloads' = reloads + 1
        /\ health \in [Backends -> Health \cup {None}]
        /\ UNCHANGED <<permit, entry>>
    BY <1>5 DEF ReloadConfig, IInv, TypeOK
  <2>2. \A b \in Backends : health'[b] # None =>
          \/ health[b] # None /\ health'[b].born = health[b].born
          \/ health'[b].born = reloads + 1
    BY <1>5, <2>1, ReconfiguredType DEF ReloadConfig
  <2>3. /\ \A b \in Backends : health[b] # None => health[b].born \in Nat
        /\ \A q \in Requests : permit[q] # None => permit[q].born \in Nat
        /\ \A q \in Requests : entry[q] # None => entry[q] \in Nat
    BY DEF IInv, TypeOK, Health, Permit
  <2>4. \A b \in Backends : Dated(b)'
    BY <1>1, <2>1, <2>2, <2>3
  <2>5. \A q \in Requests : Born(q)'
    BY <1>1, <2>1, <2>2, <2>3
  <2> QED
    BY <2>4, <2>5 DEF BirthsOrdered
<1>6. CASE UNCHANGED vars
  BY <1>6 DEF vars, IInv, BirthsOrdered
<1> QED
  BY <1>3, <1>4, <1>5, <1>6 DEF Next

----------------------------------------------------------------------------
(* Counting *)

LEMMA HoldersFinite ==
  ASSUME NEW b \in Backends
  PROVE  IsFiniteSet(Holders(b)) /\ Cardinality(Holders(b)) \in Nat
<1>1. Holders(b) \in SUBSET Requests
  BY DEF Holders
<1> QED
  BY <1>1, RequestsAssumption, FS_Subset, FS_CardinalityType

\* Backend b's count is at most its holders, and is exact from the start.
Counted(b) ==
  health[b] # None =>
    /\ health[b].active <= Cardinality(Holders(b))
    /\ health[b].born = 0 => health[b].active = Cardinality(Holders(b))

LEMMA CountStep == ASSUME IInv, [Next]_vars PROVE (NoPermitLeak /\ ExactUntilRemoved)'
<1>1. \A b \in Backends : Counted(b)
  BY DEF IInv, NoPermitLeak, ExactUntilRemoved, Counted
<1>2. SUFFICES ASSUME NEW b \in Backends PROVE Counted(b)'
  BY DEF NoPermitLeak, ExactUntilRemoved, Counted
<1>3. ASSUME health[b] # None, health'[b].active = health[b].active,
             health'[b].born = health[b].born, Holders(b)' = Holders(b)
      PROVE  Counted(b)'
  BY <1>1, <1>3 DEF Counted
<1>4. ASSUME SameEntry(health'[b], health[b]), UNCHANGED permit
      PROVE  health[b] # None => Holders(b)' = Holders(b)
  BY <1>4 DEF SameEntry, Holders
<1>5. ASSUME NEW r \in Requests, Request(r) PROVE Counted(b)'
  <2>1. /\ \A c \in Backends : SameEntry(health'[c], health[c])
        /\ health' \in [Backends -> Health \cup {None}]
    BY <1>5, EntriesStay
  <2> SUFFICES ASSUME health[b] # None PROVE Counted(b)'
    BY <2>1 DEF SameEntry, Counted
  <2>2. health'[b].born = health[b].born
    BY <2>1 DEF SameEntry
  <2>3. CASE UNCHANGED <<health, permit>>
    BY <1>3, <1>4, <2>1, <2>3
  <2>4. CASE MarkFailed(r) \/ MarkSuccess(r)
    <3>1. pc[r] \in Serving /\ UNCHANGED permit
      BY <2>4 DEF MarkFailed, MarkSuccess, Serving, Marking
    <3>2. PICK ok \in BOOLEAN :
            health' = [health EXCEPT ![permit[r].id] =
                        IF @ = None THEN None
                        ELSE IF ok THEN Recovered(@) ELSE Failed(@)]
      BY <2>4 DEF MarkFailed, MarkSuccess
    <3>3. health'[b].active = health[b].active
      BY <3>1, <3>2, PermitFacts, MarkFacts DEF IInv
    <3> QED
      BY <1>3, <1>4, <2>1, <2>2, <3>1, <3>3
  <2>5. CASE TakeBest(r) \/ Fallback(r)
    <3>1. PICK a \in Backends, d \in BOOLEAN : Grant(r, a, d) /\ health[a] # None
      <4>1. CASE TakeBest(r)
        BY <4>1, BestFacts, NoneAssumption DEF TakeBest, ScanDone, IInv
      <4>2. CASE Fallback(r)
        <5>1. r \in Readers
          BY <4>2 DEF Fallback, Readers, Selecting
        <5> QED
          BY <4>2, <5>1, FirstFacts DEF Fallback, IInv
      <4> QED
        BY <2>5, <4>1, <4>2
    <3>2. /\ permit'[r].id = a /\ permit'[r].born = health[a].born
          /\ permit'[r] # None
          /\ \A q \in Requests \ {r} : permit'[q] = permit[q]
      <4>1. /\ permit'[r] = [id |-> a, born |-> health[a].born, degraded |-> d]
            /\ permit'[r] \in Permit
        BY <3>1, GrantFacts DEF IInv
      <4>2. \A q \in Requests \ {r} : permit'[q] = permit[q]
        BY <3>1 DEF Grant, IInv, TypeOK
      <4> QED
        BY <4>1, <4>2, NoneAssumption
    <3>3. permit[r] = None
      BY <2>5 DEF TakeBest, Fallback, ScanDone, IInv, TypeOK, Serving, Marking
    <3>4. CASE a = b
      <4>1. Holders(b)' = Holders(b) \cup {r} /\ r \notin Holders(b)
        BY <2>2, <3>2, <3>3, <3>4 DEF Holders
      <4>2. Cardinality(Holders(b)') = Cardinality(Holders(b)) + 1
        BY <4>1, HoldersFinite, FS_AddElement
      <4>3. health'[b].active = health[b].active + 1
        BY <3>1, <3>4, GrantFacts DEF IInv
      <4>4. health[b].active \in Nat
        BY DEF IInv, TypeOK, Health
      <4> QED
        BY <1>1, <2>2, <4>2, <4>3, <4>4, HoldersFinite DEF Counted
    <3>5. CASE a # b
      <4>1. Holders(b)' = Holders(b)
        BY <2>2, <3>2, <3>3, <3>5 DEF Holders
      <4>2. health'[b] = health[b]
        BY <3>1, <3>5, GrantFacts DEF IInv
      <4> QED
        BY <1>3, <4>1, <4>2
    <3> QED
      BY <3>4, <3>5
  <2>6. CASE LookUpEntry(r)
    <3>1. UNCHANGED health
      BY <2>6 DEF LookUpEntry
    <3>2. /\ \A q \in Requests \ {r} : permit'[q] = permit[q]
          /\ permit[r].id = b => permit'[r] = permit[r]
          /\ permit'[r] \in {permit[r], None}
      BY <2>6 DEF LookUpEntry, IInv, TypeOK
    <3>3. Holders(b)' = Holders(b)
      BY <3>1, <3>2 DEF Holders
    <3> QED
      BY <1>3, <3>1, <3>3
  <2>7. CASE DropPermit(r)
    <3>1. permit'[r] = None /\ \A q \in Requests \ {r} : permit'[q] = permit[q]
      BY <2>7 DEF DropPermit, IInv, TypeOK
    <3>2. permit[r] # None /\ entry[r] # None /\ permit[r].id \in Backends
      BY <2>7 DEF DropPermit, IInv, TypeOK, Serving, Permit
    <3>3. CASE permit[r].id # b
      <4>1. Holders(b)' = Holders(b)
        BY <2>2, <3>1, <3>3 DEF Holders
      <4>2. health'[b] = health[b]
        BY <2>7, <3>3, DropFacts DEF IInv
      <4> QED
        BY <1>3, <4>1, <4>2
    <3>4. CASE permit[r].id = b
      <4>1. /\ health[b].active \in Nat /\ health[b].born \in Nat
            /\ permit[r].born \in Nat /\ entry[r] \in Nat
        BY <3>2 DEF IInv, TypeOK, Health, Permit
      <4>2. permit[r].born <= entry[r] /\ entry[r] <= health[b].born
        BY <3>2, <3>4 DEF IInv, BirthsOrdered
      <4>3. health'[b].active =
              IF health[b].born = entry[r] /\ health[b].active > 0
              THEN health[b].active - 1 ELSE health[b].active
        BY <2>7, <3>4, DropFacts DEF IInv
      <4>4. Holders(b)' = Holders(b) \ {r}
        BY <2>2, <3>1 DEF Holders
      <4>5. r \in Holders(b) <=> permit[r].born = health[b].born
        BY <3>2, <3>4 DEF Holders
      <4>6. Cardinality(Holders(b)') =
              IF r \in Holders(b) THEN Cardinality(Holders(b)) - 1
              ELSE Cardinality(Holders(b))
        BY <4>4, HoldersFinite, FS_RemoveElement
      <4>7. r \in Holders(b) => Cardinality(Holders(b)) > 0
        <5>1. r \in Holders(b) => Holders(b) # {}
          OBVIOUS
        <5> QED
          BY <5>1, HoldersFinite, FS_EmptySet
      <4>8. health[b].born = 0 => r \in Holders(b) /\ entry[r] = 0
        BY <4>1, <4>2, <4>5
      <4>9. r \in Holders(b) => entry[r] = health[b].born
        BY <4>1, <4>2, <4>5
      <4>10. health'[b].active <= Cardinality(Holders(b)')
        BY <1>1, <4>1, <4>3, <4>6, <4>7, <4>9, HoldersFinite DEF Counted
      <4>11. health[b].born = 0 => health'[b].active = Cardinality(Holders(b)')
        BY <1>1, <4>1, <4>3, <4>6, <4>7, <4>8, HoldersFinite DEF Counted
      <4> QED
        BY <2>2, <4>10, <4>11 DEF Counted
    <3> QED
      BY <3>3, <3>4
  <2> QED
    BY <1>5, <2>3, <2>4, <2>5, <2>6, <2>7
    DEF Request, Select, ScanOne, LoseRace, FindNone, CountOne, Refuse, Reject,
        FailToBuild, FailToSend, GetResponse, EndReply, Step
<1>6. ASSUME NEW a \in Backends, NEW ok \in BOOLEAN, CheckHealth(a, ok)
      PROVE  Counted(b)'
  <2>1. /\ UNCHANGED permit /\ SameEntry(health'[b], health[b])
        /\ health[b] # None => health'[b].active = health[b].active
    BY <1>6, CheckFacts DEF CheckHealth, IInv
  <2>2. CASE health[b] = None
    BY <2>1, <2>2 DEF SameEntry, Counted
  <2>3. CASE health[b] # None
    BY <1>3, <1>4, <2>1, <2>3 DEF SameEntry
  <2> QED
    BY <2>2, <2>3
<1>7. ASSUME NEW cat \in Catalogues, ReloadConfig(cat) PROVE Counted(b)'
  <2>1. /\ reloads \in Nat /\ UNCHANGED permit
        /\ health \in [Backends -> Health \cup {None}]
        /\ health' = Reconfigured(cat, health, reloads + 1)
    BY <1>7 DEF ReloadConfig, IInv, TypeOK
  <2>2. health'[b] # None =>
          IF health[b] # None
          THEN health'[b].born = health[b].born /\ health'[b].active = health[b].active
          ELSE health'[b].born = reloads + 1 /\ health'[b].active = 0
    BY <2>1, ReconfiguredType
  <2>3. CASE health'[b] = None
    BY <2>3 DEF Counted
  <2>4. CASE health'[b] # None /\ health[b] # None
    <3>1. Holders(b)' = Holders(b)
      BY <2>1, <2>2, <2>4 DEF Holders
    <3> QED
      BY <1>3, <2>2, <2>4, <3>1
  <2>5. CASE health'[b] # None /\ health[b] = None
    <3>1. Holders(b)' \in SUBSET Requests
      BY DEF Holders
    <3>2. Cardinality(Holders(b)') \in Nat
      BY <3>1, RequestsAssumption, FS_Subset, FS_CardinalityType
    <3> QED
      BY <2>1, <2>2, <2>5, <3>2 DEF Counted
  <2> QED
    BY <2>3, <2>4, <2>5
<1>8. CASE UNCHANGED vars
  BY <1>1, <1>8 DEF vars, Counted, Holders
<1> QED
  BY <1>5, <1>6, <1>7, <1>8 DEF Next

----------------------------------------------------------------------------
(* The invariants *)

LEMMA InitFacts ==
  ASSUME Init
  PROVE  IInv /\ \A b \in Backends : health[b] # None => health[b].active = 0
<1>1. PICK cat \in Catalogues :
        /\ pool   = [m \in Models |-> PoolOf(cat, m)]
        /\ health = Reconfigured(cat, [b \in Backends |-> None], 0)
  BY DEF Init
<1> DEFINE old == [b \in Backends |-> None]
<1>2. old \in [Backends -> Health \cup {None}] /\ \A b \in Backends : old[b] = None
  OBVIOUS
<1> HIDE DEF old
<1>3. /\ health \in [Backends -> Health \cup {None}]
      /\ \A b \in Backends :
           /\ health[b] # None <=> Offers(cat, b) # {}
           /\ health[b] # None => health[b].born = 0 /\ health[b].active = 0
  BY <1>1, <1>2, ReconfiguredType DEF old
<1>4. pool \in [Models -> Seq(Slot)]
  BY <1>1, PoolType
<1>5. TypeOK
  BY <1>3, <1>4, NoScanType, ReloadsAssumption
  DEF Init, TypeOK, Stages, Selecting, Marking, Serving
<1>6. PoolTracked
  BY <1>1, <1>3, OffersInPool DEF PoolTracked
<1>7. ReadersSeeOnePool /\ BestStillOpen
  BY DEF Init, ReadersSeeOnePool, Readers, Selecting, BestStillOpen
<1>8. BirthsOrdered
  BY <1>3 DEF Init, BirthsOrdered
<1>9. \A b \in Backends : Holders(b) = {}
  BY DEF Init, Holders
<1>10. NoPermitLeak /\ ExactUntilRemoved
  BY <1>3, <1>9, FS_EmptySet DEF NoPermitLeak, ExactUntilRemoved
<1> QED
  BY <1>3, <1>5, <1>6, <1>7, <1>8, <1>10 DEF IInv

\* The inductive invariant holds in every reachable state.
THEOREM Invariance == Spec => []IInv
<1>1. Init => IInv
  BY InitFacts
<1>2. IInv /\ [Next]_vars => IInv'
  BY TypeStep, TrackedStep, ReadersStep, BestStep, BirthsStep, CountStep DEF IInv
<1> QED
  BY <1>1, <1>2, PTL DEF Spec

\* Types, and permits held exactly while a request serves.
THEOREM TypeCorrect == Spec => []TypeOK
<1>1. IInv => TypeOK
  BY DEF IInv
<1> QED
  BY <1>1, Invariance, PTL

\* lb.health and lb.backends never disagree on which backends there are.
THEOREM PoolIsTracked == Spec => []PoolTracked
<1>1. IInv => PoolTracked
  BY DEF IInv
<1> QED
  BY <1>1, Invariance, PTL

\* No reload changes the backends under a selection.
THEOREM OnePoolPerSelection == Spec => []ReadersSeeOnePool
<1>1. IInv => ReadersSeeOnePool
  BY DEF IInv
<1> QED
  BY <1>1, Invariance, PTL

\* A backend's counter never exceeds the requests that hold its permits,
\* whatever is reloaded and however requests end.
THEOREM PermitsDoNotLeak == Spec => []NoPermitLeak
<1>1. IInv => NoPermitLeak
  BY DEF IInv
<1> QED
  BY <1>1, Invariance, PTL

\* The counter of a backend that was never removed is exact.
THEOREM CountsAreExact == Spec => []ExactUntilRemoved
<1>1. IInv => ExactUntilRemoved
  BY DEF IInv
<1> QED
  BY <1>1, Invariance, PTL

----------------------------------------------------------------------------
(* The balancer implements admission control *)

aInUse  == [b \in Backends |-> IF health[b] = None THEN 0 ELSE health[b].active]
aLimit  == [b \in Backends |-> IF health[b] = None THEN 0 ELSE health[b].max]
aUp     == {b \in Backends : health[b] # None /\ health[b].healthy}
aHolder == [r \in Requests |->
             IF permit[r] = None THEN None
             ELSE [id |-> permit[r].id, degraded |-> permit[r].degraded]]

LEMMA AbstractInit == ASSUME Init PROVE Admission!Init
<1>1. TypeOK /\ \A b \in Backends : health[b] # None => health[b].active = 0
  BY InitFacts DEF IInv
<1>2. aInUse = [b \in Backends |-> 0]
  BY <1>1 DEF aInUse
<1>3. aLimit \in [Backends -> Nat]
  BY <1>1 DEF aLimit, TypeOK, Health
<1>4. aHolder = [r \in Requests |-> None]
  BY DEF Init, aHolder
<1> QED
  BY <1>2, <1>3, <1>4 DEF Admission!Init, aInUse, aLimit, aUp, aHolder

\* A grant is an abstract Take.
LEMMA AbstractTake ==
  ASSUME IInv, NEW r \in Requests, permit[r] = None, NEW b \in Backends,
         health[b] # None, NEW d \in BOOLEAN, Grant(r, b, d)
  PROVE  Admission!Take(r, b, d)
<1>1. /\ \A c \in Backends : SameEntry(health'[c], health[c])
      /\ \A c \in Backends \ {b} : health'[c] = health[c]
      /\ health'[b].healthy = health[b].healthy
      /\ health'[b].active = health[b].active + 1
      /\ permit'[r] = [id |-> b, born |-> health[b].born, degraded |-> d]
      /\ permit'[r] \in Permit
  BY GrantFacts DEF IInv
<1>2. \A q \in Requests \ {r} : permit'[q] = permit[q]
  BY DEF Grant, IInv, TypeOK
<1>3. aInUse' = [aInUse EXCEPT ![b] = @ + 1]
  BY <1>1 DEF aInUse, SameEntry
<1>4. aLimit' = aLimit
  BY <1>1 DEF aLimit, SameEntry
<1>5. aUp' = aUp
  BY <1>1 DEF aUp, SameEntry
<1>6. permit'[r] # None /\ permit'[r].id = b /\ permit'[r].degraded = d
  BY <1>1, NoneAssumption
<1>7. aHolder' = [aHolder EXCEPT ![r] = [id |-> b, degraded |-> d]]
  BY <1>2, <1>6 DEF aHolder
<1>8. aHolder[r] = None
  BY DEF aHolder
<1> QED
  BY <1>3, <1>4, <1>5, <1>7, <1>8
  DEF Admission!Take, aInUse, aLimit, aUp, aHolder

\* A regular grant: the counter the compare-and-swap finds is the one the scan
\* saw below the limit, and the lock has kept the backend healthy since.
LEMMA AbstractAdmit ==
  ASSUME IInv, NEW r \in Requests, TakeBest(r)
  PROVE  Admission!Next
<1> DEFINE b == BestOf(r)
<1>1. /\ b \in Backends /\ health[b] \in Health /\ health[b].healthy
      /\ health[b].max = 0 \/ scan[r].seen < health[b].max
      /\ health[b].max = 0 \/ health[b].active = scan[r].seen
  BY BestFacts DEF TakeBest, ScanDone, Unchanged, IInv
<1>2. health[b] # None /\ permit[r] = None
  BY <1>1, NoneAssumption
  DEF TakeBest, ScanDone, IInv, TypeOK, Serving, Marking
<1>3. Admission!Take(r, b, FALSE)
  BY <1>1, <1>2, AbstractTake DEF TakeBest
<1>4. b \in aUp /\ (aLimit[b] = 0 \/ aInUse[b] < aLimit[b])
  BY <1>1, <1>2 DEF aUp, aLimit, aInUse
<1>5. Admission!Admit(r, b)
  BY <1>3, <1>4 DEF Admission!Admit, aUp, aLimit, aInUse
<1> QED
  BY <1>1, <1>5 DEF Admission!Next

LEMMA AbstractDegrade ==
  ASSUME IInv, NEW r \in Requests, Fallback(r)
  PROVE  Admission!Next
<1> DEFINE b == Slots(r)[1].id
<1>1. r \in Readers
  BY DEF Fallback, Readers, Selecting
<1>2. b \in Backends /\ health[b] # None /\ Grant(r, b, TRUE)
  BY <1>1, FirstFacts DEF Fallback, IInv
<1>3. permit[r] = None
  BY DEF Fallback, IInv, TypeOK, Serving, Marking
<1>4. Admission!Degrade(r, b)
  BY <1>2, <1>3, AbstractTake DEF Admission!Degrade
<1> QED
  BY <1>2, <1>4 DEF Admission!Next

\* Giving a permit back, to a backend that is still there or not.
LEMMA AbstractFinish ==
  ASSUME IInv, NEW r \in Requests, DropPermit(r)
  PROVE  Admission!Next
<1> DEFINE b == permit[r].id
<1>1. /\ permit[r] # None /\ b \in Backends /\ permit'[r] = None
      /\ \A q \in Requests \ {r} : permit'[q] = permit[q]
  BY DEF DropPermit, IInv, TypeOK, Serving, Permit
<1>2. /\ \A c \in Backends : SameEntry(health'[c], health[c])
      /\ \A c \in Backends \ {b} : health'[c] = health[c]
      /\ health[b] # None =>
           /\ health'[b].healthy = health[b].healthy
           /\ \/ health'[b].active = health[b].active
              \/ /\ health[b].active > 0
                 /\ health'[b].active = health[b].active - 1
  BY DropFacts DEF IInv
<1>3. aLimit' = aLimit /\ aUp' = aUp
  BY <1>1, <1>2 DEF aLimit, aUp, SameEntry
<1>4. aHolder[r] # None /\ aHolder[r].id = b
  <2> DEFINE p == [id |-> b, degraded |-> permit[r].degraded]
  <2>1. p \in [id : Backends, degraded : BOOLEAN] /\ p.id = b
    BY <1>1 DEF IInv, TypeOK, Permit
  <2>2. aHolder[r] = p
    BY <1>1 DEF aHolder
  <2> QED
    BY <2>1, <2>2, NoneAssumption
<1>5. aHolder' = [aHolder EXCEPT ![r] = None]
  BY DEF DropPermit, aHolder, IInv, TypeOK
<1>6. \A c \in Backends \ {b} : aInUse'[c] = aInUse[c]
  BY <1>2 DEF aInUse
<1>7. \/ aInUse[b] > 0 /\ aInUse'[b] = aInUse[b] - 1
      \/ aInUse'[b] = aInUse[b]
  <2>1. CASE health[b] = None
    BY <1>1, <1>2, <2>1 DEF aInUse, SameEntry
  <2>2. CASE health[b] # None
    BY <1>1, <1>2, <2>2 DEF aInUse, SameEntry
  <2> QED
    BY <2>1, <2>2
<1>8. \/ aInUse[b] > 0 /\ aInUse' = [aInUse EXCEPT ![b] = @ - 1]
      \/ aInUse' = aInUse
  BY <1>1, <1>6, <1>7 DEF aInUse
<1>9. Admission!Finish(r)
  BY <1>3, <1>4, <1>5, <1>8
  DEF Admission!Finish, aInUse, aLimit, aUp, aHolder
<1> QED
  BY <1>9 DEF Admission!Next

\* A step that moves no counter, no limit and no permit at most changes which
\* backends are up.
LEMMA AbstractAssess ==
  ASSUME IInv, UNCHANGED permit,
         \A b \in Backends : SameEntry(health'[b], health[b]),
         \A b \in Backends : health[b] # None =>
           health'[b].active = health[b].active
  PROVE  Admission!Next
<1>1. aInUse' = aInUse /\ aLimit' = aLimit
  BY DEF aInUse, aLimit, SameEntry
<1>2. aHolder' = aHolder
  BY DEF aHolder
<1>3. aUp' \in SUBSET Backends
  BY DEF aUp
<1>4. Admission!Assess
  BY <1>1, <1>2, <1>3 DEF Admission!Assess, aInUse, aLimit, aUp, aHolder
<1> QED
  BY <1>4 DEF Admission!Next

LEMMA AbstractReconfigure ==
  ASSUME IInv, NEW cat \in Catalogues, ReloadConfig(cat)
  PROVE  Admission!Next
<1>1. /\ health \in [Backends -> Health \cup {None}]
      /\ health' = Reconfigured(cat, health, reloads + 1)
      /\ reloads + 1 \in Nat /\ UNCHANGED permit
  BY DEF ReloadConfig, IInv, TypeOK
<1>2. /\ health' \in [Backends -> Health \cup {None}]
      /\ \A b \in Backends : health'[b] # None =>
           IF health[b] # None THEN health'[b].active = health[b].active
           ELSE health'[b].active = 0
  BY <1>1, ReconfiguredType
<1>3. aLimit' \in [Backends -> Nat] /\ aInUse' \in [Backends -> Nat]
  BY <1>2 DEF aLimit, aInUse, Health
<1>4. \A b \in Backends : aInUse'[b] \in {0, aInUse[b]}
  BY <1>2 DEF aInUse
<1>5. aUp' \in SUBSET Backends /\ aHolder' = aHolder
  BY <1>1 DEF aUp, aHolder
<1>6. Admission!Reconfigure
  BY <1>3, <1>4, <1>5 DEF Admission!Reconfigure, aInUse, aLimit, aUp, aHolder
<1> QED
  BY <1>6 DEF Admission!Next

LEMMA AbstractStutter ==
  ASSUME UNCHANGED <<health, permit>>
  PROVE  UNCHANGED Admission!avars
BY DEF Admission!avars

\* Every step of the balancer is a step of admission control, or none.
LEMMA AbstractStep ==
  ASSUME IInv, [Next]_vars PROVE [Admission!Next]_(Admission!avars)
<1>1. ASSUME NEW r \in Requests, Request(r)
      PROVE  [Admission!Next]_(Admission!avars)
  <2>1. CASE TakeBest(r) \/ Fallback(r) \/ DropPermit(r)
    BY <2>1, AbstractAdmit, AbstractDegrade, AbstractFinish
  <2>2. CASE MarkFailed(r) \/ MarkSuccess(r)
    <3>1. pc[r] \in Serving /\ UNCHANGED permit
      BY <2>2 DEF MarkFailed, MarkSuccess, Serving, Marking
    <3>2. PICK ok \in BOOLEAN :
            health' = [health EXCEPT ![permit[r].id] =
                        IF @ = None THEN None
                        ELSE IF ok THEN Recovered(@) ELSE Failed(@)]
      BY <2>2 DEF MarkFailed, MarkSuccess
    <3> QED
      BY <3>1, <3>2, PermitFacts, MarkFacts, AbstractAssess DEF IInv
  <2>3. CASE LookUpEntry(r)
    <3>1. CASE UNCHANGED permit
      BY <2>3, <3>1, AbstractStutter DEF LookUpEntry
    <3>2. CASE permit' = [permit EXCEPT ![r] = None] /\ health[permit[r].id] = None
      <4> DEFINE b == permit[r].id
                 p == [id |-> b, degraded |-> permit[r].degraded]
      <4>1. permit[r] # None /\ b \in Backends
        BY <2>3 DEF LookUpEntry, IInv, TypeOK, Serving, Permit
      <4>2. p \in [id : Backends, degraded : BOOLEAN]
        BY <4>1 DEF IInv, TypeOK, Permit
      <4>3. aHolder[r] = p /\ aHolder[r] # None
        BY <4>1, <4>2, NoneAssumption DEF aHolder
      <4>4. aHolder' = [aHolder EXCEPT ![r] = None]
        BY <3>2 DEF aHolder, IInv, TypeOK
      <4>5. aInUse' = aInUse /\ aLimit' = aLimit /\ aUp' = aUp
        BY <2>3 DEF LookUpEntry, aInUse, aLimit, aUp
      <4>6. Admission!Finish(r)
        BY <4>3, <4>4, <4>5 DEF Admission!Finish, aInUse, aLimit, aUp, aHolder
      <4> QED
        BY <4>6 DEF Admission!Next
    <3> QED
      BY <2>3, <3>1, <3>2 DEF LookUpEntry
  <2>4. CASE UNCHANGED <<health, permit>>
    BY <2>4, AbstractStutter
  <2> QED
    BY <1>1, <2>1, <2>2, <2>3, <2>4
    DEF Request, Select, ScanOne, LoseRace, FindNone, CountOne, Refuse, Reject,
        FailToBuild, FailToSend, GetResponse, EndReply, Step
<1>2. ASSUME NEW b \in Backends, NEW ok \in BOOLEAN, CheckHealth(b, ok)
      PROVE  [Admission!Next]_(Admission!avars)
  BY <1>2, CheckFacts, AbstractAssess DEF CheckHealth, IInv
<1>3. ASSUME NEW cat \in Catalogues, ReloadConfig(cat)
      PROVE  [Admission!Next]_(Admission!avars)
  BY <1>3, AbstractReconfigure
<1>4. CASE UNCHANGED vars
  BY <1>4, AbstractStutter DEF vars
<1> QED
  BY <1>1, <1>2, <1>3, <1>4 DEF Next

\* The load balancer implements admission control: every regular admission is
\* by a healthy backend with room at the moment of the grant.
THEOREM AdmissionControlled == Spec => ImplementsAdmissionControl
<1>1. Init => Admission!Init
  BY AbstractInit
<1>2. IInv /\ [Next]_vars => [Admission!Next]_(Admission!avars)
  BY AbstractStep
<1> QED
  BY <1>1, <1>2, Invariance, PTL
  DEF Spec, ImplementsAdmissionControl, Admission!Spec

----------------------------------------------------------------------------
(* Refusals *)

\* What the count of a request has found so far: a backend that it has passed and that
\* is healthy has a limit, or the count knows of room.
CountSoFar ==
  \A r \in Requests : pc[r] = "count" =>
    \A i \in DOMAIN Slots(r) :
      \/ \E k \in DOMAIN scan[r].todo : scan[r].todo[k] = i
      \/ scan[r].spare
      \/ health[Slots(r)[i].id].healthy => health[Slots(r)[i].id].max > 0

\* A count starts with all of a model's backends to visit.
LEMMA BeginCountVisitsAll ==
  ASSUME IInv, NEW r \in Readers, BeginCount(r), UNCHANGED <<pool, lookup>>
  PROVE  \A i \in DOMAIN Slots(r)' : \E k \in DOMAIN scan'[r].todo : scan'[r].todo[k] = i
<1> DEFINE n == Len(Slots(r))
           s == [NoScan EXCEPT !.todo = Indices(n)]
<1>1. r \in Requests /\ lookup[r] \in Models
  BY DEF IInv, Readers, ReadersSeeOnePool
<1>2. Slots(r) \in Seq(Slot)
  BY <1>1 DEF IInv, TypeOK, Slots
<1>3. n \in Nat /\ DOMAIN Slots(r) = 1..n /\ Slots(r)' = Slots(r)
  BY <1>2, LenProperties DEF Slots
<1>4. s.todo = Indices(n)
  BY <1>3, IndicesType DEF NoScan, Scan
<1>5. scan' = [scan EXCEPT ![r] = s] /\ scan \in [Requests -> Scan]
  BY DEF IInv, TypeOK, BeginCount
<1> HIDE DEF s
<1>6. scan'[r].todo = Indices(n)
  BY <1>1, <1>4, <1>5
<1> HIDE DEF n
<1>7. DOMAIN Indices(n) = 1..n /\ \A i \in 1..n : Indices(n)[i] = i
  BY DEF Indices
<1> QED
  BY <1>3, <1>6, <1>7

\* Nothing but its own steps changes what a count has found: the health of a backend and
\* its limit change under the lock only.
LEMMA CountSoFarStep == ASSUME IInv, CountSoFar, [Next]_vars PROVE CountSoFar'
<1> DEFINE Visited(q) == pc[q] = "count" =>
             \A i \in DOMAIN Slots(q) :
               \/ \E k \in DOMAIN scan[q].todo : scan[q].todo[k] = i
               \/ scan[q].spare
               \/ health[Slots(q)[i].id].healthy => health[Slots(q)[i].id].max > 0
<1>1. \A q \in Requests : Visited(q)
  BY DEF CountSoFar
\* The entries that a selection looks at stay as healthy and as limited as they were.
<1>2. ASSUME pool' = pool,
             \A b \in Backends : SameEntry(health'[b], health[b]),
             Readers # {} => \A b \in Backends : health[b] # None =>
               health'[b].healthy = health[b].healthy,
             NEW q \in Readers, lookup'[q] = lookup[q], NEW i \in DOMAIN Slots(q)
      PROVE  /\ Slots(q)' = Slots(q)
             /\ health'[Slots(q)[i].id].healthy = health[Slots(q)[i].id].healthy
             /\ health'[Slots(q)[i].id].max = health[Slots(q)[i].id].max
  <2>1. Slots(q)[i].id \in Backends /\ health[Slots(q)[i].id] \in Health
    BY SlotFacts DEF IInv
  <2>2. health[Slots(q)[i].id] # None
    BY <2>1, NoneAssumption
  <2> QED
    BY <1>2, <2>1, <2>2 DEF SameEntry, Slots
<1>3. ASSUME pool' = pool,
             \A b \in Backends : SameEntry(health'[b], health[b]),
             Readers # {} => \A b \in Backends : health[b] # None =>
               health'[b].healthy = health[b].healthy,
             NEW q \in Requests,
             UNCHANGED <<pc[q], lookup[q], scan[q]>>
      PROVE  Visited(q)'
  <2> SUFFICES ASSUME pc[q] = "count", NEW i \in DOMAIN Slots(q)'
               PROVE  \/ \E k \in DOMAIN scan'[q].todo : scan'[q].todo[k] = i
                      \/ scan'[q].spare
                      \/ health'[Slots(q)'[i].id].healthy => health'[Slots(q)'[i].id].max > 0
    BY <1>3
  <2>1. q \in Readers /\ Slots(q)' = Slots(q) /\ i \in DOMAIN Slots(q)
    BY <1>3 DEF Readers, Selecting, Slots
  <2>2. /\ health'[Slots(q)[i].id].healthy = health[Slots(q)[i].id].healthy
        /\ health'[Slots(q)[i].id].max = health[Slots(q)[i].id].max
    BY <1>2, <1>3, <2>1
  <2> QED
    BY <1>1, <1>3, <2>1, <2>2
<1>4. ASSUME NEW r \in Requests, Request(r) PROVE CountSoFar'
  <2>1. /\ pool' = pool
        /\ \A b \in Backends : SameEntry(health'[b], health[b])
        /\ Readers # {} => \A b \in Backends : health[b] # None =>
             health'[b].healthy = health[b].healthy
    BY <1>4, EntriesStay
  <2>2. ASSUME \A q \in Requests \ {r} : UNCHANGED <<pc[q], lookup[q], scan[q]>>,
               Visited(r)'
        PROVE  CountSoFar'
    BY <1>3, <2>1, <2>2 DEF CountSoFar
  <2>3. CASE CountOne(r)
    <3> DEFINE t == scan[r].todo
               h == health[Slots(r)[Head(t)].id]
               up == h # None /\ h.healthy
    <3>1. /\ r \in Readers /\ t \in Seq(Nat) /\ t # <<>> /\ pc[r] = "count"
          /\ \A q \in Requests \ {r} : scan'[q] = scan[q]
          /\ scan'[r].todo = Tail(t)
          /\ UNCHANGED <<pool, health, pc, lookup>>
      BY <2>3, CountOneFacts DEF CountOne, IInv
    <3>2. scan'[r].spare = (scan[r].spare \/ (up /\ ~ Full(h)))
      BY <2>3 DEF CountOne, IInv, TypeOK, Scan
    <3>3. ASSUME NEW i \in DOMAIN Slots(r)
          PROVE  \/ \E k \in DOMAIN Tail(t) : Tail(t)[k] = i
                 \/ scan'[r].spare
                 \/ health[Slots(r)[i].id].healthy => health[Slots(r)[i].id].max > 0
      <4>1. CASE i = Head(t)
        <5>1. h \in Health /\ h # None
          BY <3>1, <4>1, SlotFacts, NoneAssumption DEF IInv
        <5> HIDE DEF h
        <5>2. Full(h) => h.max > 0
          BY DEF Full
        <5>3. ~ h.healthy \/ scan'[r].spare \/ Full(h)
          BY <3>2, <5>1
        <5>4. h.healthy => scan'[r].spare \/ h.max > 0
          BY <5>2, <5>3
        <5> QED
          BY <4>1, <5>4 DEF h
      <4>2. CASE i # Head(t)
        <5>1. CASE \E k \in DOMAIN t : t[k] = i
          <6>1. PICK k \in DOMAIN t : t[k] = i
            BY <5>1
          <6>2. DOMAIN t = 1..Len(t) /\ Len(t) \in Nat /\ Head(t) = t[1]
            BY <3>1, LenProperties
          <6>3. k - 1 \in 1..(Len(t) - 1) /\ (k - 1) + 1 = k
            BY <4>2, <6>1, <6>2
          <6>4. /\ DOMAIN Tail(t) = 1..(Len(t) - 1)
                /\ \A j \in 1..(Len(t) - 1) : Tail(t)[j] = t[j + 1]
            BY <3>1, <6>2, HeadTailProperties, LenProperties
          <6> QED
            BY <6>1, <6>3, <6>4
        <5>2. CASE scan[r].spare
          BY <3>2, <5>2
        <5> QED
          BY <1>1, <3>1, <5>1, <5>2
      <4> QED
        BY <4>1, <4>2
    <3>4. Slots(r)' = Slots(r)
      BY <3>1 DEF Slots
    <3>5. Visited(r)'
      BY <3>1, <3>3, <3>4
    <3> QED
      BY <2>2, <3>1, <3>5
  <2>4. CASE LoseRace(r) \/ FindNone(r)
    <3>1. r \in Readers /\ Len(Slots(r)) \in Nat /\ scan[r].attempt + 1 \in Nat /\ pc[r] = "scan"
      <4>1. r \in Readers /\ lookup[r] \in Models /\ pc[r] = "scan"
        BY <2>4
        DEF LoseRace, FindNone, ScanDone, Readers, Selecting, IInv, ReadersSeeOnePool
      <4> QED
        BY <4>1, LenProperties DEF IInv, TypeOK, Slots, Scan
    <3>2. \/ BeginScan(r, Len(Slots(r)), scan[r].attempt + 1) /\ UNCHANGED pc
          \/ BeginCount(r)
      BY <2>4 DEF LoseRace, FindNone
    <3>3. \A q \in Requests \ {r} : scan'[q] = scan[q]
      BY <3>1, <3>2, BeginScanFacts, BeginCountFacts DEF IInv
    <3>4. UNCHANGED <<pool, lookup>> /\ \A q \in Requests \ {r} : pc'[q] = pc[q]
      BY <2>4, <3>2 DEF LoseRace, FindNone, BeginCount, IInv, TypeOK
    <3>5. CASE UNCHANGED pc
      BY <2>2, <3>1, <3>3, <3>4, <3>5
    <3>6. CASE BeginCount(r)
      <4>1. \A i \in DOMAIN Slots(r)' : \E k \in DOMAIN scan'[r].todo : scan'[r].todo[k] = i
        BY <3>1, <3>4, <3>6, BeginCountVisitsAll
      <4> QED
        BY <2>2, <3>3, <3>4, <4>1
    <3> QED
      BY <3>2, <3>5, <3>6
  <2>5. ASSUME \A q \in Requests \ {r} : UNCHANGED <<pc[q], lookup[q], scan[q]>>,
               pc'[r] # "count"
        PROVE  CountSoFar'
    BY <2>2, <2>5
  <2>6. ASSUME NEW m \in Models, NEW default \in Models \cup {None},
               Select(r, m, default)
        PROVE  CountSoFar'
    <3> DEFINE from == Resolve(m, default)
    <3>1. CASE pool[from] = <<>>
      BY <2>5, <2>6, <3>1 DEF Select, IInv, TypeOK
    <3>2. CASE pool[from] # <<>>
      <4>1. from \in Models
        BY DEF Resolve
      <4>2. Len(pool[from]) \in Nat
        BY <4>1, LenProperties DEF IInv, TypeOK
      <4>3. /\ pc' = [pc EXCEPT ![r] = "scan"]
            /\ lookup' = [lookup EXCEPT ![r] = from]
            /\ BeginScan(r, Len(pool[from]), 1)
        BY <2>6, <3>2 DEF Select
      <4> QED
        BY <2>5, <4>2, <4>3, BeginScanFacts DEF IInv, TypeOK
    <3> QED
      BY <3>1, <3>2
  <2>7. CASE ScanOne(r)
    <3>1. /\ \A q \in Requests \ {r} : scan'[q] = scan[q]
          /\ UNCHANGED <<pc, lookup>> /\ pc[r] = "scan"
      BY <2>7, ScanOneFacts DEF ScanOne, IInv
    <3> QED
      BY <2>5, <3>1
  <2>8. CASE \/ Refuse(r) \/ TakeBest(r) \/ Fallback(r)
             \/ Reject(r) \/ FailToBuild(r) \/ FailToSend(r) \/ GetResponse(r)
             \/ EndReply(r) \/ MarkFailed(r) \/ MarkSuccess(r)
             \/ LookUpEntry(r) \/ DropPermit(r)
    <3>1. /\ \A q \in Requests \ {r} : UNCHANGED <<pc[q], lookup[q], scan[q]>>
          /\ pc'[r] # "count"
      BY <2>8
      DEF Refuse, TakeBest, Fallback, Grant, Reject, FailToBuild, FailToSend,
          GetResponse, EndReply, Step, MarkFailed, MarkSuccess, LookUpEntry,
          DropPermit, IInv, TypeOK
    <3> QED
      BY <2>5, <3>1
  <2> QED
    BY <1>4, <2>3, <2>4, <2>6, <2>7, <2>8 DEF Request
<1>5. ASSUME NEW b \in Backends, NEW ok \in BOOLEAN, CheckHealth(b, ok)
      PROVE  CountSoFar'
  BY <1>3, <1>5, CheckFacts DEF CheckHealth, CanWrite, IInv, CountSoFar
<1>6. ASSUME NEW cat \in Catalogues, ReloadConfig(cat) PROVE CountSoFar'
  BY <1>6 DEF ReloadConfig, CanWrite, Readers, Selecting, CountSoFar
<1>7. CASE UNCHANGED vars
  BY <1>1, <1>7 DEF vars, CountSoFar, Slots
<1> QED
  BY <1>4, <1>5, <1>6, <1>7 DEF Next

\* A request that is answered 429 found, at that moment, a limit on every healthy backend of
\* its model (allBusy in tryGetBackend of loadbalancer.go).
THEOREM RefusalsJustified == Spec => RefusedOnlyIfLimited
<1> DEFINE Justified ==
             \A r \in Requests :
               pc[r] = "count" /\ pc'[r] = "refused" =>
                 \A i \in DOMAIN Slots(r) :
                   LET h == health[Slots(r)[i].id] IN h.healthy => h.max > 0
<1>1. Init => CountSoFar
  BY DEF Init, CountSoFar
<1>2. IInv /\ CountSoFar /\ [Next]_vars => CountSoFar'
  BY CountSoFarStep
<1>3. IInv /\ CountSoFar /\ [Next]_vars => [Justified]_vars
  <2> SUFFICES ASSUME IInv, CountSoFar, Next,
                      NEW r \in Requests, pc[r] = "count", pc'[r] = "refused",
                      NEW i \in DOMAIN Slots(r), health[Slots(r)[i].id].healthy
               PROVE  health[Slots(r)[i].id].max > 0
    OBVIOUS
  <2>1. PICK q \in Requests : Request(q)
    BY DEF Next, CheckHealth, ReloadConfig
  <2>2. q = r
    BY <2>1
    DEF Request, Select, ScanOne, TakeBest, LoseRace, FindNone, BeginCount, CountOne, Refuse,
        Fallback, Grant, Reject, FailToBuild, FailToSend, GetResponse, EndReply, Step,
        MarkFailed, MarkSuccess, LookUpEntry, DropPermit, IInv, TypeOK
  <2>3. Refuse(r)
    BY <2>1, <2>2
    DEF Request, Select, ScanOne, TakeBest, LoseRace, FindNone, ScanDone, CountOne,
        Fallback, Grant, Reject, FailToBuild, FailToSend, GetResponse, EndReply, Step,
        MarkFailed, MarkSuccess, LookUpEntry, DropPermit, IInv, TypeOK
  <2>4. scan[r].todo = <<>> /\ ~ scan[r].spare
    BY <2>3 DEF Refuse
  <2>5. \A k \in DOMAIN scan[r].todo : FALSE
    BY <2>4
  <2> QED
    BY <2>4, <2>5 DEF CountSoFar
<1> QED
  BY <1>1, <1>2, <1>3, Invariance, PTL DEF Spec, RefusedOnlyIfLimited
=============================================================================
