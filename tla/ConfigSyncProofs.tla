-------------------------- MODULE ConfigSyncProofs --------------------------
(***************************************************************************)
(* Proofs about ConfigSync for any number of admin requests, models and    *)
(* backends, any edits, crashes at any point and a channel of any size.    *)
(***************************************************************************)
EXTENDS ConfigSync, TLAPS, SequenceTheorems, WellFoundedInduction

----------------------------------------------------------------------------
(* The inductive invariant *)

\* A model whose backends have IDs of their own.
GoodModel == {x \in Model : Unique(x.backends)}

\* What an edit that is still to be made carries fits its kind.
GoodEdit ==
       [kind : {"addModel", "updateModel"}, m : Models, x : GoodModel]
  \cup [kind : {"addBackend", "updateBackend"}, m : Models, x : Backend]
  \cup [kind : {"deleteBackend"}, m : Models, x : Backends]
  \cup [kind : {"deleteModel"}, m : Models, x : {None}]
  \cup [kind : {"policies", "all"}, m : {None}, x : {None}]

\* A model that is written keeps its ID.
Keyed(e) == e.kind \in {"addModel", "updateModel"} => e.x.id = e.m

EditsOK ==
  /\ edits \in [Admins -> Seq(GoodEdit)]
  /\ \A a \in Admins : \A i \in DOMAIN edits[a] : Keyed(edits[a][i])
  /\ \A a \in Admins : pc[a] = "merge" => Len(edits[a]) = 1 /\ edits[a][1].kind = "updateModel"

\* The copy that the writer holds is its edit of the configuration in memory: nobody
\* else changes that one meanwhile.
NextIsEdit ==
  \A a \in Admins : pc[a] \in {"save", "apply"} =>
    /\ Accepts(cfg, Head(edits[a]))
    /\ next = Edited(cfg, Head(edits[a]))

\* The file has the copy from its renaming on, and no copy that was given up.
FileIsSaved ==
  /\ \A a \in Admins : pc[a] = "apply" => file = next
  /\ (\A a \in Admins : pc[a] # "apply") => file = cfg

IInv == TypeOK /\ UniqueIds /\ EditsOK /\ NextIsEdit /\ FileIsSaved

----------------------------------------------------------------------------
(* Sequences of records with IDs *)

\* An element that is there is found.
LEMMA Found ==
  ASSUME NEW s, NEW id, Has(s, id)
  PROVE  At(s, id) \in DOMAIN s /\ s[At(s, id)].id = id
BY DEF Has, At

\* It is the one of its ID.
LEMMA FoundAt ==
  ASSUME NEW s, Unique(s), NEW i \in DOMAIN s
  PROVE  At(s, s[i].id) = i
BY DEF Unique, At

\* A new ID may be appended.
LEMMA UniqueAppend ==
  ASSUME NEW S, NEW s \in Seq(S), NEW x \in S, Unique(s), ~ Has(s, x.id)
  PROVE  Append(s, x) \in Seq(S) /\ Unique(Append(s, x))
<1> DEFINE t == Append(s, x)
<1>1. /\ Len(s) \in Nat /\ DOMAIN s = 1..Len(s)
      /\ t \in Seq(S) /\ DOMAIN t = 1..Len(s) + 1
      /\ \A i \in 1..Len(s) : t[i] = s[i]
      /\ t[Len(s) + 1] = x
  BY AppendProperties, LenProperties
<1> HIDE DEF t
<1>2. ASSUME NEW i \in DOMAIN t, NEW j \in DOMAIN t, t[i].id = t[j].id PROVE i = j
  <2>1. CASE i \in 1..Len(s) /\ j \in 1..Len(s)
    BY <1>1, <1>2, <2>1 DEF Unique
  <2>2. CASE i = Len(s) + 1 \/ j = Len(s) + 1
    BY <1>1, <1>2, <2>2 DEF Has
  <2> QED
    BY <1>1, <2>1, <2>2
<1> QED
  BY <1>1, <1>2 DEF Unique, t

\* An element may be replaced by another of its ID.
LEMMA UniqueReplace ==
  ASSUME NEW S, NEW s \in Seq(S), NEW i \in DOMAIN s, NEW x \in S, x.id = s[i].id, Unique(s)
  PROVE  [s EXCEPT ![i] = x] \in Seq(S) /\ Unique([s EXCEPT ![i] = x])
<1> DEFINE t == [s EXCEPT ![i] = x]
<1>1. DOMAIN t = DOMAIN s /\ \A j \in DOMAIN s : t[j].id = s[j].id
  OBVIOUS
<1>2. t \in Seq(S)
  BY ExceptSeq, LenProperties
<1> HIDE DEF t
<1>3. Unique(t)
  BY <1>1 DEF Unique
<1> QED
  BY <1>2, <1>3 DEF t

\* An element may be removed.
LEMMA UniqueWithout ==
  ASSUME NEW S, NEW s \in Seq(S), NEW id, Has(s, id), Unique(s)
  PROVE  Without(s, id) \in Seq(S) /\ Unique(Without(s, id))
<1> DEFINE n == Len(s) - 1
           p == At(s, id)
           t == Without(s, id)
<1>1. Len(s) \in Nat /\ DOMAIN s = 1..Len(s) /\ p \in 1..Len(s) /\ s \in [1..Len(s) -> S]
  BY Found, LenProperties
<1>2. n \in Nat
  BY <1>1
<1>3. t = [k \in 1..n |-> IF k < p THEN s[k] ELSE s[k + 1]]
  BY DEF Without
<1> HIDE DEF n, p, t
<1>4. t \in [1..n -> S] /\ DOMAIN t = 1..n
  BY <1>1, <1>2, <1>3 DEF n
<1>5. ASSUME NEW i \in 1..n, NEW j \in 1..n, t[i].id = t[j].id PROVE i = j
  BY <1>1, <1>2, <1>3, <1>5 DEF n, Unique
<1> QED
  BY <1>2, <1>4, <1>5, SeqDef DEF Unique, t

----------------------------------------------------------------------------
(* Configurations *)

\* A well-formed configuration is a sequence of well-formed models with IDs of their own.
LEMMA WellFormedModels ==
  ASSUME NEW c
  PROVE  WellFormed(c) <=> c \in Seq(GoodModel) /\ Unique(c)
<1>1. ASSUME WellFormed(c) PROVE c \in Seq(GoodModel)
  <2>1. c \in Seq(Model) /\ Len(c) \in Nat /\ DOMAIN c = 1..Len(c) /\ c \in [1..Len(c) -> Model]
    BY <1>1, LenProperties DEF WellFormed
  <2>2. \A i \in 1..Len(c) : c[i] \in GoodModel
    BY <1>1, <2>1 DEF WellFormed, GoodModel
  <2>3. c \in [1..Len(c) -> GoodModel]
    BY <2>1, <2>2
  <2> QED
    BY <2>1, <2>3, SeqDef
<1>2. ASSUME c \in Seq(GoodModel) PROVE c \in Seq(Model) /\ \A i \in DOMAIN c : Unique(c[i].backends)
  <2>1. GoodModel \subseteq Model
    BY DEF GoodModel
  <2>2. c \in Seq(Model) /\ DOMAIN c = 1..Len(c) /\ c \in [1..Len(c) -> GoodModel]
    BY <1>2, <2>1, SeqMonotonic, LenProperties
  <2> QED
    BY <2>2 DEF GoodModel
<1> QED
  BY <1>1, <1>2 DEF WellFormed

\* A model of a well-formed configuration is found by its ID and is well-formed.
LEMMA ModelFound ==
  ASSUME NEW c, WellFormed(c), NEW m, Has(c, m)
  PROVE  /\ At(c, m) \in DOMAIN c /\ c[At(c, m)].id = m /\ c[At(c, m)] \in GoodModel
         /\ Get(c, m) = c[At(c, m)] /\ m \in Models
         /\ BackendsOf(c, m) \in Seq(Backend) /\ Unique(BackendsOf(c, m))
<1>1. At(c, m) \in DOMAIN c /\ c[At(c, m)].id = m
  BY Found
<1>2. c[At(c, m)] \in GoodModel
  BY <1>1, WellFormedModels, LenProperties, ElementOfSeq
<1> QED
  BY <1>1, <1>2 DEF Get, BackendsOf, GoodModel, Model

\* Giving a model other backends, each of its own ID.
LEMMA BackendsSet ==
  ASSUME NEW c, WellFormed(c), NEW m, Has(c, m), NEW bs \in Seq(Backend), Unique(bs)
  PROVE  WellFormed(SetBackends(c, m, bs))
<1> DEFINE i == At(c, m)
           x == [c[i] EXCEPT !.backends = bs]
<1>1. i \in DOMAIN c /\ c[i] \in GoodModel /\ c \in Seq(GoodModel) /\ Unique(c)
  BY ModelFound, WellFormedModels
<1>2. x \in GoodModel /\ x.id = c[i].id
  BY <1>1 DEF GoodModel, Model
<1>3. SetBackends(c, m, bs) = [c EXCEPT ![i] = x]
  BY DEF SetBackends
<1> HIDE DEF i, x
<1>4. [c EXCEPT ![i] = x] \in Seq(GoodModel) /\ Unique([c EXCEPT ![i] = x])
  BY <1>1, <1>2, UniqueReplace
<1> QED
  BY <1>3, <1>4, WellFormedModels

\* Every edit that finds what it looks for leaves the configuration well-formed.
LEMMA EditKeepsForm ==
  ASSUME NEW c, WellFormed(c), NEW e \in GoodEdit, Keyed(e), Accepts(c, e)
  PROVE  WellFormed(Edited(c, e))
<1>1. c \in Seq(GoodModel) /\ Unique(c)
  BY WellFormedModels
<1>2. CASE e.kind = "addModel"
  <2>1. e.x \in GoodModel /\ e.x.id = e.m /\ ~ Has(c, e.m) /\ Edited(c, e) = Append(c, e.x)
    BY <1>2 DEF GoodEdit, Keyed, Accepts, Edited
  <2> QED
    BY <1>1, <2>1, UniqueAppend, WellFormedModels
<1>3. CASE e.kind = "updateModel"
  <2> DEFINE i == At(c, e.m)
  <2>1. /\ e.x \in GoodModel /\ e.x.id = e.m /\ Has(c, e.m)
        /\ Edited(c, e) = [c EXCEPT ![i] = e.x]
    BY <1>3 DEF GoodEdit, Keyed, Accepts, Edited
  <2>2. i \in DOMAIN c /\ c[i].id = e.m
    BY <2>1, Found
  <2> HIDE DEF i
  <2>3. [c EXCEPT ![i] = e.x] \in Seq(GoodModel) /\ Unique([c EXCEPT ![i] = e.x])
    BY <1>1, <2>1, <2>2, UniqueReplace
  <2> QED
    BY <2>1, <2>3, WellFormedModels
<1>4. CASE e.kind = "deleteModel"
  <2>1. Has(c, e.m) /\ Edited(c, e) = Without(c, e.m)
    BY <1>4 DEF Accepts, Edited
  <2> QED
    BY <1>1, <2>1, UniqueWithout, WellFormedModels
<1> DEFINE bs == BackendsOf(c, e.m)
<1>5. Has(c, e.m) => bs \in Seq(Backend) /\ Unique(bs)
  BY ModelFound
<1> HIDE DEF bs
<1>6. CASE e.kind = "addBackend"
  <2>1. /\ e.x \in Backend /\ Has(c, e.m) /\ ~ Has(bs, e.x.id)
        /\ Edited(c, e) = SetBackends(c, e.m, Append(bs, e.x))
    BY <1>6 DEF GoodEdit, Accepts, Edited, bs
  <2>2. Append(bs, e.x) \in Seq(Backend) /\ Unique(Append(bs, e.x))
    BY <1>5, <2>1, UniqueAppend
  <2> QED
    BY <2>1, <2>2, BackendsSet
<1>7. CASE e.kind = "updateBackend"
  <2> DEFINE i == At(bs, e.x.id)
  <2>1. /\ e.x \in Backend /\ Has(c, e.m) /\ Has(bs, e.x.id)
        /\ Edited(c, e) = SetBackends(c, e.m, [bs EXCEPT ![i] = e.x])
    BY <1>7 DEF GoodEdit, Accepts, Edited, bs
  <2>2. i \in DOMAIN bs /\ bs[i].id = e.x.id
    BY <2>1, Found
  <2> HIDE DEF i
  <2>3. [bs EXCEPT ![i] = e.x] \in Seq(Backend) /\ Unique([bs EXCEPT ![i] = e.x])
    BY <1>5, <2>1, <2>2, UniqueReplace
  <2> QED
    BY <2>1, <2>3, BackendsSet
<1>8. CASE e.kind = "deleteBackend"
  <2>1. /\ Has(c, e.m) /\ Has(bs, e.x)
        /\ Edited(c, e) = SetBackends(c, e.m, Without(bs, e.x))
    BY <1>8 DEF Accepts, Edited, bs
  <2>2. Without(bs, e.x) \in Seq(Backend) /\ Unique(Without(bs, e.x))
    BY <1>5, <2>1, UniqueWithout
  <2> QED
    BY <2>1, <2>2, BackendsSet
<1>9. CASE e.kind \in {"policies", "all"}
  BY <1>9 DEF Edited
<1> QED
  BY <1>2, <1>3, <1>4, <1>6, <1>7, <1>8, <1>9 DEF GoodEdit

\* An edit that is announced to the balancer's goroutine in vain has not changed a model.
LEMMA OthersKeepModels ==
  ASSUME NEW c, NEW e \in GoodEdit, EventType(e) \notin Reloading
  PROVE  Edited(c, e) = c
BY DEF GoodEdit, EventType, Reloading, Edited

----------------------------------------------------------------------------
(* Admin handlers *)

\* What a handler is left with to do.
GoodWork(stage, work) ==
  /\ stage \in {"merge", "edit"} /\ work \in Seq(GoodEdit) /\ work # <<>>
  /\ \A i \in DOMAIN work : Keyed(work[i])
  /\ stage = "merge" => Len(work) = 1 /\ work[1].kind = "updateModel"

\* One edit.
LEMMA SingleEdit ==
  ASSUME NEW e \in GoodEdit, Keyed(e), NEW stage \in {"merge", "edit"},
         stage = "merge" => e.kind = "updateModel"
  PROVE  GoodWork(stage, <<e>>)
<1>1. <<e>> \in Seq(GoodEdit) /\ <<e>> # <<>> /\ Len(<<e>>) = 1 /\ <<e>>[1] = e
      /\ DOMAIN <<e>> = {1}
  OBVIOUS
<1> QED
  BY <1>1 DEF GoodWork

\* A model and its backends.
LEMMA CreatingEdits ==
  ASSUME NEW m \in Models, NEW on \in BOOLEAN, NEW bs \in Seq(Backend)
  PROVE  LET model == [id |-> m, enabled |-> on, backends |-> <<>>]
         IN  GoodWork("edit", <<Edit("addModel", m, model)>>
                                \o [i \in DOMAIN bs |-> Edit("addBackend", m, bs[i])])
<1> DEFINE model == [id |-> m, enabled |-> on, backends |-> <<>>]
           first == <<Edit("addModel", m, model)>>
           rest  == [i \in DOMAIN bs |-> Edit("addBackend", m, bs[i])]
<1>1. /\ first \in Seq(GoodEdit) /\ Len(first) = 1
      /\ first[1].kind = "addModel" /\ Keyed(first[1])
  <2>1. model \in GoodModel
    BY DEF GoodModel, Model, Unique
  <2>2. Edit("addModel", m, model) \in GoodEdit
    BY <2>1 DEF Edit, GoodEdit
  <2> QED
    BY <2>2 DEF Edit, Keyed
<1>2. /\ rest \in Seq(GoodEdit) /\ Len(rest) \in Nat
      /\ \A i \in 1..Len(rest) : Keyed(rest[i])
  <2>1. Len(bs) \in Nat /\ DOMAIN bs = 1..Len(bs) /\ bs \in [1..Len(bs) -> Backend]
    BY LenProperties
  <2>2. \A i \in 1..Len(bs) : Edit("addBackend", m, bs[i]) \in GoodEdit /\ Keyed(Edit("addBackend", m, bs[i]))
    BY <2>1 DEF Edit, GoodEdit, Keyed
  <2>3. rest \in [1..Len(bs) -> GoodEdit]
    BY <2>1, <2>2
  <2>4. rest \in Seq(GoodEdit)
    BY <2>1, <2>3, SeqDef
  <2>5. Len(rest) = Len(bs)
    BY <2>1, <2>3, <2>4, LenProperties
  <2> QED
    BY <2>1, <2>2, <2>4, <2>5
<1> HIDE DEF first, rest
<1>3. /\ first \o rest \in Seq(GoodEdit) /\ Len(first \o rest) = 1 + Len(rest)
      /\ \A i \in 1..(1 + Len(rest)) : (first \o rest)[i] = IF i <= 1 THEN first[1] ELSE rest[i - 1]
  <2>1. /\ first \o rest \in Seq(GoodEdit)
        /\ Len(first \o rest) = Len(first) + Len(rest)
        /\ \A i \in 1..(Len(first) + Len(rest)) :
             (first \o rest)[i] = IF i <= Len(first) THEN first[i] ELSE rest[i - Len(first)]
    BY <1>1, <1>2, ConcatProperties, Zenon
  <2>2. \A i \in 1..(1 + Len(rest)) : (first \o rest)[i] = IF i <= 1 THEN first[i] ELSE rest[i - 1]
    BY <1>1, <2>1, Zenon
  <2>3. \A i \in 1..(1 + Len(rest)) : i <= 1 => i = 1
    BY <1>2
  <2> QED
    BY <1>1, <2>1, <2>2, <2>3
<1>4. \A i \in DOMAIN (first \o rest) : Keyed((first \o rest)[i])
  <2>1. DOMAIN (first \o rest) = 1..(1 + Len(rest))
    BY <1>3, LenProperties
  <2>2. ASSUME NEW i \in 1..(1 + Len(rest)) PROVE Keyed((first \o rest)[i])
    <3>1. CASE i = 1
      BY <1>1, <1>3, <3>1
    <3>2. CASE i # 1
      <4>1. i - 1 \in 1..Len(rest)
        BY <1>2, <3>2
      <4> QED
        BY <1>2, <1>3, <3>2, <4>1
    <3> QED
      BY <3>1, <3>2
  <2> QED
    BY <2>1, <2>2
<1>5. first \o rest # <<>>
  BY <1>2, <1>3
<1> QED
  BY <1>3, <1>4, <1>5 DEF GoodWork, first, rest

\* A set of positions has a first one.
LEMMA FirstPosition ==
  ASSUME NEW T \in SUBSET Nat, T # {}
  PROVE  \E i \in T : \A j \in T : i <= j
<1>1. PICK i \in T : \A j \in T : ~ (<<j, i>> \in OpToRel(<, Nat))
  BY WFMin, NatLessThanWellFounded
<1>2. \A j \in T : i <= j
  <2> SUFFICES ASSUME NEW j \in T PROVE i <= j
    OBVIOUS
  <2>1. ~ (j < i)
    BY <1>1 DEF OpToRel
  <2> QED
    BY <2>1
<1> QED
  BY <1>2

\* The owner of a backend is a model that has it.
LEMMA OwnerHas ==
  ASSUME NEW c, WellFormed(c), NEW b, Owner(c, b) # None
  PROVE  Has(c, Owner(c, b)) /\ Has(BackendsOf(c, Owner(c, b)), b)
<1> DEFINE owners == {i \in DOMAIN c : Has(c[i].backends, b)}
           k == CHOOSE i \in owners : \A j \in owners : i <= j
<1>1. DOMAIN c = 1..Len(c) /\ Len(c) \in Nat
  BY LenProperties DEF WellFormed
<1>2. owners # {} /\ Owner(c, b) = c[k].id
  BY DEF Owner
<1>3. owners \in SUBSET Nat
  BY <1>1
<1>4. k \in owners
  <2> HIDE DEF owners
  <2> QED
    BY <1>2, <1>3, FirstPosition
<1> HIDE DEF k
<1>5. k \in DOMAIN c /\ Has(c[k].backends, b)
  BY <1>4
<1>6. At(c, c[k].id) = k
  BY <1>5, FoundAt DEF WellFormed
<1>7. Has(c, c[k].id)
  BY <1>5 DEF Has
<1> QED
  BY <1>2, <1>5, <1>6, <1>7 DEF BackendsOf, Get

\* Every handler begins with such work.
LEMMA HandleBegins ==
  ASSUME UniqueIds, NEW a \in Admins, Handle(a)
  PROVE  \E stage, work : GoodWork(stage, work) /\ Begin(a, stage, work)
<1>1. WellFormed(cfg)
  BY DEF UniqueIds
<1>2. ASSUME NEW m \in Models, NEW on \in BOOLEAN, NEW bs \in Lists, CreateModel(a, m, on, bs)
      PROVE  \E stage, work : GoodWork(stage, work) /\ Begin(a, stage, work)
  BY <1>2, ListsAssumption, CreatingEdits DEF CreateModel
<1>3. ASSUME NEW m \in Models, NEW on \in BOOLEAN \cup {None}, UpdateModel(a, m, on)
      PROVE  \E stage, work : GoodWork(stage, work) /\ Begin(a, stage, work)
  <2> DEFINE set == IF on = None THEN Get(cfg, m).enabled ELSE on
             model == [id |-> m, enabled |-> set, backends |-> <<>>]
             e == Edit("updateModel", m, model)
  <2>1. Get(cfg, m).enabled \in BOOLEAN
    BY <1>1, <1>3, ModelFound DEF UpdateModel, GoodModel, Model
  <2>2. set \in BOOLEAN
    BY <2>1
  <2> HIDE DEF set
  <2>3. e \in GoodEdit /\ Keyed(e) /\ e.kind = "updateModel"
    BY <2>2 DEF Edit, GoodEdit, GoodModel, Model, Unique, Keyed
  <2>4. Begin(a, "merge", <<e>>)
    BY <1>3 DEF UpdateModel, set
  <2> HIDE DEF e
  <2> QED
    BY <2>3, <2>4, SingleEdit
<1>4. ASSUME NEW m \in Models, DeleteModel(a, m)
      PROVE  \E stage, work : GoodWork(stage, work) /\ Begin(a, stage, work)
  <2> DEFINE e == Edit("deleteModel", m, None)
  <2>1. e \in GoodEdit /\ Keyed(e)
    BY DEF Edit, GoodEdit, Keyed
  <2>2. Begin(a, "edit", <<e>>)
    BY <1>4 DEF DeleteModel
  <2> HIDE DEF e
  <2> QED
    BY <2>1, <2>2, SingleEdit
<1>5. ASSUME NEW m \in Models, NEW b \in Backend, CreateBackend(a, m, b)
      PROVE  \E stage, work : GoodWork(stage, work) /\ Begin(a, stage, work)
  <2> DEFINE e == Edit("addBackend", m, b)
  <2>1. e \in GoodEdit /\ Keyed(e)
    BY DEF Edit, GoodEdit, Keyed
  <2>2. Begin(a, "edit", <<e>>)
    BY <1>5 DEF CreateBackend
  <2> HIDE DEF e
  <2> QED
    BY <2>1, <2>2, SingleEdit
<1>6. ASSUME NEW b \in Backends, NEW on \in BOOLEAN \cup {None}, UpdateBackend(a, b, on)
      PROVE  \E stage, work : GoodWork(stage, work) /\ Begin(a, stage, work)
  <2> DEFINE m   == Owner(cfg, b)
             bs  == BackendsOf(cfg, m)
             old == Get(bs, b)
             set == IF on = None THEN old.enabled ELSE on
             e   == Edit("updateBackend", m, [old EXCEPT !.enabled = set])
  <2>1. Has(cfg, m) /\ Has(bs, b)
    BY <1>1, <1>6, OwnerHas DEF UpdateBackend
  <2>2. m \in Models /\ bs \in Seq(Backend)
    BY <1>1, <2>1, ModelFound
  <2>3. old \in Backend
    <3> HIDE DEF bs
    <3>1. At(bs, b) \in 1..Len(bs)
      BY <2>1, <2>2, Found, LenProperties
    <3> QED
      BY <2>2, <3>1, ElementOfSeq DEF Get
  <2> HIDE DEF m, bs, old
  <2>4. [old EXCEPT !.enabled = set] \in Backend
    BY <2>3 DEF Backend
  <2>5. e \in GoodEdit /\ Keyed(e)
    <3> HIDE DEF set
    <3> QED
      BY <2>2, <2>4 DEF Edit, GoodEdit, Keyed
  <2>6. Begin(a, "edit", <<e>>)
    BY <1>6 DEF UpdateBackend, m, bs, old
  <2> HIDE DEF e
  <2> QED
    BY <2>5, <2>6, SingleEdit
<1>7. ASSUME NEW b \in Backends, DeleteBackend(a, b)
      PROVE  \E stage, work : GoodWork(stage, work) /\ Begin(a, stage, work)
  <2> DEFINE e == Edit("deleteBackend", Owner(cfg, b), b)
  <2>1. Owner(cfg, b) \in Models
    BY <1>1, <1>7, OwnerHas, ModelFound DEF DeleteBackend
  <2>2. e \in GoodEdit /\ Keyed(e)
    BY <2>1 DEF Edit, GoodEdit, Keyed
  <2>3. Begin(a, "edit", <<e>>)
    BY <1>7 DEF DeleteBackend
  <2> HIDE DEF e
  <2> QED
    BY <2>2, <2>3, SingleEdit
<1>8. ASSUME NEW kind \in {"policies", "all"}, Begin(a, "edit", <<Edit(kind, None, None)>>)
      PROVE  \E stage, work : GoodWork(stage, work) /\ Begin(a, stage, work)
  <2> DEFINE e == Edit(kind, None, None)
  <2>1. e \in GoodEdit /\ Keyed(e)
    BY DEF Edit, GoodEdit, Keyed
  <2> HIDE DEF e
  <2> QED
    BY <1>8, <2>1, SingleEdit DEF e
<1> QED
  BY <1>2, <1>3, <1>4, <1>5, <1>6, <1>7, <1>8 DEF Handle, SavePolicy, UpdateSettings

----------------------------------------------------------------------------
(* Steps *)

\* A request that ends, or goes on with some work.
LEMMA WorkGoesOn ==
  ASSUME TypeOK, EditsOK, NEW a \in Admins,
         NEW stage \in Stages, NEW work \in Seq(GoodEdit),
         stage # "idle" <=> work # <<>>,
         \A i \in DOMAIN work : Keyed(work[i]),
         stage = "merge" => Len(work) = 1 /\ work[1].kind = "updateModel",
         pc' = [pc EXCEPT ![a] = stage], edits' = [edits EXCEPT ![a] = work]
  PROVE  /\ EditsOK'
         /\ pc' \in [Admins -> Stages]
         /\ \A q \in Admins : pc'[q] # "idle" <=> edits'[q] # <<>>
<1>1. pc \in [Admins -> Stages] /\ edits \in [Admins -> Seq(GoodEdit)]
  BY DEF TypeOK, EditsOK
<1>2. pc' \in [Admins -> Stages] /\ edits' \in [Admins -> Seq(GoodEdit)]
  BY <1>1
<1>3. pc'[a] = stage /\ edits'[a] = work
  BY <1>1
<1>4. ASSUME NEW q \in Admins, q # a PROVE pc'[q] = pc[q] /\ edits'[q] = edits[q]
  BY <1>1, <1>4
<1>5. ASSUME NEW q \in Admins
      PROVE  /\ \A i \in DOMAIN edits'[q] : Keyed(edits'[q][i])
             /\ pc'[q] = "merge" => Len(edits'[q]) = 1 /\ edits'[q][1].kind = "updateModel"
             /\ pc'[q] # "idle" <=> edits'[q] # <<>>
  <2>1. CASE q = a
    BY <1>3, <2>1
  <2>2. CASE q # a
    BY <1>4, <2>2 DEF TypeOK, EditsOK
  <2> QED
    BY <2>1, <2>2
<1> QED
  BY <1>2, <1>5 DEF EditsOK

\* While nobody writes, the file and the memory agree.
LEMMA FileIsMemory ==
  ASSUME IInv, writer = None
  PROVE  file = cfg /\ \A a \in Admins : pc[a] \notin {"save", "apply"}
BY NobodyAssumption DEF IInv, TypeOK, FileIsSaved

\* A step of a request that does not take the lock, while it is free.
LEMMA FreeStep ==
  ASSUME IInv, writer = None, UNCHANGED <<cfg, file, writer, next, telling, queue, worker, fetched>>,
         NEW a \in Admins, NEW stage \in {"idle", "merge", "edit"}, NEW work \in Seq(GoodEdit),
         stage # "idle" <=> work # <<>>,
         \A i \in DOMAIN work : Keyed(work[i]),
         stage = "merge" => Len(work) = 1 /\ work[1].kind = "updateModel",
         pc' = [pc EXCEPT ![a] = stage], edits' = [edits EXCEPT ![a] = work]
  PROVE  IInv'
<1>1. TypeOK /\ EditsOK /\ stage \in Stages
  BY DEF IInv, Stages
<1>2. /\ EditsOK' /\ pc' \in [Admins -> Stages]
      /\ \A q \in Admins : pc'[q] # "idle" <=> edits'[q] # <<>>
  BY <1>1, WorkGoesOn
<1>3. file = cfg /\ \A q \in Admins : pc[q] \notin {"save", "apply"}
  BY FileIsMemory
<1>4. \A q \in Admins : pc'[q] \notin {"save", "apply"}
  BY <1>1, <1>3 DEF TypeOK
<1>5. TypeOK'
  BY <1>1, <1>2, <1>4, NobodyAssumption DEF TypeOK
<1> QED
  BY <1>2, <1>3, <1>4, <1>5 DEF IInv, UniqueIds, NextIsEdit, FileIsSaved

\* The handlers, which find the lock free and leave the configuration alone.
LEMMA BeginStep ==
  ASSUME IInv, NEW a \in Admins, Handle(a)
  PROVE  IInv'
<1>1. PICK stage, work : GoodWork(stage, work) /\ Begin(a, stage, work)
  BY HandleBegins DEF IInv
<1>2. /\ UNCHANGED <<cfg, file, writer, next, telling, queue, worker, fetched>> /\ writer = None
      /\ pc' = [pc EXCEPT ![a] = stage] /\ edits' = [edits EXCEPT ![a] = work]
  BY <1>1 DEF Begin
<1>3. /\ stage \in {"idle", "merge", "edit"} /\ work \in Seq(GoodEdit)
      /\ stage # "idle" <=> work # <<>>
      /\ \A i \in DOMAIN work : Keyed(work[i])
      /\ stage = "merge" => Len(work) = 1 /\ work[1].kind = "updateModel"
  BY <1>1 DEF GoodWork
<1> QED
  BY <1>2, <1>3, FreeStep

\* The second reading of a model that is updated.
LEMMA MergeStep ==
  ASSUME IInv, NEW a \in Admins, MergeBackends(a)
  PROVE  IInv'
<1> DEFINE e == edits[a][1]
           m == e.m
           merged == [e EXCEPT !.x.backends = BackendsOf(cfg, m)]
<1>1. /\ UNCHANGED <<cfg, file, writer, next, telling, queue, worker, fetched>>
      /\ pc[a] = "merge" /\ writer = None
  BY DEF MergeBackends
<1>2. /\ edits[a] \in Seq(GoodEdit) /\ Len(edits[a]) = 1 /\ DOMAIN edits[a] = {1}
      /\ e \in GoodEdit /\ e.kind = "updateModel" /\ e.x.id = e.m
      /\ Head(edits[a]) = e /\ edits[a] = <<e>>
  BY <1>1 DEF IInv, EditsOK, Keyed
<1>3. CASE ~ Has(cfg, m)
  <2>1. pc' = [pc EXCEPT ![a] = "idle"] /\ edits' = [edits EXCEPT ![a] = <<>>]
    BY <1>2, <1>3 DEF MergeBackends, Finished
  <2>2. <<>> \in Seq(GoodEdit) /\ DOMAIN <<>> = {}
    OBVIOUS
  <2> QED
    BY <1>1, <2>1, <2>2, FreeStep
<1>4. CASE Has(cfg, m)
  <2>1. BackendsOf(cfg, m) \in Seq(Backend) /\ Unique(BackendsOf(cfg, m))
    BY <1>4, ModelFound DEF IInv, UniqueIds
  <2>2. e.x \in GoodModel /\ e.m \in Models
    BY <1>2 DEF GoodEdit
  <2>3. [e.x EXCEPT !.backends = BackendsOf(cfg, m)] \in GoodModel
        /\ [e.x EXCEPT !.backends = BackendsOf(cfg, m)].id = e.m
    BY <1>2, <2>1, <2>2 DEF GoodModel, Model
  <2>4. merged = [e EXCEPT !.x = [e.x EXCEPT !.backends = BackendsOf(cfg, m)]]
    BY DEF GoodEdit
  <2>5. merged \in GoodEdit /\ Keyed(merged)
    BY <1>2, <2>2, <2>3, <2>4 DEF GoodEdit, Keyed
  <2>6. pc' = [pc EXCEPT ![a] = "edit"]
        /\ edits' = [edits EXCEPT ![a][1].x.backends = BackendsOf(cfg, m)]
    BY <1>2, <1>4 DEF MergeBackends
  <2>7. edits' = [edits EXCEPT ![a] = [edits[a] EXCEPT ![1] = merged]]
    BY <2>6
  <2> HIDE DEF merged, e
  <2>8. [edits[a] EXCEPT ![1] = merged] = <<merged>>
    BY <1>2
  <2>9. /\ <<merged>> \in Seq(GoodEdit) /\ <<merged>> # <<>> /\ DOMAIN <<merged>> = {1}
        /\ \A i \in DOMAIN <<merged>> : Keyed(<<merged>>[i])
    <3>1. /\ <<merged>> \in Seq(GoodEdit) /\ <<merged>> # <<>> /\ DOMAIN <<merged>> = {1}
          /\ <<merged>>[1] = merged
      BY <2>5
    <3> QED
      BY <2>5, <3>1
  <2>10. edits' = [edits EXCEPT ![a] = <<merged>>]
    BY <2>7, <2>8
  <2> QED
    BY <1>1, <2>5, <2>6, <2>9, <2>10, FreeStep
<1> QED
  BY <1>3, <1>4

\* Taking the lock and editing the copy.
LEMMA LockStep ==
  ASSUME IInv, NEW a \in Admins, Lock(a)
  PROVE  IInv'
<1> DEFINE e == Head(edits[a])
<1>1. /\ UNCHANGED <<cfg, file, telling, queue, worker, fetched>>
      /\ pc[a] = "edit" /\ writer = None
  BY DEF Lock
<1>2. /\ TypeOK /\ EditsOK /\ UniqueIds
      /\ edits[a] \in Seq(GoodEdit) /\ edits[a] # <<>> /\ edits \in [Admins -> Seq(GoodEdit)]
      /\ e \in GoodEdit /\ Keyed(e) /\ \A i \in DOMAIN edits[a] : Keyed(edits[a][i])
  BY <1>1 DEF IInv, TypeOK, EditsOK
<1>3. CASE ~ Accepts(cfg, e)
  <2>1. /\ UNCHANGED <<writer, next>>
        /\ pc' = [pc EXCEPT ![a] = "idle"] /\ edits' = [edits EXCEPT ![a] = <<>>]
    BY <1>3 DEF Lock, Finished
  <2>2. <<>> \in Seq(GoodEdit) /\ DOMAIN <<>> = {}
    OBVIOUS
  <2> QED
    BY <1>1, <2>1, <2>2, FreeStep
<1>4. CASE Accepts(cfg, e)
  <2>1. /\ writer' = a /\ next' = Edited(cfg, e)
        /\ pc' = [pc EXCEPT ![a] = "save"] /\ edits' = edits
    BY <1>4 DEF Lock
  <2>2. edits' = [edits EXCEPT ![a] = edits[a]]
    BY <1>2, <2>1
  <2>3. /\ EditsOK' /\ pc' \in [Admins -> Stages]
        /\ \A q \in Admins : pc'[q] # "idle" <=> edits'[q] # <<>>
    BY <1>2, <2>1, <2>2, WorkGoesOn DEF Stages
  <2>4. WellFormed(next')
    BY <1>2, <1>4, <2>1, EditKeepsForm DEF UniqueIds
  <2>5. file = cfg /\ \A q \in Admins : pc[q] \notin {"save", "apply"}
    BY <1>1, FileIsMemory
  <2>6. \A q \in Admins : IF q = a THEN pc'[q] = "save" ELSE pc'[q] = pc[q]
    BY <1>2, <2>1 DEF TypeOK
  <2>7. TypeOK'
    BY <1>1, <1>2, <2>1, <2>3, <2>4, <2>5, <2>6, NobodyAssumption DEF TypeOK, WellFormed
  <2>8. NextIsEdit' /\ FileIsSaved' /\ UniqueIds'
    BY <1>1, <1>2, <1>4, <2>1, <2>5, <2>6 DEF NextIsEdit, FileIsSaved, UniqueIds
  <2> QED
    BY <2>3, <2>7, <2>8 DEF IInv
<1> QED
  BY <1>3, <1>4

\* What the copy of the writer is.
LEMMA CopyIsGood ==
  ASSUME IInv, NEW a \in Admins, pc[a] \in {"save", "apply"}
  PROVE  /\ WellFormed(next) /\ writer = a /\ next = Edited(cfg, Head(edits[a]))
         /\ \A q \in Admins \ {a} : pc[q] \notin {"save", "apply"}
         /\ Head(edits[a]) \in GoodEdit /\ edits[a] # <<>>
         /\ edits[a] \in Seq(GoodEdit) /\ \A i \in DOMAIN edits[a] : Keyed(edits[a][i])
<1>1. edits[a] \in Seq(GoodEdit) /\ edits[a] # <<>> /\ \A i \in DOMAIN edits[a] : Keyed(edits[a][i])
  BY DEF IInv, TypeOK, EditsOK
<1>2. Head(edits[a]) \in GoodEdit /\ Keyed(Head(edits[a]))
  BY <1>1
<1>3. next = Edited(cfg, Head(edits[a])) /\ Accepts(cfg, Head(edits[a]))
  BY DEF IInv, NextIsEdit
<1>4. writer = a /\ \A q \in Admins \ {a} : pc[q] \notin {"save", "apply"}
  BY DEF IInv, TypeOK
<1> QED
  BY <1>1, <1>2, <1>3, <1>4, EditKeepsForm DEF IInv, UniqueIds

LEMMA SaveStep ==
  ASSUME IInv, NEW a \in Admins, Save(a)
  PROVE  IInv'
<1>1. /\ UNCHANGED <<cfg, writer, next, edits, telling, queue, worker, fetched>>
      /\ pc[a] = "save" /\ file' = next /\ pc' = [pc EXCEPT ![a] = "apply"]
  BY DEF Save
<1>2. TypeOK /\ EditsOK /\ edits \in [Admins -> Seq(GoodEdit)]
  BY DEF IInv, EditsOK
<1>3. /\ WellFormed(next) /\ writer = a /\ edits[a] # <<>> /\ edits[a] \in Seq(GoodEdit)
      /\ \A q \in Admins \ {a} : pc[q] \notin {"save", "apply"}
      /\ \A i \in DOMAIN edits[a] : Keyed(edits[a][i])
  BY <1>1, CopyIsGood
<1>4. edits' = [edits EXCEPT ![a] = edits[a]]
  BY <1>1, <1>2
<1>5. /\ EditsOK' /\ pc' \in [Admins -> Stages]
      /\ \A q \in Admins : pc'[q] # "idle" <=> edits'[q] # <<>>
  BY <1>1, <1>2, <1>3, <1>4, WorkGoesOn DEF Stages
<1>6. \A q \in Admins : IF q = a THEN pc'[q] = "apply" ELSE pc'[q] = pc[q]
  BY <1>1, <1>2 DEF TypeOK
<1>7. TypeOK'
  BY <1>1, <1>2, <1>3, <1>5, <1>6 DEF TypeOK, WellFormed
<1>8. UniqueIds'
  BY <1>1, <1>3 DEF IInv, UniqueIds
<1>9. NextIsEdit' /\ FileIsSaved'
  BY <1>1, <1>3, <1>6 DEF IInv, NextIsEdit, FileIsSaved
<1> QED
  BY <1>5, <1>7, <1>8, <1>9 DEF IInv

\* A step that gives the lock back.
LEMMA ReleaseStep ==
  ASSUME IInv, NEW a \in Admins, pc[a] \in {"save", "apply"},
         writer' = None, next' = <<>>, file' = file, cfg' \in {cfg, next}, cfg' = file,
         NEW stage \in {"idle", "edit"}, NEW work \in {<<>>, Tail(edits[a])},
         stage # "idle" <=> work # <<>>,
         pc' = [pc EXCEPT ![a] = stage], edits' = [edits EXCEPT ![a] = work],
         telling' \in [EventTypes -> Nat], UNCHANGED <<queue, worker, fetched>>
  PROVE  IInv'
<1>1. TypeOK /\ EditsOK /\ UniqueIds /\ stage \in Stages /\ stage # "merge"
  BY DEF IInv, Stages
<1>2. /\ WellFormed(next) /\ writer = a /\ edits[a] # <<>> /\ edits[a] \in Seq(GoodEdit)
      /\ \A q \in Admins \ {a} : pc[q] \notin {"save", "apply"}
      /\ \A i \in DOMAIN edits[a] : Keyed(edits[a][i])
  BY CopyIsGood
<1>3. work \in Seq(GoodEdit) /\ \A i \in DOMAIN work : Keyed(work[i])
  <2>1. /\ Len(edits[a]) \in Nat /\ DOMAIN edits[a] = 1..Len(edits[a])
        /\ Tail(edits[a]) \in Seq(GoodEdit) /\ Len(Tail(edits[a])) = Len(edits[a]) - 1
        /\ \A i \in 1..Len(Tail(edits[a])) : Tail(edits[a])[i] = edits[a][i + 1]
    BY <1>2, HeadTailProperties, LenProperties
  <2>2. DOMAIN Tail(edits[a]) = 1..Len(Tail(edits[a]))
    BY <2>1, LenProperties
  <2>3. \A i \in 1..Len(Tail(edits[a])) : i + 1 \in DOMAIN edits[a]
    BY <2>1
  <2>4. \A i \in DOMAIN Tail(edits[a]) : Keyed(Tail(edits[a])[i])
    BY <1>2, <2>1, <2>2, <2>3
  <2>5. <<>> \in Seq(GoodEdit) /\ DOMAIN <<>> = {}
    OBVIOUS
  <2> QED
    BY <2>1, <2>4, <2>5
<1>4. /\ EditsOK' /\ pc' \in [Admins -> Stages]
      /\ \A q \in Admins : pc'[q] # "idle" <=> edits'[q] # <<>>
  BY <1>1, <1>3, WorkGoesOn
<1>5. \A q \in Admins : pc'[q] \notin {"save", "apply"}
  BY <1>1, <1>2 DEF TypeOK
<1>6. WellFormed(cfg') /\ <<>> \in Seq(Model)
  BY <1>1, <1>2 DEF UniqueIds
<1>7. TypeOK'
  BY <1>1, <1>4, <1>5, <1>6, NobodyAssumption DEF TypeOK, WellFormed
<1>8. UniqueIds' /\ NextIsEdit' /\ FileIsSaved'
  BY <1>5, <1>6 DEF UniqueIds, NextIsEdit, FileIsSaved
<1> QED
  BY <1>4, <1>7, <1>8 DEF IInv

LEMMA FailStep ==
  ASSUME IInv, NEW a \in Admins, FailToSave(a)
  PROVE  IInv'
<1>1. /\ UNCHANGED <<cfg, file, telling, queue, worker, fetched>>
      /\ pc[a] = "save" /\ writer' = None /\ next' = <<>>
      /\ pc' = [pc EXCEPT ![a] = "idle"] /\ edits' = [edits EXCEPT ![a] = <<>>]
  BY DEF FailToSave, Finished
<1>2. cfg = file
  <2>1. \A q \in Admins \ {a} : pc[q] # "apply"
    BY <1>1, CopyIsGood
  <2> QED
    BY <1>1, <2>1 DEF IInv, FileIsSaved
<1>3. telling' \in [EventTypes -> Nat]
  BY <1>1 DEF IInv, TypeOK
<1> QED
  BY <1>1, <1>2, <1>3, ReleaseStep

LEMMA ApplyStep ==
  ASSUME IInv, NEW a \in Admins, Apply(a)
  PROVE  IInv'
<1>1. /\ UNCHANGED <<file, queue, worker, fetched>>
      /\ pc[a] = "apply" /\ cfg' = next /\ writer' = None /\ next' = <<>>
      /\ telling' = [telling EXCEPT ![EventType(Head(edits[a]))] = @ + 1]
  BY DEF Apply
<1>2. telling' \in [EventTypes -> Nat]
  <2>1. telling \in [EventTypes -> Nat]
    BY DEF IInv, TypeOK
  <2>2. EventType(Head(edits[a])) \in EventTypes
    BY <1>1, CopyIsGood DEF GoodEdit, EventType, EventTypes
  <2> QED
    BY <1>1, <2>1, <2>2
<1>3. cfg' = file
  BY <1>1 DEF IInv, FileIsSaved
<1>4. CASE Tail(edits[a]) = <<>>
  <2>1. pc' = [pc EXCEPT ![a] = "idle"] /\ edits' = [edits EXCEPT ![a] = <<>>]
    BY <1>4 DEF Apply, Finished
  <2> QED
    BY <1>1, <1>2, <1>3, <2>1, ReleaseStep
<1>5. CASE Tail(edits[a]) # <<>>
  <2>1. pc' = [pc EXCEPT ![a] = "edit"] /\ edits' = [edits EXCEPT ![a] = Tail(edits[a])]
    BY <1>5 DEF Apply
  <2> QED
    BY <1>1, <1>2, <1>3, <1>5, <2>1, ReleaseStep
<1> QED
  BY <1>4, <1>5

\* Announcing edits and reloading leave the requests alone.
LEMMA ReloadStep ==
  ASSUME IInv, (\E t \in EventTypes : Notify(t)) \/ Receive \/ GetModels \/ ReloadConfig
  PROVE  IInv'
<1>1. UNCHANGED <<cfg, file, writer, next, pc, edits>>
  BY DEF Notify, Receive, GetModels, ReloadConfig
<1>2. TypeOK
  BY DEF IInv
<1>3. UniqueIds' /\ EditsOK' /\ NextIsEdit' /\ FileIsSaved'
  BY <1>1 DEF IInv, UniqueIds, EditsOK, NextIsEdit, FileIsSaved
<1>4. /\ telling' \in [EventTypes -> Nat]
      /\ queue' \in Seq(EventTypes) /\ Len(queue') <= Capacity
      /\ worker' \in {"wait", "fetch", "load"} /\ fetched' \in Seq(Model)
  <2>1. /\ telling \in [EventTypes -> Nat] /\ queue \in Seq(EventTypes) /\ Len(queue) <= Capacity
        /\ worker \in {"wait", "fetch", "load"} /\ fetched \in Seq(Model) /\ cfg \in Seq(Model)
        /\ Len(queue) \in Nat /\ Capacity \in Nat
    BY <1>2, CapacityAssumption DEF TypeOK
  <2>2. ASSUME NEW t \in EventTypes, Notify(t)
        PROVE  /\ telling' \in [EventTypes -> Nat] /\ UNCHANGED <<worker, fetched>>
               /\ queue' \in Seq(EventTypes) /\ Len(queue') <= Capacity
    <3>1. telling' \in [EventTypes -> Nat] /\ UNCHANGED <<worker, fetched>>
      BY <2>1, <2>2 DEF Notify
    <3>2. queue' \in Seq(EventTypes) /\ Len(queue') <= Capacity
      BY <2>1, <2>2, AppendProperties DEF Notify
    <3> QED
      BY <3>1, <3>2
  <2>3. ASSUME Receive
        PROVE  /\ UNCHANGED <<telling, fetched>> /\ worker' \in {"wait", "fetch", "load"}
               /\ queue' \in Seq(EventTypes) /\ Len(queue') <= Capacity
    BY <2>1, <2>3, HeadTailProperties DEF Receive
  <2>4. ASSUME GetModels \/ ReloadConfig
        PROVE  /\ telling' = telling /\ queue' = queue
               /\ worker' \in {"wait", "fetch", "load"} /\ fetched' \in Seq(Model)
    <3>1. CASE GetModels
      <4>1. /\ telling' = telling /\ queue' = queue /\ worker' = "load" /\ fetched' = cfg
        BY <3>1 DEF GetModels
      <4> QED
        BY <2>1, <4>1
    <3>2. CASE ReloadConfig
      <4>1. /\ telling' = telling /\ queue' = queue /\ worker' = "wait" /\ fetched' = <<>>
        BY <3>2 DEF ReloadConfig
      <4> QED
        BY <4>1
    <3> QED
      BY <2>4, <3>1, <3>2
  <2>5. CASE \E t \in EventTypes : Notify(t)
    BY <2>1, <2>2, <2>5
  <2>6. CASE Receive
    BY <2>1, <2>3, <2>6
  <2>7. CASE GetModels \/ ReloadConfig
    BY <2>1, <2>4, <2>7
  <2> QED
    BY <2>5, <2>6, <2>7
<1>5. TypeOK'
  BY <1>1, <1>2, <1>4 DEF TypeOK
<1> QED
  BY <1>3, <1>5 DEF IInv

\* The process starts again from the file.
LEMMA CrashStep ==
  ASSUME IInv, Crash
  PROVE  IInv'
<1>1. /\ cfg' = file /\ file' = file /\ writer' = None /\ next' = <<>> /\ fetched' = <<>>
      /\ pc' = [a \in Admins |-> "idle"] /\ edits' = [a \in Admins |-> <<>>]
      /\ telling' = Silence /\ queue' = <<>> /\ worker' = "wait"
  BY DEF Crash
<1>2. WellFormed(file) /\ file \in Seq(Model)
  BY DEF IInv, UniqueIds, WellFormed
<1>3. TypeOK'
  BY <1>1, <1>2, CapacityAssumption, NobodyAssumption DEF TypeOK, Stages, Silence
<1>4. UniqueIds' /\ EditsOK' /\ NextIsEdit' /\ FileIsSaved'
  BY <1>1, <1>2 DEF UniqueIds, EditsOK, NextIsEdit, FileIsSaved
<1> QED
  BY <1>3, <1>4 DEF IInv

LEMMA InitIInv == Init => IInv
<1> SUFFICES ASSUME Init PROVE IInv
  OBVIOUS
<1>1. WellFormed(cfg) /\ cfg \in Seq(Model) /\ file = cfg
  BY InitialAssumption DEF Init, WellFormed
<1>2. TypeOK
  BY <1>1, CapacityAssumption, NobodyAssumption DEF Init, TypeOK, Stages, Silence
<1>3. UniqueIds /\ EditsOK /\ NextIsEdit /\ FileIsSaved
  BY <1>1 DEF Init, UniqueIds, EditsOK, NextIsEdit, FileIsSaved
<1> QED
  BY <1>2, <1>3 DEF IInv

LEMMA NextIInv == IInv /\ [Next]_vars => IInv'
<1> SUFFICES ASSUME IInv, [Next]_vars PROVE IInv'
  OBVIOUS
<1>1. CASE UNCHANGED vars
  <2>1. UNCHANGED <<cfg, file, writer, next, pc, edits>>
    BY <1>1 DEF vars
  <2>2. UNCHANGED <<telling, queue, worker, fetched>>
    BY <1>1 DEF vars
  <2> QED
    BY <2>1, <2>2 DEF IInv, TypeOK, UniqueIds, EditsOK, NextIsEdit, FileIsSaved
<1> QED
  BY <1>1, BeginStep, MergeStep, LockStep, SaveStep, FailStep, ApplyStep, ReloadStep, CrashStep
     DEF Next, Update

----------------------------------------------------------------------------
(* What the manager promises *)

\* The configuration, its copies and its lock are never anything else (manager.go: cm.mu is
\* held from the copy to its being put in place).
THEOREM Invariance == Spec => []IInv
BY InitIInv, NextIInv, PTL DEF Spec

\* No series of admin requests, whatever they read before others wrote, and no crash makes
\* two models, or two backends of a model, share an ID (AddModel, AddBackend, and the
\* second reading in ModelStore.Update).
THEOREM IdsStayUnique == Spec => []UniqueIds
<1>1. IInv => UniqueIds
  BY DEF IInv
<1> QED
  BY <1>1, Invariance, PTL

\* updateConfig puts a copy in place only once it is on disk, and a copy that could not be
\* saved is forgotten.
THEOREM NothingUnsaved == Spec => []SavedFirst
<1>1. IInv => SavedFirst
  <2> SUFFICES ASSUME IInv, file # cfg PROVE SavedFirst
    BY DEF SavedFirst
  <2>1. PICK a \in Admins : pc[a] = "apply"
    BY DEF IInv, FileIsSaved
  <2>2. writer = a /\ file = next
    BY <2>1 DEF IInv, TypeOK, FileIsSaved
  <2> QED
    BY <2>1, <2>2 DEF SavedFirst
<1> QED
  BY <1>1, Invariance, PTL

----------------------------------------------------------------------------
(* What hot reload promises *)

\* The channel holds nothing but events that the balancer's goroutine passes over, and is
\* full of them: the only state in which notify drops the news of a model.
Flooded == Len(queue) >= Capacity /\ \A i \in DOMAIN queue : queue[i] \notin Reloading

\* While the balancer's goroutine holds the models it has read, what was loaded before does
\* not count: it is about to be replaced.
Followed ==
  \/ \E t \in Reloading : telling[t] > 0
  \/ \E i \in DOMAIN queue : queue[i] \in Reloading
  \/ worker = "fetch"
  \/ worker = "load" /\ Served(fetched) = Served(cfg)
  \/ worker = "wait" /\ loaded = Served(cfg)

\* As long as the channel is not flooded, no news of an edit is lost: neither when it is
\* announced late or out of order, nor when it comes while the goroutine is between its
\* reading of the models and its reloading of them.
LEMMA ToldStep == IInv /\ ~Flooded /\ Followed /\ [Next]_vars => Followed'
<1> SUFFICES ASSUME IInv, ~Flooded, Followed, [Next]_vars PROVE Followed'
  OBVIOUS
<1>1. /\ queue \in Seq(EventTypes) /\ Len(queue) \in Nat /\ DOMAIN queue = 1..Len(queue)
      /\ telling \in [EventTypes -> Nat] /\ worker \in {"wait", "fetch", "load"}
      /\ Capacity \in Nat /\ Reloading \subseteq EventTypes
  BY LenProperties, CapacityAssumption DEF IInv, TypeOK, Reloading, EventTypes
<1>2. ASSUME UNCHANGED <<cfg, telling, queue, worker, fetched, loaded>> PROVE Followed'
  BY <1>2 DEF Followed
<1>3. ASSUME NEW a \in Admins, Handle(a) \/ MergeBackends(a) \/ Lock(a) \/ Save(a) \/ FailToSave(a)
      PROVE  Followed'
  <2>1. CASE Handle(a)
    BY <1>2, <2>1, HandleBegins DEF IInv, Begin
  <2>2. CASE MergeBackends(a) \/ Lock(a) \/ Save(a) \/ FailToSave(a)
    BY <1>2, <2>2 DEF MergeBackends, Lock, Save, FailToSave
  <2> QED
    BY <1>3, <2>1, <2>2
<1>4. ASSUME NEW a \in Admins, Apply(a) PROVE Followed'
  <2> DEFINE e == Head(edits[a])
  <2>1. /\ e \in GoodEdit /\ cfg' = Edited(cfg, e) /\ EventType(e) \in EventTypes
        /\ telling' = [telling EXCEPT ![EventType(e)] = @ + 1]
        /\ UNCHANGED <<queue, worker, fetched, loaded>>
    BY <1>4, CopyIsGood DEF Apply, GoodEdit, EventType, EventTypes
  <2> HIDE DEF e
  <2>2. CASE EventType(e) \in Reloading
    <3>1. telling'[EventType(e)] > 0
      BY <1>1, <2>1
    <3> QED
      BY <2>2, <3>1 DEF Followed
  <2>3. CASE EventType(e) \notin Reloading
    <3>1. cfg' = cfg
      BY <2>1, <2>3, OthersKeepModels
    <3>2. \A t \in Reloading : telling'[t] = telling[t]
      BY <1>1, <2>1, <2>3
    <3> QED
      BY <2>1, <3>1, <3>2 DEF Followed
  <2> QED
    BY <2>2, <2>3
<1>5. ASSUME NEW t \in EventTypes, Notify(t) PROVE Followed'
  <2>1. /\ telling' = [telling EXCEPT ![t] = @ - 1]
        /\ queue' = IF Len(queue) < Capacity THEN Append(queue, t) ELSE queue
        /\ UNCHANGED <<cfg, worker, fetched, loaded>>
    BY <1>5 DEF Notify
  <2>2. CASE \E i \in DOMAIN queue' : queue'[i] \in Reloading
    BY <2>2 DEF Followed
  <2>3. CASE ~ \E i \in DOMAIN queue' : queue'[i] \in Reloading
    <3>1. ~ \E i \in DOMAIN queue : queue[i] \in Reloading
      BY <1>1, <2>1, <2>3, AppendProperties, LenProperties
    <3>2. Len(queue) < Capacity
      BY <1>1, <3>1 DEF Flooded
    <3>3. t \notin Reloading
      BY <1>1, <2>1, <2>3, <3>2, AppendProperties, LenProperties
    <3>4. \A u \in Reloading : telling'[u] = telling[u]
      BY <1>1, <2>1, <3>3
    <3> QED
      BY <2>1, <3>1, <3>4 DEF Followed
  <2> QED
    BY <2>2, <2>3
<1>6. ASSUME Receive PROVE Followed'
  <2>1. /\ worker = "wait" /\ queue # <<>> /\ queue' = Tail(queue)
        /\ worker' = IF Head(queue) \in Reloading THEN "fetch" ELSE "wait"
        /\ UNCHANGED <<cfg, telling, fetched, loaded>>
    BY <1>6 DEF Receive
  <2>2. CASE Head(queue) \in Reloading
    BY <2>1, <2>2 DEF Followed
  <2>3. CASE Head(queue) \notin Reloading
    <3>1. /\ Len(Tail(queue)) = Len(queue) - 1 /\ DOMAIN Tail(queue) = 1..Len(Tail(queue))
          /\ \A i \in 1..Len(Tail(queue)) : Tail(queue)[i] = queue[i + 1]
          /\ Head(queue) = queue[1]
      BY <1>1, <2>1, HeadTailProperties, LenProperties
    <3>2. ASSUME NEW i \in DOMAIN queue, queue[i] \in Reloading
          PROVE  \E j \in DOMAIN queue' : queue'[j] \in Reloading
      <4>1. i # 1 /\ i - 1 \in 1..Len(Tail(queue)) /\ Tail(queue)[i - 1] = queue[i]
        BY <1>1, <2>3, <3>1, <3>2
      <4> QED
        BY <2>1, <3>1, <3>2, <4>1
    <3> QED
      BY <2>1, <3>2 DEF Followed
  <2> QED
    BY <2>2, <2>3
<1>7. CASE GetModels
  BY <1>7 DEF GetModels, Followed
<1>8. CASE ReloadConfig
  <2>1. /\ worker = "load" /\ loaded' = Served(fetched) /\ cfg' = cfg
        /\ telling' = telling /\ queue' = queue
    BY <1>8 DEF ReloadConfig
  <2>2. worker' = "wait"
    BY <1>8 DEF ReloadConfig
  <2> QED
    BY <2>1, <2>2 DEF Followed
<1>9. CASE Crash
  BY <1>9 DEF Crash, Followed
<1>10. CASE UNCHANGED vars
  BY <1>2, <1>10 DEF vars
<1> QED
  BY <1>3, <1>4, <1>5, <1>6, <1>7, <1>8, <1>9, <1>10 DEF Next, Update

\* The balancer serves what is configured or is about to hear of it, as long as the channel
\* of its subscription is never full of events it does not reload for (notify's default
\* branch drops an event silently).
THEOREM NewsArrives == Spec /\ [](~Flooded) => []LoadedOrTold
<1>1. Init => Followed
  BY DEF Init, Followed
<1>2. Followed => LoadedOrTold
  BY DEF Followed, LoadedOrTold
<1> QED
  BY <1>1, <1>2, ToldStep, Invariance, PTL DEF Spec
=============================================================================
