----------------------------- MODULE ConfigSync -----------------------------
(***************************************************************************)
(* The configuration manager (internal/config/manager.go), the admin       *)
(* handlers that edit models and backends through it                       *)
(* (internal/domain/admin/handler.go, internal/repository/model.go and     *)
(* backend.go), and the hot reload that brings the edits to the load       *)
(* balancer (startBackgroundTasks in internal/server/server.go).           *)
(*                                                                         *)
(* cm.mu is a read-write mutex.  An edit holds it for writing from the     *)
(* copy it makes of the configuration to the moment the copy is saved and  *)
(* put in place; a handler reads what it edits earlier, under the same     *)
(* lock but in a critical section of its own.  The notification of an edit *)
(* is a goroutine: it comes later, in any order, and is dropped when the   *)
(* channel is full.                                                        *)
(***************************************************************************)
EXTENDS Naturals, Sequences, FiniteSets

CONSTANTS
  Admins,      \* concurrent admin requests
  Models,      \* model IDs
  Backends,    \* backend IDs
  None,        \* nobody, nothing
  Initial,     \* the configurations the process may start with
  Lists,       \* the lists of backends a new model may come with
  Capacity,    \* size of the channel of a subscriber (10 in the code)
  MaxEdits,    \* bound: admin requests in a behaviour
  MaxCrashes   \* bound: crashes in a behaviour

ASSUME CapacityAssumption == Capacity \in Nat \ {0}
ASSUME BoundsAssumption   == MaxEdits \in Nat /\ MaxCrashes \in Nat

\* What the properties tell apart of a model's and of a backend's settings.
Backend == [id : Backends, enabled : BOOLEAN]
Model   == [id : Models, enabled : BOOLEAN, backends : Seq(Backend)]

\* No two elements of a sequence of records have one ID.
Unique(s) == \A i, j \in DOMAIN s : s[i].id = s[j].id => i = j

WellFormed(c) ==
  c \in Seq(Model) /\ Unique(c) /\ \A i \in DOMAIN c : Unique(c[i].backends)

\* (A file that names an ID twice passes Validate; it is not what is modelled.)
ASSUME InitialAssumption == \A c \in Initial : WellFormed(c)
ASSUME ListsAssumption   == \A bs \in Lists : bs \in Seq(Backend)
ASSUME NobodyAssumption  == None \notin Admins

VARIABLES
  cfg,      \* cm.cfg: the configuration in memory (its models)
  file,     \* the configuration on disk
  writer,   \* who holds cm.mu for writing, or None
  next,     \* newCfg: the copy the writer is about to save and put in place
  pc,       \* where each admin request is
  edits,    \* what it still has to change, one updateAndNotify each
  telling,  \* how many notify goroutines of each type are about to run
  queue,    \* the channel the balancer's goroutine ranges over
  worker,   \* where that goroutine is
  fetched,  \* what its GetModels has returned
  loaded,   \* what the balancer was last reloaded with
  budget    \* admin requests and crashes to come

vars == <<cfg, file, writer, next, pc, edits, telling, queue, worker, fetched,
          loaded, budget>>

----------------------------------------------------------------------------
(* Looking into a configuration *)

Has(s, id) == \E i \in DOMAIN s : s[i].id = id

At(s, id) == CHOOSE i \in DOMAIN s : s[i].id = id

Get(s, id) == s[At(s, id)]

\* BackendStore.GetByID: the first model that lists the backend, or None.
Owner(c, b) ==
  LET owners == {i \in DOMAIN c : Has(c[i].backends, b)}
  IN  IF owners = {} THEN None
      ELSE c[CHOOSE i \in owners : \A j \in owners : i <= j].id

\* What the balancer makes of a configuration: the enabled backends of the
\* enabled models that have any.
Served(c) ==
  LET Up(x) == x.enabled
      Live(m) == [id |-> m.id, slots |-> SelectSeq(m.backends, Up)]
      on == SelectSeq(c, Up)
      all == [i \in DOMAIN on |-> Live(on[i])]
  IN  SelectSeq(all, LAMBDA m : m.slots # <<>>)

----------------------------------------------------------------------------
(* Edits: the functions given to updateAndNotify *)

\* The sequence without its element of that ID.
Without(s, id) ==
  [k \in 1..(Len(s) - 1) |-> IF k < At(s, id) THEN s[k] ELSE s[k + 1]]

\* An edit [kind, m, x]: m is a model ID, x what is written.
Edit(kind, m, x) == [kind |-> kind, m |-> m, x |-> x]

Kinds == {"addModel", "updateModel", "deleteModel",
          "addBackend", "updateBackend", "deleteBackend", "policies", "all"}

BackendsOf(c, m) == Get(c, m).backends

\* Mutant of Accepts: AddBackend does not look for a backend of that ID.
AcceptsTwice(c, e) ==
  CASE e.kind = "addModel" -> ~ Has(c, e.m)
    [] e.kind \in {"updateModel", "deleteModel", "addBackend"} -> Has(c, e.m)
    [] e.kind = "updateBackend" -> Has(c, e.m) /\ Has(BackendsOf(c, e.m), e.x.id)
    [] e.kind = "deleteBackend" -> Has(c, e.m) /\ Has(BackendsOf(c, e.m), e.x)
    [] OTHER -> TRUE

\* The edit function finds what it looks for and returns no error.
Accepts(c, e) ==
  CASE e.kind = "addModel" -> ~ Has(c, e.m)
    [] e.kind \in {"updateModel", "deleteModel"} -> Has(c, e.m)
    [] e.kind = "addBackend" -> Has(c, e.m) /\ ~ Has(BackendsOf(c, e.m), e.x.id)
    [] e.kind = "updateBackend" -> Has(c, e.m) /\ Has(BackendsOf(c, e.m), e.x.id)
    [] e.kind = "deleteBackend" -> Has(c, e.m) /\ Has(BackendsOf(c, e.m), e.x)
    [] OTHER -> TRUE

SetBackends(c, m, bs) == [c EXCEPT ![At(c, m)].backends = bs]

\* What the edit function makes of the copy.
Edited(c, e) ==
  CASE e.kind = "addModel"    -> Append(c, e.x)
    [] e.kind = "updateModel" -> [c EXCEPT ![At(c, e.m)] = e.x]
    [] e.kind = "deleteModel" -> Without(c, e.m)
    [] e.kind = "addBackend"  ->
         SetBackends(c, e.m, Append(BackendsOf(c, e.m), e.x))
    [] e.kind = "updateBackend" ->
         LET bs == BackendsOf(c, e.m)
         IN  SetBackends(c, e.m, [bs EXCEPT ![At(bs, e.x.id)] = e.x])
    [] e.kind = "deleteBackend" ->
         SetBackends(c, e.m, Without(BackendsOf(c, e.m), e.x))
    [] OTHER -> c

\* The type of the event the edit is announced by.
EventType(e) == IF e.kind \in {"policies", "all"} THEN e.kind ELSE "models"

EventTypes == {"models", "policies", "all"}

\* The events the balancer's goroutine reloads for.
Reloading == {"models", "all"}

----------------------------------------------------------------------------
Silence == [t \in EventTypes |-> 0]

Init ==
  /\ cfg \in Initial /\ file = cfg
  /\ writer  = None
  /\ next    = <<>>
  /\ pc      = [a \in Admins |-> "idle"]
  /\ edits   = [a \in Admins |-> <<>>]
  /\ telling = Silence
  /\ queue   = <<>>
  /\ worker  = "wait"
  /\ fetched = <<>>
  /\ loaded  = Served(cfg)
  /\ budget  = [edits |-> MaxEdits, crashes |-> MaxCrashes]

----------------------------------------------------------------------------
(* Admin handlers *)

\* A handler reads the configuration under the lock, then has work to do ...
Begin(a, stage, work) ==
  /\ pc[a] = "idle" /\ writer = None /\ budget.edits > 0
  /\ budget' = [budget EXCEPT !.edits = @ - 1]
  /\ pc'    = [pc EXCEPT ![a] = stage]
  /\ edits' = [edits EXCEPT ![a] = work]
  /\ UNCHANGED <<cfg, file, writer, next, telling, queue, worker, fetched, loaded>>

\* POST a model with some backends: one edit for each.
CreateModel(a, m, enabled, bs) ==
  LET model == [id |-> m, enabled |-> enabled, backends |-> <<>>]
  IN  Begin(a, "edit", <<Edit("addModel", m, model)>>
                 \o [i \in DOMAIN bs |-> Edit("addBackend", m, bs[i])])

\* PUT a model: the handler reads it; a setting that is not sent keeps the value
\* read here.
UpdateModel(a, m, enabled) ==
  /\ Has(cfg, m)
  /\ LET set == IF enabled = None THEN Get(cfg, m).enabled ELSE enabled
         model == [id |-> m, enabled |-> set, backends |-> <<>>]
     IN  Begin(a, "merge", <<Edit("updateModel", m, model)>>)

Finished(a) ==
  /\ pc'    = [pc EXCEPT ![a] = "idle"]
  /\ edits' = [edits EXCEPT ![a] = <<>>]

\* ModelStore.Update reads the model once more, for its backends; when it has gone
\* the update silently ends.
MergeBackends(a) ==
  /\ pc[a] = "merge" /\ writer = None
  /\ LET m == Head(edits[a]).m
     IN  IF Has(cfg, m)
         THEN /\ pc'    = [pc EXCEPT ![a] = "edit"]
              /\ edits' = [edits EXCEPT ![a][1].x.backends = BackendsOf(cfg, m)]
         ELSE Finished(a)
  /\ UNCHANGED <<cfg, file, writer, next, telling, queue, worker, fetched, loaded,
                 budget>>

DeleteModel(a, m) == Begin(a, "edit", <<Edit("deleteModel", m, None)>>)

CreateBackend(a, m, b) ==
  Has(cfg, m) /\ Begin(a, "edit", <<Edit("addBackend", m, b)>>)

\* PUT and DELETE of a backend look for its owner by the backend's ID alone; what
\* is not sent keeps the value read here.
UpdateBackend(a, b, enabled) ==
  /\ Owner(cfg, b) # None
  /\ LET m   == Owner(cfg, b)
         old == Get(BackendsOf(cfg, m), b)
         set == IF enabled = None THEN old.enabled ELSE enabled
     IN  Begin(a, "edit", <<Edit("updateBackend", m, [old EXCEPT !.enabled = set])>>)

DeleteBackend(a, b) ==
  /\ Owner(cfg, b) # None
  /\ Begin(a, "edit", <<Edit("deleteBackend", Owner(cfg, b), b)>>)

\* Edits of quota policies and of the system's settings leave the models alone.
SavePolicy(a)     == Begin(a, "edit", <<Edit("policies", None, None)>>)
UpdateSettings(a) == Begin(a, "edit", <<Edit("all", None, None)>>)

----------------------------------------------------------------------------
(* updateAndNotify *)

\* Mutant of Lock: the copy is put in place before it is saved.
LockApplying(a) ==
  /\ pc[a] = "edit" /\ writer = None
  /\ LET e == Head(edits[a])
     IN  IF Accepts(cfg, e)
         THEN /\ writer' = a /\ next' = Edited(cfg, e) /\ cfg' = next'
              /\ pc' = [pc EXCEPT ![a] = "save"]
              /\ UNCHANGED edits
         ELSE Finished(a) /\ UNCHANGED <<writer, next, cfg>>
  /\ UNCHANGED <<file, telling, queue, worker, fetched, loaded, budget>>

\* The writer takes the lock and edits a copy; an error ends the request, with the
\* edits it has made so far in place.
Lock(a) ==
  /\ pc[a] = "edit" /\ writer = None
  /\ LET e == Head(edits[a])
     IN  IF Accepts(cfg, e)
         THEN /\ writer' = a /\ next' = Edited(cfg, e)
              /\ pc' = [pc EXCEPT ![a] = "save"]
              /\ UNCHANGED edits
         ELSE Finished(a) /\ UNCHANGED <<writer, next>>
  /\ UNCHANGED <<cfg, file, telling, queue, worker, fetched, loaded, budget>>

\* The copy is written to a temporary file and renamed over the real one.
Save(a) ==
  /\ pc[a] = "save"
  /\ file' = next
  /\ pc' = [pc EXCEPT ![a] = "apply"]
  /\ UNCHANGED <<cfg, writer, next, edits, telling, queue, worker, fetched, loaded,
                 budget>>

\* Mutant of FailToSave: this return does not release the lock.
FailHoldingLock(a) ==
  /\ pc[a] = "save"
  /\ next' = <<>>
  /\ Finished(a)
  /\ UNCHANGED <<cfg, file, writer, telling, queue, worker, fetched, loaded, budget>>

\* The copy is invalid, or cannot be written or renamed: the request fails.
FailToSave(a) ==
  /\ pc[a] = "save"
  /\ writer' = None /\ next' = <<>>
  /\ Finished(a)
  /\ UNCHANGED <<cfg, file, telling, queue, worker, fetched, loaded, budget>>

\* Mutant of Apply: no goroutine is started to announce the edit.
ApplySilently(a) ==
  /\ pc[a] = "apply"
  /\ cfg' = next /\ next' = <<>> /\ writer' = None
  /\ LET rest == Tail(edits[a])
     IN  IF rest = <<>> THEN Finished(a)
         ELSE /\ pc'    = [pc EXCEPT ![a] = "edit"]
              /\ edits' = [edits EXCEPT ![a] = rest]
  /\ UNCHANGED <<file, telling, queue, worker, fetched, loaded, budget>>

\* The copy is put in place, its announcement started and the lock released.
Apply(a) ==
  /\ pc[a] = "apply"
  /\ cfg' = next /\ next' = <<>> /\ writer' = None
  /\ telling' = [telling EXCEPT ![EventType(Head(edits[a]))] = @ + 1]
  /\ LET rest == Tail(edits[a])
     IN  IF rest = <<>> THEN Finished(a)
         ELSE /\ pc'    = [pc EXCEPT ![a] = "edit"]
              /\ edits' = [edits EXCEPT ![a] = rest]
  /\ UNCHANGED <<file, queue, worker, fetched, loaded, budget>>

----------------------------------------------------------------------------
(* Notification and hot reload *)

\* notify sends without waiting: a full channel drops the event.
Notify(t) ==
  /\ telling[t] > 0
  /\ telling' = [telling EXCEPT ![t] = @ - 1]
  /\ queue' = IF Len(queue) < Capacity THEN Append(queue, t) ELSE queue
  /\ UNCHANGED <<cfg, file, writer, next, pc, edits, worker, fetched, loaded, budget>>

Receive ==
  /\ worker = "wait" /\ queue # <<>>
  /\ worker' = IF Head(queue) \in Reloading THEN "fetch" ELSE "wait"
  /\ queue' = Tail(queue)
  /\ UNCHANGED <<cfg, file, writer, next, pc, edits, telling, fetched, loaded, budget>>

\* GetModels copies the models, whatever they are by now.
GetModels ==
  /\ worker = "fetch" /\ writer = None
  /\ fetched' = cfg
  /\ worker' = "load"
  /\ UNCHANGED <<cfg, file, writer, next, pc, edits, telling, queue, loaded, budget>>

ReloadConfig ==
  /\ worker = "load"
  /\ loaded' = Served(fetched) /\ fetched' = <<>>
  /\ worker' = "wait"
  /\ UNCHANGED <<cfg, file, writer, next, pc, edits, telling, queue, budget>>

\* The process dies at any point and starts again from the file.
Crash ==
  /\ budget.crashes > 0
  /\ budget'  = [budget EXCEPT !.crashes = @ - 1]
  /\ cfg'     = file
  /\ loaded'  = Served(file)
  /\ writer'  = None /\ next' = <<>> /\ fetched' = <<>>
  /\ pc'      = [a \in Admins |-> "idle"]
  /\ edits'   = [a \in Admins |-> <<>>]
  /\ telling' = Silence /\ queue' = <<>> /\ worker' = "wait"
  /\ UNCHANGED file

----------------------------------------------------------------------------
(* Specification *)

Handle(a) ==
  \/ \E m \in Models, on \in BOOLEAN, bs \in Lists : CreateModel(a, m, on, bs)
  \/ \E m \in Models, on \in BOOLEAN \cup {None} : UpdateModel(a, m, on)
  \/ \E m \in Models : DeleteModel(a, m)
  \/ \E m \in Models, b \in Backend : CreateBackend(a, m, b)
  \/ \E b \in Backends, on \in BOOLEAN \cup {None} : UpdateBackend(a, b, on)
  \/ \E b \in Backends : DeleteBackend(a, b)
  \/ SavePolicy(a) \/ UpdateSettings(a)

Update(a) == Lock(a) \/ Save(a) \/ FailToSave(a) \/ Apply(a)

Next ==
  \/ \E a \in Admins : Handle(a) \/ MergeBackends(a) \/ Update(a)
  \/ \E t \in EventTypes : Notify(t)
  \/ Receive \/ GetModels \/ ReloadConfig \/ Crash

Spec == Init /\ [][Next]_vars

\* A goroutine that can run runs.  Mutexes are fair to those who wait for them, so
\* whoever wants cm.mu gets it; a send to the channel never blocks.
Fairness ==
  /\ \A a \in Admins : SF_vars(MergeBackends(a)) /\ SF_vars(Lock(a))
  /\ \A a \in Admins : WF_vars(Save(a) \/ FailToSave(a)) /\ WF_vars(Apply(a))
  /\ \A t \in EventTypes : WF_vars(Notify(t))
  /\ WF_vars(Receive) /\ SF_vars(GetModels) /\ WF_vars(ReloadConfig)

FairSpec == Spec /\ Fairness

----------------------------------------------------------------------------
(* Properties *)

Stages == {"idle", "merge", "edit", "save", "apply"}

\* Every variable has its type, and the lock is held by the request between its
\* edit and the end of it.
TypeOK ==
  /\ cfg \in Seq(Model) /\ file \in Seq(Model)
  /\ next \in Seq(Model) /\ fetched \in Seq(Model)
  /\ writer \in Admins \cup {None}
  /\ pc \in [Admins -> Stages]
  /\ telling \in [EventTypes -> Nat]
  /\ queue \in Seq(EventTypes) /\ Len(queue) <= Capacity
  /\ worker \in {"wait", "fetch", "load"}
  /\ \A a \in Admins : (writer = a) <=> pc[a] \in {"save", "apply"}
  /\ \A a \in Admins : pc[a] # "idle" <=> edits[a] # <<>>

\* No two models, and no two backends of a model, ever share an ID, in memory or
\* on disk: what the load balancer takes for granted.
UniqueIds == WellFormed(cfg) /\ WellFormed(file)

\* The file never lags behind the memory: what an admin was told is saved survives
\* a crash, and a save that fails leaves no trace in memory.
SavedFirst ==
  \/ file = cfg
  \/ \E a \in Admins : writer = a /\ pc[a] = "apply" /\ file = next

\* The balancer serves the configuration in memory, or news of a change is on its
\* way to it.
LoadedOrTold ==
  \/ loaded = Served(cfg)
  \/ \E t \in Reloading : telling[t] > 0
  \/ \E i \in DOMAIN queue : queue[i] \in Reloading
  \/ worker = "fetch"
  \/ worker = "load" /\ Served(fetched) = Served(cfg)

\* Hot reload: in the end the balancer serves what is configured.
HotReload == <>[](loaded = Served(cfg))

\* An admin request always ends.
RequestsEnd == \A a \in Admins : pc[a] # "idle" ~> pc[a] = "idle"

----------------------------------------------------------------------------
(* What a comment says, and the code does not do *)

\* "Get the existing configuration first, to keep the backends": updating a model
\* leaves its backends as they are.
UpdateKeepsBackends ==
  [][\A a \in Admins :
       pc[a] = "apply" /\ cfg' = next /\ Head(edits[a]).kind = "updateModel" =>
         LET m == Head(edits[a]).m
         IN  Has(cfg, m) => BackendsOf(cfg', m) = BackendsOf(cfg, m)]_vars
=============================================================================
