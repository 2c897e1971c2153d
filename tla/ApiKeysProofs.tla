--------------------------- MODULE ApiKeysProofs ---------------------------
(***************************************************************************)
(* Proofs about ApiKeys and Accounts, for any users, keys, sessions,       *)
(* orders and validations:                                                 *)
(*                                                                         *)
(*   - a key is only ever accepted for the user it was made for            *)
(*     (OwnersKept), although it is found by its first characters and the  *)
(*     cache is filled long after the database was read;                   *)
(*   - the rows of users are what was asked for (RowsAsAsked), although    *)
(*     Update writes back a whole row that it read before.                 *)
(*                                                                         *)
(* Both rest on IDs that are never given twice: what a handler or the      *)
(* cache remembers of a key or a user that is gone cannot be taken for     *)
(* another.                                                                *)
(***************************************************************************)
EXTENDS ApiKeys, TLAPS

(***************************************************************************)
(* The inductive invariant.                                                *)
(***************************************************************************)

\* What a session at a stage works on: an order of its own kind, for the user of its
\* token, with the row that this stage needs.
OpOf(stage) ==
  IF stage = "write" \/ stage = "clear" THEN "edit"
  ELSE IF stage = "erase" THEN "delete"
  ELSE IF stage = "droprow" THEN "dropkey" ELSE stage

Equipped(w) ==
  /\ w.at = "login" => w.of \in Users /\ w.row \in Row
  /\ w.at \notin {"idle", "login"} => w.of \in Users /\ w.order \in Orders /\ w.order.op = OpOf(w.at)
  /\ w.at \in {"password", "write"} => w.row \in Row

SessionsOK == \A s \in Sessions : Equipped(work[s])

\* No ID is given twice.
IdsUsed == DOMAIN users \subseteq born /\ DOMAIN keys \subseteq born

\* The owner of a key that was read is still its owner, if it has one.
OwnedBy(k, u) == k \in born /\ (k \in DOMAIN keys => keys[k] = u)

CacheOwners == \A x \in Prefixes : cached[x] # None => OwnedBy(cached[x].key, cached[x].owner)

\* What a validation has read is so, and what it goes on with it has read.
Informed(q) ==
  /\ q.at # "idle" => q.key \in Keys /\ q.key \in born
  /\ q.at \in {"hit", "owned", "checked", "accepted"} => q.owner \in Users /\ OwnedBy(q.key, q.owner)

RequestOwners == \A r \in Requests : Informed(request[r])

\* The rows agree but for the password.
Alike(row, old) == row.role = old.role /\ row.enabled = old.enabled

\* The row that a handler is to write is the one in the table, unless edits overlapped.
RowsFollow ==
  /\ DOMAIN asked = DOMAIN users
  /\ RowsAsAsked
  /\ \A s \in Sessions : work[s].at = "write" =>
       LET u == work[s].order.of IN
       /\ u \in born
       /\ u \notin mixed => Editors(u) = {s}
       /\ u \in DOMAIN users /\ u \notin mixed => Alike(work[s].row, users[u])

IInv == TypeOK /\ SessionsOK /\ IdsUsed /\ CacheOwners /\ RequestOwners /\ RowsFollow

(***************************************************************************)
(* The tables: partial functions, and what the statements do to them.      *)
(***************************************************************************)

\* A table has rows of the type, under IDs of the set.
LEMMA Partial ==
  ASSUME NEW S, NEW T, NEW f
  PROVE  f \in PartialFunctions(S, T) <=>
           /\ f = [i \in DOMAIN f |-> f[i]]
           /\ DOMAIN f \subseteq S
           /\ \A i \in DOMAIN f : f[i] \in T
<1>1. ASSUME f \in PartialFunctions(S, T)
      PROVE  f = [i \in DOMAIN f |-> f[i]] /\ DOMAIN f \subseteq S /\ \A i \in DOMAIN f : f[i] \in T
  <2>1. PICK D \in SUBSET S : f \in [D -> T]
    BY <1>1 DEF PartialFunctions
  <2> QED
    BY <2>1
<1>2. ASSUME f = [i \in DOMAIN f |-> f[i]], DOMAIN f \subseteq S, \A i \in DOMAIN f : f[i] \in T
      PROVE  f \in PartialFunctions(S, T)
  <2>1. f \in [DOMAIN f -> T]
    BY <1>2
  <2>2. DOMAIN f \in SUBSET S
    BY <1>2
  <2> QED
    BY <2>1, <2>2 DEF PartialFunctions
<1> QED
  BY <1>1, <1>2

\* Create adds one row.
LEMMA WithRow ==
  ASSUME NEW S, NEW T, NEW f \in PartialFunctions(S, T), NEW id \in S, NEW row \in T
  PROVE  /\ With(f, id, row) \in PartialFunctions(S, T)
         /\ DOMAIN With(f, id, row) = DOMAIN f \cup {id}
         /\ With(f, id, row)[id] = row
         /\ \A i \in DOMAIN f \ {id} : With(f, id, row)[i] = f[i]
<1> DEFINE g == With(f, id, row)
<1>1. DOMAIN f \subseteq S /\ \A i \in DOMAIN f : f[i] \in T
  BY Partial
<1>2. g = [i \in DOMAIN f \cup {id} |-> IF i = id THEN row ELSE f[i]]
  BY DEF With
<1>3. DOMAIN g = DOMAIN f \cup {id} /\ g[id] = row /\ \A i \in DOMAIN f \ {id} : g[i] = f[i]
  BY <1>2
<1>4. g = [i \in DOMAIN g |-> g[i]] /\ DOMAIN g \subseteq S /\ \A i \in DOMAIN g : g[i] \in T
  BY <1>1, <1>2
<1>5. g \in PartialFunctions(S, T)
  <2> HIDE DEF g
  <2> QED
    BY <1>4, Partial
<1> QED
  BY <1>3, <1>5

\* Delete takes rows away.
LEMMA WithoutRows ==
  ASSUME NEW S, NEW T, NEW f \in PartialFunctions(S, T), NEW ids
  PROVE  /\ Without(f, ids) \in PartialFunctions(S, T)
         /\ DOMAIN Without(f, ids) = DOMAIN f \ ids
<1> DEFINE g == Without(f, ids)
<1>1. DOMAIN f \subseteq S /\ \A i \in DOMAIN f : f[i] \in T
  BY Partial
<1>2. g = [i \in DOMAIN f \ ids |-> f[i]]
  BY DEF Without, Restrict
<1>3. DOMAIN g = DOMAIN f \ ids /\ \A i \in DOMAIN f \ ids : g[i] = f[i]
  BY <1>2
<1>4. g = [i \in DOMAIN g |-> g[i]] /\ DOMAIN g \subseteq S /\ \A i \in DOMAIN g : g[i] \in T
  BY <1>1, <1>2
<1>5. g \in PartialFunctions(S, T)
  <2> HIDE DEF g
  <2> QED
    BY <1>4, Partial
<1> QED
  BY <1>3, <1>5

LEMMA WithoutKeeps ==
  ASSUME NEW f, NEW ids, NEW i \in DOMAIN f \ ids
  PROVE  Without(f, ids)[i] = f[i]
BY DEF Without, Restrict

\* A statement replaces one row.
LEMMA NewRow ==
  ASSUME NEW S, NEW T, NEW f \in PartialFunctions(S, T), NEW id \in DOMAIN f, NEW row \in T
  PROVE  /\ [f EXCEPT ![id] = row] \in PartialFunctions(S, T)
         /\ DOMAIN [f EXCEPT ![id] = row] = DOMAIN f
         /\ [f EXCEPT ![id] = row][id] = row
         /\ \A i \in DOMAIN f \ {id} : [f EXCEPT ![id] = row][i] = f[i]
<1> DEFINE g == [f EXCEPT ![id] = row]
<1>1. /\ DOMAIN f \subseteq S
      /\ \A i \in DOMAIN f : f[i] \in T
      /\ f = [i \in DOMAIN f |-> f[i]]
  BY Partial
<1>3. DOMAIN g = DOMAIN f /\ g[id] = row /\ \A i \in DOMAIN f \ {id} : g[i] = f[i]
  BY <1>1
<1>4. g = [i \in DOMAIN g |-> g[i]] /\ DOMAIN g \subseteq S /\ \A i \in DOMAIN g : g[i] \in T
  BY <1>1
<1>5. g \in PartialFunctions(S, T)
  <2> HIDE DEF g
  <2> QED
    BY <1>4, Partial
<1> QED
  BY <1>3, <1>5

\* Two rows with the same columns are the same.
LEMMA SameRow ==
  ASSUME NEW row \in Row, NEW old \in Row, Alike(row, old), row.password = old.password
  PROVE  row = old
BY DEF Row, Alike

\* What Update of the handler makes of a row.
LEMMA ChangedRow ==
  ASSUME NEW row \in Row, NEW o \in Orders
  PROVE  /\ Changed(row, o) \in Row
         /\ Changed(row, o).password = row.password
         /\ Changed(row, o).role = Given(o.role, row.role)
         /\ Changed(row, o).enabled = Given(o.enabled, row.enabled)
<1>1. o.role \in Roles \cup {None} /\ o.enabled \in BOOLEAN \cup {None}
  BY OrdersAssumption
<1>2. row.role \in Roles /\ row.enabled \in BOOLEAN /\ row.password \in Passwords
  BY DEF Row
<1>3. Given(o.role, row.role) \in Roles /\ Given(o.enabled, row.enabled) \in BOOLEAN
  BY <1>1, <1>2 DEF Given
<1> DEFINE r == Given(o.role, row.role)
           b == Given(o.enabled, row.enabled)
<1>4. Changed(row, o) = [row EXCEPT !.role = r, !.enabled = b]
  BY DEF Changed, Row
<1>5. r \in Roles /\ b \in BOOLEAN
  BY <1>3
<1> HIDE DEF r, b
<1>6. /\ [row EXCEPT !.role = r, !.enabled = b] \in Row
      /\ [row EXCEPT !.role = r, !.enabled = b].password = row.password
      /\ [row EXCEPT !.role = r, !.enabled = b].role = r
      /\ [row EXCEPT !.role = r, !.enabled = b].enabled = b
  BY <1>5 DEF Row
<1>7. /\ Changed(row, o) \in Row
      /\ Changed(row, o).password = row.password
      /\ Changed(row, o).role = r
      /\ Changed(row, o).enabled = b
  BY <1>4, <1>6, Zenon
<1> QED
  BY <1>7, Zenon DEF r, b

\* What UserStore.Update leaves: the columns it was given, and the password.
LEMMA UpdatedRow ==
  ASSUME NEW f \in PartialFunctions(Users, Row), NEW u \in Users, NEW row \in Row
  PROVE  /\ Update(f, u, row) \in PartialFunctions(Users, Row)
         /\ DOMAIN Update(f, u, row) = DOMAIN f
         /\ \A v \in DOMAIN f \ {u} : Update(f, u, row)[v] = f[v]
         /\ u \in DOMAIN f => /\ Update(f, u, row)[u].password = f[u].password
                              /\ Alike(Update(f, u, row)[u], row)
<1>1. CASE u \notin DOMAIN f
  BY <1>1 DEF Update, UpdateAll
<1>2. CASE u \in DOMAIN f
  <2> DEFINE p == f[u].password
             r == [row EXCEPT !.password = p]
  <2>1. f[u] \in Row
    BY <1>2, Partial
  <2>2. p \in Passwords
    BY <2>1 DEF Row
  <2>3. Update(f, u, row) = [f EXCEPT ![u] = r]
    BY <1>2 DEF Update, UpdateAll
  <2>4. r \in Row /\ r.password = p /\ Alike(r, row)
    <3> HIDE DEF p
    <3> QED
      BY <2>2 DEF Row, Alike
  <2> HIDE DEF r
  <2>5. /\ [f EXCEPT ![u] = r] \in PartialFunctions(Users, Row)
        /\ DOMAIN [f EXCEPT ![u] = r] = DOMAIN f
        /\ [f EXCEPT ![u] = r][u] = r
        /\ \A i \in DOMAIN f \ {u} : [f EXCEPT ![u] = r][i] = f[i]
    BY <1>2, <2>4, NewRow
  <2> QED
    BY <2>3, <2>4, <2>5
<1> QED
  BY <1>1, <1>2

\* What UpdatePassword leaves.
LEMMA PasswordSet ==
  ASSUME NEW f \in PartialFunctions(Users, Row), NEW u \in Users, NEW p \in Passwords
  PROVE  /\ UpdatePassword(f, u, p) \in PartialFunctions(Users, Row)
         /\ DOMAIN UpdatePassword(f, u, p) = DOMAIN f
         /\ \A v \in DOMAIN f \ {u} : UpdatePassword(f, u, p)[v] = f[v]
         /\ u \in DOMAIN f => /\ UpdatePassword(f, u, p)[u].password = p
                              /\ Alike(UpdatePassword(f, u, p)[u], f[u])
<1>1. CASE u \notin DOMAIN f
  BY <1>1 DEF UpdatePassword
<1>2. CASE u \in DOMAIN f
  <2> DEFINE old == f[u]
             r   == [old EXCEPT !.password = p]
  <2>1. old \in Row
    BY <1>2, Partial
  <2>3. UpdatePassword(f, u, p) = [f EXCEPT ![u] = r]
    BY <1>2 DEF UpdatePassword
  <2>4. r \in Row /\ r.password = p /\ Alike(r, old)
    <3> HIDE DEF old
    <3> QED
      BY <2>1 DEF Row, Alike
  <2> HIDE DEF r
  <2>5. /\ [f EXCEPT ![u] = r] \in PartialFunctions(Users, Row)
        /\ DOMAIN [f EXCEPT ![u] = r] = DOMAIN f
        /\ [f EXCEPT ![u] = r][u] = r
        /\ \A i \in DOMAIN f \ {u} : [f EXCEPT ![u] = r][i] = f[i]
    BY <1>2, <2>4, NewRow
  <2> QED
    BY <2>3, <2>4, <2>5
<1> QED
  BY <1>1, <1>2

(***************************************************************************)
(* Sessions: a step of one of them.                                        *)
(***************************************************************************)

\* A session goes on to something it is equipped for.
LEMMA SessionStep ==
  ASSUME work \in [Sessions -> Work], SessionsOK,
         NEW s \in Sessions, NEW w \in Work, Equipped(w), work' = [work EXCEPT ![s] = w]
  PROVE  /\ work' \in [Sessions -> Work]
         /\ SessionsOK'
         /\ work'[s] = w
         /\ \A t \in Sessions \ {s} : work'[t] = work[t]
<1>1. work' \in [Sessions -> Work]
  BY DEF Work
<1>2. work'[s] = w /\ \A t \in Sessions \ {s} : work'[t] = work[t]
  OBVIOUS
<1>3. \A t \in Sessions : Equipped(work'[t])
  BY <1>2, Zenon DEF SessionsOK
<1> QED
  BY <1>1, <1>2, <1>3, Zenon DEF SessionsOK

\* An answer ends a request.
LEMMA AnswerStep ==
  ASSUME work \in [Sessions -> Work], SessionsOK, NEW s \in Sessions, Answer(s)
  PROVE  /\ work' \in [Sessions -> Work]
         /\ SessionsOK'
         /\ \A t \in Sessions : work'[t].at # "idle" => t # s /\ work'[t] = work[t]
<1>1. Idle \in Work /\ Idle.at = "idle"
  BY DEF Idle, Work, Stages
<1>2. Equipped(Idle)
  BY <1>1, Zenon DEF Equipped
<1>3. work' = [work EXCEPT ![s] = Idle]
  BY DEF Answer
<1>4. /\ work' \in [Sessions -> Work]
      /\ SessionsOK'
      /\ work'[s] = Idle
      /\ \A t \in Sessions \ {s} : work'[t] = work[t]
  BY <1>1, <1>2, <1>3, SessionStep, Zenon
<1> QED
  BY <1>1, <1>4, Zenon

\* A request goes on to its next stage, which its order is of.
LEMMA GotoStep ==
  ASSUME work \in [Sessions -> Work], SessionsOK, NEW s \in Sessions,
         NEW stage \in {"clear", "erase", "droprow"},
         work[s].at \notin {"idle", "login"}, OpOf(stage) = OpOf(work[s].at), Goto(s, stage)
  PROVE  /\ work' \in [Sessions -> Work]
         /\ SessionsOK'
         /\ work'[s].at = stage
         /\ \A t \in Sessions \ {s} : work'[t] = work[t]
<1> DEFINE v == work[s]
           w == [v EXCEPT !.at = stage]
<1>1. v \in Work /\ Equipped(v)
  BY DEF SessionsOK
<1>2. work' = [work EXCEPT ![s] = w]
  BY DEF Goto
<1>3. v.at \notin {"idle", "login"} /\ OpOf(stage) = OpOf(v.at)
  OBVIOUS
<1>4. w \in Work /\ w.at = stage /\ w.of = v.of /\ w.order = v.order
  <2> HIDE DEF v
  <2> QED
    BY <1>1 DEF Work, Stages
<1>5. Equipped(w)
  <2> HIDE DEF v, w
  <2> QED
    BY <1>1, <1>3, <1>4, Zenon DEF Equipped
<1> HIDE DEF w
<1> QED
  BY <1>2, <1>4, <1>5, SessionStep, Zenon

(***************************************************************************)
(* The rows of users, in steps that begin no edit.                         *)
(***************************************************************************)

\* A step keeps a row, or changes it and what was asked alike and, unless edits
\* overlapped, does not touch the columns that somebody is to write; or it makes
\* a row for an ID that was never given.
RowKept(u) ==
  /\ u \in DOMAIN users
  /\ users'[u].password = asked'[u].password
  /\ u \notin mixed => users'[u] = asked'[u]
  /\ \/ u \in mixed
     \/ Alike(users'[u], users[u])
     \/ \A t \in Sessions : ~(work'[t].at = "write" /\ work'[t].order.of = u)

RowMade(u) == u \notin born /\ users'[u] = asked'[u]

LEMMA RowsStep ==
  ASSUME RowsFollow, IdsUsed, born \subseteq born', mixed' = mixed,
         DOMAIN asked' = DOMAIN users',
         \A u \in DOMAIN users' : RowKept(u) \/ RowMade(u),
         \A t \in Sessions : work'[t].at = "write" => work'[t] = work[t]
  PROVE  RowsFollow'
<1>1. RowsAsAsked'
  BY DEF RowsAsAsked, RowKept, RowMade
<1>2. ASSUME NEW t \in Sessions, work'[t].at = "write", NEW u, u = work'[t].order.of
      PROVE  /\ u \in born'
             /\ u \notin mixed' => Editors(u)' = {t}
             /\ u \in DOMAIN users' /\ u \notin mixed' => Alike(work'[t].row, users'[u])
  <2>1. work'[t] = work[t] /\ u \in born /\ (u \notin mixed => Editors(u) = {t})
    BY <1>2, Zenon DEF RowsFollow
  <2>2. ASSUME u \notin mixed
        PROVE  Editors(u)' = {t}
    <3>1. Editors(u)' \subseteq Editors(u)
      BY DEF Editors
    <3>2. t \in Editors(u)'
      BY <1>2 DEF Editors
    <3> QED
      BY <2>1, <2>2, <3>1, <3>2
  <2>3. ASSUME u \in DOMAIN users', u \notin mixed
        PROVE  Alike(work'[t].row, users'[u])
    <3>1. RowKept(u)
      BY <2>1, <2>3, Zenon DEF RowMade
    <3>2. Alike(users'[u], users[u])
      BY <1>2, <2>3, <3>1, Zenon DEF RowKept
    <3>3. Alike(work[t].row, users[u])
      BY <1>2, <2>1, <2>3, <3>1, Zenon DEF RowsFollow, RowKept
    <3> QED
      BY <2>1, <3>2, <3>3, Zenon DEF Alike
  <2> QED
    BY <2>1, <2>2, <2>3
<1> QED
  BY <1>1, <1>2, Zenon DEF RowsFollow

\* A step that leaves the rows alone.
LEMMA RowsAlone ==
  ASSUME RowsFollow, IdsUsed, born \subseteq born',
         users' = users, asked' = asked, mixed' = mixed,
         \A t \in Sessions : work'[t].at = "write" => work'[t] = work[t]
  PROVE  RowsFollow'
<1>1. DOMAIN asked' = DOMAIN users'
  BY DEF RowsFollow
<1>2. ASSUME NEW u \in DOMAIN users'
      PROVE  RowKept(u)
  BY <1>2, Zenon DEF RowKept, RowsFollow, RowsAsAsked, Alike
<1> QED
  BY <1>1, <1>2, RowsStep, Zenon

(***************************************************************************)
(* The owners of keys.                                                     *)
(***************************************************************************)

\* A step keeps the owner of a key, or makes a key that was never given.
KeysKept ==
  /\ born \subseteq born'
  /\ \A k \in DOMAIN keys' : (k \in DOMAIN keys /\ keys'[k] = keys[k]) \/ k \notin born

LEMMA OwnerStays ==
  ASSUME KeysKept, NEW k, NEW u, OwnedBy(k, u)
  PROVE  OwnedBy(k, u)'
BY DEF KeysKept, OwnedBy

\* Entries leave the cache, or get older.
LEMMA CacheStep ==
  ASSUME CacheOwners, KeysKept,
         \A x \in Prefixes : \/ cached'[x] = None
                             \/ /\ cached[x] # None
                                /\ cached'[x].key = cached[x].key
                                /\ cached'[x].owner = cached[x].owner
  PROVE  CacheOwners'
<1>1. ASSUME NEW x \in Prefixes, cached'[x] # None
      PROVE  OwnedBy(cached[x].key, cached[x].owner)' /\ cached'[x].key = cached[x].key
             /\ cached'[x].owner = cached[x].owner
  BY <1>1, OwnerStays, Zenon DEF CacheOwners
<1> QED
  BY <1>1, Zenon DEF CacheOwners, OwnedBy

LEMMA RequestsAlone ==
  ASSUME RequestOwners, KeysKept, request' = request
  PROVE  RequestOwners'
<1>1. ASSUME NEW r \in Requests
      PROVE  /\ request[r].at # "idle" => request[r].key \in Keys /\ request[r].key \in born'
             /\ request[r].at \in {"hit", "owned", "checked", "accepted"} =>
                  request[r].owner \in Users /\ OwnedBy(request[r].key, request[r].owner)'
  BY <1>1, OwnerStays, Zenon DEF RequestOwners, Informed, KeysKept
<1> QED
  BY <1>1, Zenon DEF RequestOwners, Informed, OwnedBy

\* Entries are dropped.
LEMMA DropStep ==
  ASSUME cached \in [Prefixes -> Entry \cup {None}], NEW xs, cached' = Dropped(xs),
         CacheOwners, KeysKept
  PROVE  cached' \in [Prefixes -> Entry \cup {None}] /\ CacheOwners'
<1>1. cached' \in [Prefixes -> Entry \cup {None}]
  BY DEF Dropped
<1>2. \A x \in Prefixes : cached'[x] = None \/ (cached'[x] = cached[x] /\ cached[x] # None)
  BY DEF Dropped
<1> QED
  BY <1>1, <1>2, CacheStep, Zenon

LEMMA DeleteStep ==
  ASSUME cached \in [Prefixes -> Entry \cup {None}], NEW x \in Prefixes, cached' = DeleteAPIKey(x),
         CacheOwners, KeysKept
  PROVE  cached' \in [Prefixes -> Entry \cup {None}] /\ CacheOwners'
<1>1. cached' \in [Prefixes -> Entry \cup {None}]
  BY DEF DeleteAPIKey
<1>2. \A y \in Prefixes : cached'[y] = None \/ (cached'[y] = cached[y] /\ cached[y] # None)
  BY DEF DeleteAPIKey
<1> QED
  BY <1>1, <1>2, CacheStep, Zenon

(***************************************************************************)
(* Steps that leave the tables alone, and steps that do not.               *)
(***************************************************************************)

LEMMA QuietStep ==
  ASSUME IInv,
         users' = users, keys' = keys, lapsed' \in SUBSET Keys,
         born' = born, asked' = asked, mixed' = mixed,
         cached'  \in [Prefixes -> Entry \cup {None}], CacheOwners',
         token'   \in [Sessions -> Token \cup {None}],
         work'    \in [Sessions -> Work], SessionsOK',
         \A t \in Sessions : work'[t].at = "write" => work'[t] = work[t],
         request' \in [Requests -> Request], RequestOwners'
  PROVE  IInv'
<1>1. TypeOK'
  BY DEF IInv, TypeOK, StoreTypeOK, AccountsTypeOK
<1>2. IdsUsed'
  BY DEF IInv, IdsUsed
<1>3. RowsFollow'
  BY RowsAlone DEF IInv
<1> QED
  BY <1>1, <1>2, <1>3 DEF IInv

LEMMA TableStep ==
  ASSUME IInv, KeysKept, IdsUsed', RowsFollow',
         users' \in PartialFunctions(Users, Row), asked' \in PartialFunctions(Users, Row),
         keys'  \in PartialFunctions(Keys, Users), born' \subseteq Users \cup Keys,
         work'  \in [Sessions -> Work], SessionsOK',
         lapsed' = lapsed, cached' = cached, token' = token, mixed' = mixed, request' = request
  PROVE  IInv'
<1>1. TypeOK'
  BY DEF IInv, TypeOK, StoreTypeOK, AccountsTypeOK
<1>2. CacheOwners'
  BY CacheStep DEF IInv, CacheOwners
<1>3. RequestOwners'
  BY RequestsAlone DEF IInv
<1> QED
  BY <1>1, <1>2, <1>3 DEF IInv

\* Nothing happens to the owners of keys when nothing happens to the keys.
LEMMA KeysAlone ==
  ASSUME keys' = keys, born' = born
  PROVE  KeysKept
BY DEF KeysKept

(***************************************************************************)
(* Each action.                                                            *)
(***************************************************************************)

LEMMA Fields ==
  ASSUME IInv
  PROVE  /\ users \in PartialFunctions(Users, Row) /\ asked \in PartialFunctions(Users, Row)
         /\ keys \in PartialFunctions(Keys, Users)
         /\ lapsed \in SUBSET Keys
         /\ cached \in [Prefixes -> Entry \cup {None}]
         /\ token \in [Sessions -> Token \cup {None}]
         /\ work \in [Sessions -> Work]
         /\ request \in [Requests -> Request]
         /\ born \subseteq Users \cup Keys /\ mixed \subseteq Users
         /\ SessionsOK /\ IdsUsed /\ CacheOwners /\ RequestOwners /\ RowsFollow
BY DEF IInv, TypeOK, StoreTypeOK, AccountsTypeOK

LEMMA AgesInd ==
  ASSUME IInv, NEW s \in Sessions, Ages(s), request' = request
  PROVE  IInv'
<1> DEFINE t == token[s]
<1>1. token \in [Sessions -> Token \cup {None}]
  BY Fields
<1>2. t \in Token /\ t.age < TokenLife
  BY <1>1 DEF Ages, Valid
<1>3. [t EXCEPT !.age = @ + 1] \in Token
  <2> HIDE DEF t
  <2> QED
    BY <1>2, TokenAssumption DEF Token
<1>4. token' \in [Sessions -> Token \cup {None}]
  BY <1>1, <1>3 DEF Ages
<1>5. /\ users' = users /\ keys' = keys /\ lapsed' = lapsed /\ cached' = cached
      /\ work' = work /\ born' = born /\ asked' = asked /\ mixed' = mixed
  BY DEF Ages, storeVars
<1>6. CacheOwners' /\ SessionsOK' /\ RequestOwners'
  BY <1>5, Fields, KeysAlone, RequestsAlone DEF CacheOwners, SessionsOK, OwnedBy
<1> QED
  BY <1>4, <1>5, <1>6, Fields, QuietStep

\* Only sessions and tokens change.
LEMMA SessionOnly ==
  ASSUME IInv, storeVars' = storeVars, born' = born, asked' = asked, mixed' = mixed,
         request' = request,
         token' \in [Sessions -> Token \cup {None}],
         work'  \in [Sessions -> Work], SessionsOK',
         \A t \in Sessions : work'[t].at = "write" => work'[t] = work[t]
  PROVE  IInv'
<1>1. users' = users /\ keys' = keys /\ lapsed' = lapsed /\ cached' = cached
  BY DEF storeVars
<1>2. CacheOwners' /\ RequestOwners'
  BY <1>1, Fields, KeysAlone, RequestsAlone DEF CacheOwners, OwnedBy
<1> QED
  BY <1>1, <1>2, Fields, QuietStep

\* Rows that are read are rows.
LEMMA RowRead ==
  ASSUME IInv, NEW u, Exists(u)
  PROVE  u \in Users /\ users[u] \in Row
BY Fields, Partial DEF Exists

LEMMA LoginReadsInd ==
  ASSUME IInv, NEW s \in Sessions, NEW u \in Users, LoginReads(s, u), request' = request
  PROVE  IInv'
<1> DEFINE row == users[u]
           w   == [Idle EXCEPT !.at = "login", !.of = u, !.row = row]
<1>1. row \in Row
  BY RowRead DEF LoginReads, Enabled
<1>2. w \in Work /\ w.at = "login" /\ w.of = u /\ w.row = row
  <2> HIDE DEF row
  <2> QED
    BY <1>1 DEF Idle, Work, Stages
<1>3. work' = [work EXCEPT ![s] = w]
  BY DEF LoginReads
<1> HIDE DEF w, row
<1>4. Equipped(w)
  BY <1>1, <1>2, Zenon DEF Equipped
<1>5. /\ work' \in [Sessions -> Work] /\ SessionsOK' /\ work'[s] = w
      /\ \A t \in Sessions \ {s} : work'[t] = work[t]
  BY <1>2, <1>3, <1>4, Fields, SessionStep
<1>6. \A t \in Sessions : work'[t].at = "write" => work'[t] = work[t]
  BY <1>2, <1>5
<1>7. /\ storeVars' = storeVars /\ born' = born /\ asked' = asked /\ mixed' = mixed /\ token' = token
  BY DEF LoginReads, storeVars
<1> QED
  BY <1>5, <1>6, <1>7, Fields, SessionOnly

LEMMA LoginAnswersInd ==
  ASSUME IInv, NEW s \in Sessions, LoginAnswers(s), request' = request
  PROVE  IInv'
<1> DEFINE v == work[s]
           t == Generate(v.of, v.row)
<1>1. v.of \in Users /\ v.row \in Row
  BY Fields, Zenon DEF LoginAnswers, SessionsOK, Equipped
<1>2. t \in Token
  <2> HIDE DEF v
  <2> QED
    BY <1>1, TokenAssumption DEF Generate, Token, Row
<1>3. token' \in [Sessions -> Token \cup {None}]
  BY <1>2, Fields DEF LoginAnswers
<1>4. /\ work' \in [Sessions -> Work] /\ SessionsOK'
      /\ \A x \in Sessions : work'[x].at # "idle" => x # s /\ work'[x] = work[x]
  BY Fields, AnswerStep DEF LoginAnswers
<1>5. \A x \in Sessions : work'[x].at = "write" => work'[x] = work[x]
  BY <1>4
<1>6. storeVars' = storeVars /\ born' = born /\ asked' = asked /\ mixed' = mixed
  BY DEF LoginAnswers, storeVars
<1> QED
  BY <1>3, <1>4, <1>5, <1>6, Fields, SessionOnly

LEMMA AuthorisedInd ==
  ASSUME IInv, NEW s \in Sessions, NEW o \in Orders, Authorised(s, o), request' = request
  PROVE  IInv'
<1> DEFINE t   == token[s]
           row == FullUser(t.of, o)
           w   == [at |-> o.op, of |-> t.of, role |-> t.role, row |-> row, order |-> o]
           r   == Renewed(t, users[t.of])
<1>1. t \in Token /\ users[t.of] \in Row
  <2>1. t \in Token
    BY Fields DEF Authorised, Valid
  <2>2. users[t.of] \in Row
    BY RowRead DEF Authorised, Enabled
  <2> QED
    BY <2>1, <2>2
<1>2. o.op \in Ops
  BY OrdersAssumption
<1>3. row \in Row \cup {None} /\ (o.op = "password" => row \in Row)
  BY <1>1 DEF FullUser
<1>4. r \in Token
  <2> DEFINE old == users[t.of]
  <2>1. t.of \in Users /\ old.role \in Roles
    BY <1>1 DEF Token, Row
  <2>2. [of |-> t.of, role |-> old.role, age |-> 0] \in Token
    <3> HIDE DEF old, t
    <3> QED
      BY <2>1, TokenAssumption DEF Token
  <2> QED
    BY <2>2 DEF Renewed, Generate
<1>5. work' = [work EXCEPT ![s] = w] /\ token' \in {token, [token EXCEPT ![s] = r]}
  BY DEF Authorised
<1>6. w \in Work /\ w.at = o.op /\ w.of \in Users /\ w.row = row /\ w.order = o
  <2> HIDE DEF row
  <2>1. t.of \in Users /\ t.role \in Roles
    BY <1>1 DEF Token
  <2> HIDE DEF t
  <2> QED
    BY <1>2, <1>3, <2>1 DEF Work, Stages
<1>7. token' \in [Sessions -> Token \cup {None}]
  <2> HIDE DEF r
  <2> QED
    BY <1>4, <1>5, Fields
<1> HIDE DEF w, row
<1>8. Equipped(w)
  BY <1>2, <1>3, <1>6 DEF Equipped, OpOf, Ops
<1>9. /\ work' \in [Sessions -> Work] /\ SessionsOK' /\ work'[s] = w
      /\ \A x \in Sessions \ {s} : work'[x] = work[x]
  BY <1>5, <1>6, <1>8, Fields, SessionStep
<1>10. \A x \in Sessions : work'[x].at = "write" => work'[x] = work[x]
  BY <1>2, <1>6, <1>9 DEF Ops
<1>11. storeVars' = storeVars /\ born' = born /\ asked' = asked /\ mixed' = mixed
  BY DEF Authorised, storeVars
<1> QED
  BY <1>7, <1>9, <1>10, <1>11, SessionOnly

LEMMA ReadsInd ==
  ASSUME IInv, NEW s \in Sessions, Reads(s), request' = request
  PROVE  IInv'
<1>1. /\ work' \in [Sessions -> Work] /\ SessionsOK'
      /\ \A x \in Sessions : work'[x].at # "idle" => x # s /\ work'[x] = work[x]
  BY Fields, AnswerStep DEF Reads
<1>2. \A x \in Sessions : work'[x].at = "write" => work'[x] = work[x]
  BY <1>1
<1>3. /\ storeVars' = storeVars /\ born' = born /\ asked' = asked /\ mixed' = mixed
      /\ token' = token
  BY DEF Reads, storeVars
<1> QED
  BY <1>1, <1>2, <1>3, Fields, SessionOnly

\* A second edit of a user, begun while another holds the row, is noted: from
\* then on the row need not be the one that either is to write.
LEMMA EditReadsInd ==
  ASSUME IInv, NEW s \in Sessions, EditReads(s), request' = request
  PROVE  IInv'
<1> DEFINE v == work[s]
           u == v.order.of
<1>1. /\ storeVars' = storeVars /\ token' = token /\ born' = born /\ asked' = asked
      /\ users' = users /\ keys' = keys /\ lapsed' = lapsed /\ cached' = cached
  BY DEF EditReads, storeVars
<1>2. CASE ~Exists(u)
  <2>1. Answer(s) /\ mixed' = mixed
    BY <1>2 DEF EditReads
  <2>2. /\ work' \in [Sessions -> Work] /\ SessionsOK'
        /\ \A x \in Sessions : work'[x].at # "idle" => x # s /\ work'[x] = work[x]
    BY <2>1, Fields, AnswerStep
  <2>3. \A x \in Sessions : work'[x].at = "write" => work'[x] = work[x]
    BY <2>2
  <2> QED
    BY <1>1, <2>1, <2>2, <2>3, Fields, SessionOnly
<1>3. CASE Exists(u)
  <2> DEFINE row == users[u]
             w   == [v EXCEPT !.at = "write", !.row = row]
  <2>1. u \in Users /\ row \in Row
    BY <1>3, RowRead
  <2>2. v.at = "edit" /\ v \in Work /\ v.of \in Users /\ v.order \in Orders /\ v.order.op = "edit"
    <3>1. v.at = "edit"
      BY DEF EditReads
    <3>2. OpOf("edit") = "edit"
      BY DEF OpOf
    <3> QED
      BY <3>1, <3>2, Fields, Zenon DEF SessionsOK, Equipped
  <2>3. /\ w \in Work /\ w.at = "write" /\ w.row = row /\ w.of = v.of /\ w.order = v.order
    <3> HIDE DEF row, v
    <3> QED
      BY <2>1, <2>2 DEF Work, Stages
  <2>4. /\ work' = [work EXCEPT ![s] = w]
        /\ mixed' = IF Editors(u) # {} THEN mixed \cup {u} ELSE mixed
    BY <1>3 DEF EditReads
  <2>5. Equipped(w)
    <3> HIDE DEF w, row, v
    <3> QED
      BY <2>1, <2>2, <2>3 DEF Equipped, OpOf
  <2> HIDE DEF w
  <2>6. /\ work' \in [Sessions -> Work] /\ SessionsOK' /\ work'[s] = w
        /\ \A x \in Sessions \ {s} : work'[x] = work[x]
    BY <2>3, <2>4, <2>5, Fields, SessionStep
  <2>7. mixed \subseteq mixed' /\ mixed' \subseteq Users /\ (u \notin mixed' => Editors(u) = {})
    BY <2>1, <2>4, Fields
  <2>8. /\ work'[s].at = "write" /\ work'[s].order.of = u /\ work'[s].row = users[u]
    BY <2>3, <2>6
  <2>9. ASSUME NEW t \in Sessions, work'[t].at = "write", NEW x, x = work'[t].order.of
        PROVE  /\ x \in born
               /\ x \notin mixed' => Editors(x)' = {t}
               /\ x \in DOMAIN users /\ x \notin mixed' => Alike(work'[t].row, users[x])
    <3>1. CASE t = s
      <4>1. x = u /\ x \in born
        BY <1>3, <2>8, <2>9, <3>1, Fields DEF Exists, IdsUsed
      <4>2. x \notin mixed' => Editors(x)' = {t}
        BY <2>6, <2>7, <2>8, <3>1, <4>1 DEF Editors
      <4> QED
        BY <2>8, <3>1, <4>1, <4>2, Zenon DEF Alike
    <3>2. CASE t # s
      <4>1. work'[t] = work[t]
        BY <2>6, <3>2
      <4>2. /\ x \in born
            /\ x \notin mixed => Editors(x) = {t}
            /\ x \in DOMAIN users /\ x \notin mixed => Alike(work[t].row, users[x])
        BY <2>9, <4>1, Fields, Zenon DEF RowsFollow
      <4>3. t \in Editors(x)
        BY <2>9, <4>1 DEF Editors
      <4>4. x = u => x \in mixed'
        BY <2>7, <4>3
      <4>5. x # u => Editors(x)' = Editors(x)
        <5> HIDE DEF u
        <5>1. v.at # "write"
          BY <2>2
        <5> QED
          BY <2>6, <2>8, <5>1 DEF Editors
      <4>6. x \notin mixed' => x # u /\ x \notin mixed
        BY <2>7, <4>4
      <4> QED
        BY <4>1, <4>2, <4>5, <4>6, Zenon
    <3> QED
      BY <3>1, <3>2
  <2>10. RowsAsAsked'
    BY <1>1, <2>7, Fields DEF RowsFollow, RowsAsAsked
  <2>11. RowsFollow'
    <3>1. DOMAIN asked' = DOMAIN users'
      BY <1>1, Fields DEF RowsFollow
    <3> QED
      BY <1>1, <2>9, <2>10, <3>1, Zenon DEF RowsFollow
  <2>12. TypeOK'
    BY <1>1, <2>6, <2>7, Fields DEF TypeOK, StoreTypeOK, AccountsTypeOK
  <2>13. CacheOwners' /\ RequestOwners' /\ IdsUsed'
    BY <1>1, Fields, KeysAlone, RequestsAlone DEF CacheOwners, OwnedBy, IdsUsed
  <2> QED
    BY <2>6, <2>11, <2>12, <2>13 DEF IInv
<1> QED
  BY <1>2, <1>3

\* The row that is written is the one that was read, but for the order and the
\* password; without overlapping edits it is still the one in the table.
LEMMA EditWritesInd ==
  ASSUME IInv, NEW s \in Sessions, EditWrites(s), request' = request
  PROVE  IInv'
<1> DEFINE v   == work[s]
           o   == v.order
           u   == o.of
           new == Changed(v.row, o)
<1>1. v.at = "write" /\ v.row \in Row /\ o \in Orders
  BY Fields, Zenon DEF EditWrites, SessionsOK, Equipped
<1>2. u \in Users
  BY <1>1, OrdersAssumption
<1>3. new \in Row /\ new.role = Given(o.role, v.row.role) /\ new.enabled = Given(o.enabled, v.row.enabled)
  BY <1>1, ChangedRow
<1>4. /\ users' = Update(users, u, new)
      /\ asked' = IF Exists(u) THEN [asked EXCEPT ![u] = Changed(asked[u], o)] ELSE asked
      /\ IF o.enabled = FALSE THEN Goto(s, "clear") ELSE Answer(s)
      /\ keys' = keys /\ lapsed' = lapsed /\ cached' = cached /\ token' = token
      /\ born' = born /\ mixed' = mixed
  BY DEF EditWrites
<1>5. /\ users' \in PartialFunctions(Users, Row) /\ DOMAIN users' = DOMAIN users
      /\ \A x \in DOMAIN users \ {u} : users'[x] = users[x]
      /\ u \in DOMAIN users => users'[u].password = users[u].password /\ Alike(users'[u], new)
  <2> HIDE DEF new, u
  <2> QED
    BY <1>2, <1>3, <1>4, Fields, UpdatedRow
<1>6. DOMAIN asked = DOMAIN users /\ RowsAsAsked
  BY Fields DEF RowsFollow
<1>7. /\ asked' \in PartialFunctions(Users, Row) /\ DOMAIN asked' = DOMAIN asked
      /\ \A x \in DOMAIN asked \ {u} : asked'[x] = asked[x]
      /\ u \in DOMAIN users => asked'[u] = Changed(asked[u], o)
  <2>1. CASE ~Exists(u)
    BY <1>4, <2>1, Fields DEF Exists
  <2>2. CASE Exists(u)
    <3> DEFINE r == Changed(asked[u], o)
    <3>1. u \in DOMAIN asked /\ asked[u] \in Row
      BY <1>6, <2>2, Fields, Partial DEF Exists
    <3>2. r \in Row
      BY <1>1, <3>1, ChangedRow
    <3>3. asked' = [asked EXCEPT ![u] = r]
      BY <1>4, <2>2
    <3> HIDE DEF r, u
    <3>4. /\ [asked EXCEPT ![u] = r] \in PartialFunctions(Users, Row)
          /\ DOMAIN [asked EXCEPT ![u] = r] = DOMAIN asked
          /\ [asked EXCEPT ![u] = r][u] = r
          /\ \A i \in DOMAIN asked \ {u} : [asked EXCEPT ![u] = r][i] = asked[i]
      BY <3>1, <3>2, Fields, NewRow
    <3>5. /\ asked' \in PartialFunctions(Users, Row) /\ DOMAIN asked' = DOMAIN asked
          /\ \A x \in DOMAIN asked \ {u} : asked'[x] = asked[x]
          /\ asked'[u] = r
      BY <3>3, <3>4, Zenon
    <3> QED
      BY <3>5 DEF r
  <2> QED
    BY <2>1, <2>2
<1>8. /\ work' \in [Sessions -> Work] /\ SessionsOK' /\ work'[s].at # "write"
      /\ \A x \in Sessions \ {s} : work'[x] = work[x]
  <2>1. CASE o.enabled = FALSE
    <3>1. Goto(s, "clear")
      BY <1>4, <2>1
    <3>2. OpOf("clear") = OpOf(v.at)
      BY <1>1 DEF OpOf
    <3> QED
      BY <1>1, <3>1, <3>2, Fields, GotoStep
  <2>2. CASE o.enabled # FALSE
    <3>1. Answer(s)
      BY <1>4, <2>2
    <3>2. /\ work' \in [Sessions -> Work] /\ SessionsOK'
          /\ \A x \in Sessions : work'[x].at # "idle" => x # s /\ work'[x] = work[x]
      BY <3>1, Fields, AnswerStep
    <3>3. work' = [work EXCEPT ![s] = Idle]
      BY <3>1 DEF Answer
    <3> QED
      BY <3>2, <3>3, Fields
  <2> QED
    BY <2>1, <2>2
<1>9. /\ u \in born
      /\ u \notin mixed => Editors(u) = {s}
      /\ u \in DOMAIN users /\ u \notin mixed => Alike(v.row, users[u])
  BY <1>1, Fields, Zenon DEF RowsFollow
<1>10. ASSUME u \in DOMAIN users
       PROVE  RowKept(u)
  <2>1. asked[u] \in Row /\ users'[u] \in Row /\ asked'[u] = Changed(asked[u], o)
    BY <1>5, <1>6, <1>7, <1>10, Fields, Partial
  <2>2. /\ asked'[u] \in Row
        /\ asked'[u].password = asked[u].password
        /\ asked'[u].role = Given(o.role, asked[u].role)
        /\ asked'[u].enabled = Given(o.enabled, asked[u].enabled)
    <3> HIDE DEF u, o
    <3> QED
      BY <1>1, <2>1, ChangedRow
  <2>3. users'[u].password = asked'[u].password
    BY <1>5, <1>6, <1>10, <2>2 DEF RowsAsAsked
  <2>4. ASSUME u \notin mixed
        PROVE  users'[u] = asked'[u]
    <3>1. users[u] = asked[u]
      BY <1>6, <1>10, <2>4, Zenon DEF RowsAsAsked
    <3>2. v.row.role = asked[u].role /\ v.row.enabled = asked[u].enabled
      BY <1>9, <1>10, <2>4, <3>1, Zenon DEF Alike
    <3>3. users'[u].role = new.role /\ users'[u].enabled = new.enabled
      BY <1>5, <1>10, Zenon DEF Alike
    <3>4. Alike(users'[u], asked'[u])
      BY <1>3, <2>2, <3>2, <3>3, Zenon DEF Alike
    <3> QED
      BY <2>1, <2>2, <2>3, <3>4, SameRow, Zenon
  <2>5. ASSUME u \notin mixed, NEW t \in Sessions, work'[t].at = "write", work'[t].order.of = u
        PROVE  FALSE
    <3>1. t # s /\ work'[t] = work[t]
      BY <1>8, <2>5
    <3>2. t \in Editors(u)
      BY <2>5, <3>1 DEF Editors
    <3> QED
      BY <1>9, <2>5, <3>1, <3>2
  <2> QED
    BY <1>10, <2>3, <2>4, <2>5, Zenon DEF RowKept
<1>11. ASSUME NEW x \in DOMAIN users', x # u
       PROVE  RowKept(x)
  <2>1. users'[x] = users[x] /\ asked'[x] = asked[x] /\ x \in DOMAIN users
    BY <1>5, <1>6, <1>7, <1>11
  <2> QED
    BY <1>6, <2>1, Zenon DEF RowKept, RowsAsAsked, Alike
<1>12. \A x \in DOMAIN users' : RowKept(x)
  BY <1>5, <1>10, <1>11
<1>13. \A t \in Sessions : work'[t].at = "write" => work'[t] = work[t]
  BY <1>8
<1>14. RowsFollow'
  BY <1>4, <1>5, <1>6, <1>7, <1>12, <1>13, Fields, RowsStep
<1>15. IdsUsed'
  BY <1>4, <1>5, Fields DEF IdsUsed
<1> QED
  BY <1>4, <1>5, <1>7, <1>8, <1>14, <1>15, Fields, KeysAlone, TableStep

\* Whoever answers writes no row any more.
LEMMA Answered ==
  ASSUME IInv, NEW s \in Sessions, Answer(s)
  PROVE  /\ work' \in [Sessions -> Work] /\ SessionsOK'
         /\ \A t \in Sessions : work'[t].at = "write" => work'[t] = work[t]
<1>1. /\ work' \in [Sessions -> Work] /\ SessionsOK'
      /\ \A x \in Sessions : work'[x].at # "idle" => x # s /\ work'[x] = work[x]
  BY Fields, AnswerStep
<1> QED
  BY <1>1

\* Whoever goes on to a stage other than that writes no row either.
LEMMA WentOn ==
  ASSUME IInv, NEW s \in Sessions, NEW stage \in {"clear", "erase", "droprow"},
         work[s].at \notin {"idle", "login"}, OpOf(stage) = OpOf(work[s].at), Goto(s, stage)
  PROVE  /\ work' \in [Sessions -> Work] /\ SessionsOK'
         /\ \A t \in Sessions : work'[t].at = "write" => work'[t] = work[t]
<1>1. /\ work' \in [Sessions -> Work] /\ SessionsOK' /\ work'[s].at = stage
      /\ \A t \in Sessions \ {s} : work'[t] = work[t]
  BY Fields, GotoStep
<1> QED
  BY <1>1

\* A step of a session on the cache.
LEMMA ClearStep ==
  ASSUME IInv, NEW xs, cached' = Dropped(xs),
         users' = users, keys' = keys, lapsed' = lapsed, token' = token,
         born' = born, asked' = asked, mixed' = mixed, request' = request,
         work' \in [Sessions -> Work], SessionsOK',
         \A t \in Sessions : work'[t].at = "write" => work'[t] = work[t]
  PROVE  IInv'
<1>1. KeysKept
  BY KeysAlone
<1>2. cached' \in [Prefixes -> Entry \cup {None}] /\ CacheOwners'
  BY <1>1, Fields, DropStep
<1>3. RequestOwners'
  BY <1>1, Fields, RequestsAlone
<1> QED
  BY <1>2, <1>3, Fields, QuietStep

LEMMA EditClearsInd ==
  ASSUME IInv, NEW s \in Sessions, EditClears(s), request' = request
  PROVE  IInv'
<1>1. PICK xs : cached' = Dropped(xs)
  BY DEF EditClears, DeleteAPIKeysByUser
<1>2. Answer(s)
  BY DEF EditClears
<1> QED
  BY <1>1, <1>2, Answered, ClearStep DEF EditClears

LEMMA DeleteClearsInd ==
  ASSUME IInv, NEW s \in Sessions, DeleteClears(s), request' = request
  PROVE  IInv'
<1>1. PICK xs : cached' = Dropped(xs)
  BY DEF DeleteClears, DeleteAPIKeysByUser
<1>2. Goto(s, "erase") /\ work[s].at = "delete"
  BY DEF DeleteClears
<1>3. OpOf("erase") = OpOf("delete")
  BY DEF OpOf
<1>4. /\ work' \in [Sessions -> Work] /\ SessionsOK'
      /\ \A t \in Sessions : work'[t].at = "write" => work'[t] = work[t]
  BY <1>2, <1>3, WentOn
<1> QED
  BY <1>1, <1>4, ClearStep DEF DeleteClears

\* The rows that stay when one is deleted are as they were.
LEMMA ErasesInd ==
  ASSUME IInv, NEW s \in Sessions, Erases(s), request' = request
  PROVE  IInv'
<1>1. PICK u, gone :
      /\ users' = Without(users, {u}) /\ asked' = Without(asked, {u})
      /\ keys' \in {keys, Without(keys, gone)} /\ Answer(s)
      /\ lapsed' = lapsed /\ cached' = cached /\ token' = token /\ born' = born /\ mixed' = mixed
  BY Zenon DEF Erases
<1>2. /\ users' \in PartialFunctions(Users, Row) /\ DOMAIN users' = DOMAIN users \ {u}
      /\ \A x \in DOMAIN users \ {u} : users'[x] = users[x]
      /\ asked' \in PartialFunctions(Users, Row) /\ DOMAIN asked' = DOMAIN asked \ {u}
      /\ \A x \in DOMAIN asked \ {u} : asked'[x] = asked[x]
  <2>1. users \in PartialFunctions(Users, Row) /\ asked \in PartialFunctions(Users, Row)
    BY Fields
  <2>2. /\ Without(users, {u}) \in PartialFunctions(Users, Row)
        /\ DOMAIN Without(users, {u}) = DOMAIN users \ {u}
    BY <2>1, WithoutRows
  <2>3. /\ Without(asked, {u}) \in PartialFunctions(Users, Row)
        /\ DOMAIN Without(asked, {u}) = DOMAIN asked \ {u}
    BY <2>1, WithoutRows
  <2> QED
    BY <1>1, <2>2, <2>3, WithoutKeeps
<1>3. /\ keys' \in PartialFunctions(Keys, Users) /\ DOMAIN keys' \subseteq DOMAIN keys
      /\ \A k \in DOMAIN keys' : keys'[k] = keys[k]
  <2>1. CASE keys' = keys
    BY <2>1, Fields
  <2>2. CASE keys' = Without(keys, gone)
    <3>1. /\ Without(keys, gone) \in PartialFunctions(Keys, Users)
          /\ DOMAIN Without(keys, gone) = DOMAIN keys \ gone
      <4>1. keys \in PartialFunctions(Keys, Users)
        BY Fields
      <4> QED
        BY <4>1, WithoutRows
    <3> QED
      BY <2>2, <3>1, WithoutKeeps
  <2> QED
    BY <1>1, <2>1, <2>2
<1>4. DOMAIN asked = DOMAIN users /\ RowsAsAsked
  BY Fields DEF RowsFollow
<1>5. ASSUME NEW x \in DOMAIN users'
      PROVE  RowKept(x)
  <2>1. users'[x] = users[x] /\ asked'[x] = asked[x] /\ x \in DOMAIN users
    BY <1>2, <1>4, <1>5
  <2> QED
    BY <1>4, <2>1, Zenon DEF RowKept, RowsAsAsked, Alike
<1>6. RowsFollow'
  BY <1>1, <1>2, <1>4, <1>5, Fields, Answered, RowsStep
<1>7. KeysKept /\ IdsUsed'
  BY <1>1, <1>2, <1>3, Fields DEF KeysKept, IdsUsed
<1> QED
  BY <1>1, <1>2, <1>3, <1>6, <1>7, Fields, Answered, TableStep

\* A user is made: no session can hold a row of an ID that was never given.
LEMMA MadeStep ==
  ASSUME IInv, NEW u \in Users, NEW row \in Row, u \notin born,
         users' = With(users, u, row), asked' = With(asked, u, row), born' = born \cup {u},
         keys' = keys, lapsed' = lapsed, cached' = cached, token' = token,
         mixed' = mixed, request' = request,
         work' \in [Sessions -> Work], SessionsOK',
         \A t \in Sessions : work'[t].at = "write" => work'[t] = work[t]
  PROVE  IInv'
<1>1. /\ users' \in PartialFunctions(Users, Row) /\ DOMAIN users' = DOMAIN users \cup {u}
      /\ users'[u] = row /\ \A x \in DOMAIN users \ {u} : users'[x] = users[x]
      /\ asked' \in PartialFunctions(Users, Row) /\ DOMAIN asked' = DOMAIN asked \cup {u}
      /\ asked'[u] = row /\ \A x \in DOMAIN asked \ {u} : asked'[x] = asked[x]
  <2>1. users \in PartialFunctions(Users, Row) /\ asked \in PartialFunctions(Users, Row)
    BY Fields
  <2>2. /\ With(users, u, row) \in PartialFunctions(Users, Row)
        /\ DOMAIN With(users, u, row) = DOMAIN users \cup {u}
        /\ With(users, u, row)[u] = row
        /\ \A i \in DOMAIN users \ {u} : With(users, u, row)[i] = users[i]
    BY <2>1, WithRow
  <2>3. /\ With(asked, u, row) \in PartialFunctions(Users, Row)
        /\ DOMAIN With(asked, u, row) = DOMAIN asked \cup {u}
        /\ With(asked, u, row)[u] = row
        /\ \A i \in DOMAIN asked \ {u} : With(asked, u, row)[i] = asked[i]
    BY <2>1, WithRow
  <2> QED
    BY <2>2, <2>3
<1>2. DOMAIN asked = DOMAIN users /\ RowsAsAsked
  BY Fields DEF RowsFollow
<1>3. ASSUME NEW x \in DOMAIN users'
      PROVE  RowKept(x) \/ RowMade(x)
  <2>1. CASE x = u
    BY <1>1, <2>1 DEF RowMade
  <2>2. CASE x # u
    <3>1. users'[x] = users[x] /\ asked'[x] = asked[x] /\ x \in DOMAIN users
      BY <1>1, <1>2, <1>3, <2>2
    <3> QED
      BY <1>2, <3>1, Zenon DEF RowKept, RowsAsAsked, Alike
  <2> QED
    BY <2>1, <2>2
<1>4. RowsFollow'
  BY <1>1, <1>2, <1>3, Fields, RowsStep
<1>5. KeysKept /\ IdsUsed' /\ born' \subseteq Users \cup Keys
  BY <1>1, Fields DEF KeysKept, IdsUsed
<1>6. keys' \in PartialFunctions(Keys, Users)
  BY Fields
<1> QED
  BY <1>1, <1>4, <1>5, <1>6, TableStep

LEMMA CreatesInd ==
  ASSUME IInv, NEW s \in Sessions, Creates(s), request' = request
  PROVE  IInv'
<1> DEFINE o == work[s].order
           row == [enabled |-> TRUE, role |-> Given(o.role, "user"), password |-> o.password]
<1>1. Answer(s) /\ keys' = keys /\ lapsed' = lapsed /\ cached' = cached /\ token' = token /\ mixed' = mixed
  BY DEF Creates
<1>2. CASE o.of \in born
  <2>1. users' = users /\ asked' = asked /\ born' = born
    BY <1>2 DEF Creates
  <2> QED
    BY <1>1, <2>1, Answered, Fields, SessionOnly DEF storeVars
<1>3. CASE o.of \notin born
  <2>1. o \in Orders
    BY Fields, Zenon DEF Creates, SessionsOK, Equipped
  <2>2. o.of \in Users /\ Given(o.role, "user") \in Roles /\ o.password \in Passwords
    BY <2>1, OrdersAssumption, RolesAssumption DEF Given
  <2>3. row \in Row
    <3> HIDE DEF o
    <3> QED
      BY <2>2 DEF Row
  <2>4. users' = With(users, o.of, row) /\ asked' = With(asked, o.of, row) /\ born' = born \cup {o.of}
    BY <1>3 DEF Creates
  <2> HIDE DEF row, o
  <2> QED
    BY <1>1, <1>3, <2>2, <2>3, <2>4, Answered, MadeStep
<1> QED
  BY <1>2, <1>3

LEMMA RegisterInd ==
  ASSUME IInv, NEW u \in Users, Register(u), request' = request
  PROVE  IInv'
<1>1. PICK r \in Roles, p \in Passwords :
        /\ users' = With(users, u, [enabled |-> FALSE, role |-> r, password |-> p])
        /\ asked' = With(asked, u, [enabled |-> FALSE, role |-> r, password |-> p])
  BY DEF Register
<1> DEFINE row == [enabled |-> FALSE, role |-> r, password |-> p]
<1>2. row \in Row
  BY DEF Row
<1>3. users' = With(users, u, row) /\ asked' = With(asked, u, row)
  BY <1>1
<1>4. /\ u \notin born /\ born' = born \cup {u}
      /\ keys' = keys /\ lapsed' = lapsed /\ cached' = cached /\ token' = token
      /\ work' = work /\ mixed' = mixed
  BY DEF Register
<1>5. SessionsOK'
  BY <1>4, Fields DEF SessionsOK
<1> HIDE DEF row
<1> QED
  BY <1>2, <1>3, <1>4, <1>5, Fields, MadeStep

\* A password changes in the row and in what was asked, and nothing else does: the
\* rows that handlers of Update hold stay good.
LEMMA ChangesPasswordInd ==
  ASSUME IInv, NEW s \in Sessions, ChangesPassword(s), request' = request
  PROVE  IInv'
<1> DEFINE v == work[s]
           u == v.of
           p == v.order.password
<1>1. /\ Answer(s) /\ keys' = keys /\ lapsed' = lapsed /\ cached' = cached /\ token' = token
      /\ born' = born /\ mixed' = mixed
  BY DEF ChangesPassword
<1>2. CASE v.row.password = p
  <2>1. users' = users /\ asked' = asked
    BY <1>2 DEF ChangesPassword
  <2> QED
    BY <1>1, <2>1, Answered, Fields, SessionOnly DEF storeVars
<1>3. CASE v.row.password # p
  <2>1. users' = UpdatePassword(users, u, p) /\ asked' = UpdatePassword(asked, u, p)
    BY <1>3 DEF ChangesPassword
  <2>2. u \in Users /\ p \in Passwords
    <3>1. u \in Users /\ v.order \in Orders
      BY Fields, Zenon DEF ChangesPassword, SessionsOK, Equipped
    <3> QED
      BY <3>1, OrdersAssumption
  <2> HIDE DEF u, p
  <2>3. users \in PartialFunctions(Users, Row) /\ asked \in PartialFunctions(Users, Row)
    BY Fields
  <2>4. /\ users' \in PartialFunctions(Users, Row) /\ DOMAIN users' = DOMAIN users
        /\ \A x \in DOMAIN users \ {u} : users'[x] = users[x]
        /\ u \in DOMAIN users => users'[u].password = p /\ Alike(users'[u], users[u])
    BY <2>1, <2>2, <2>3, PasswordSet
  <2>5. /\ asked' \in PartialFunctions(Users, Row) /\ DOMAIN asked' = DOMAIN asked
        /\ \A x \in DOMAIN asked \ {u} : asked'[x] = asked[x]
        /\ u \in DOMAIN asked => asked'[u].password = p /\ Alike(asked'[u], asked[u])
    BY <2>1, <2>2, <2>3, PasswordSet
  <2>6. DOMAIN asked = DOMAIN users /\ RowsAsAsked
    BY Fields DEF RowsFollow
  <2>7. ASSUME NEW x \in DOMAIN users'
        PROVE  RowKept(x)
    <3>1. x \in DOMAIN users
      BY <2>4, <2>7
    <3>2. CASE x # u
      <4>1. users'[x] = users[x] /\ asked'[x] = asked[x]
        BY <2>4, <2>5, <2>6, <3>1, <3>2
      <4> QED
        BY <2>6, <3>1, <4>1, Zenon DEF RowKept, RowsAsAsked, Alike
    <3>3. CASE x = u
      <4>1. users'[x].password = asked'[x].password /\ Alike(users'[x], users[x]) /\ Alike(asked'[x], asked[x])
        BY <2>4, <2>5, <2>6, <3>1, <3>3
      <4>2. users'[x] \in Row /\ asked'[x] \in Row
        BY <2>4, <2>5, <2>6, <3>1, Partial
      <4>3. ASSUME x \notin mixed
            PROVE  users'[x] = asked'[x]
        <5>1. users[x] = asked[x]
          BY <2>6, <3>1, <4>3, Zenon DEF RowsAsAsked
        <5>2. Alike(users'[x], asked'[x])
          BY <4>1, <5>1, Zenon DEF Alike
        <5> QED
          BY <4>1, <4>2, <5>2, SameRow
      <4> QED
        BY <3>1, <4>1, <4>3, Zenon DEF RowKept
    <3> QED
      BY <3>2, <3>3
  <2>8. RowsFollow'
    BY <1>1, <2>4, <2>5, <2>6, <2>7, Fields, Answered, RowsStep
  <2>9. IdsUsed'
    BY <1>1, <2>4, Fields DEF IdsUsed
  <2> QED
    BY <1>1, <2>4, <2>5, <2>8, <2>9, Fields, Answered, KeysAlone, TableStep
<1> QED
  BY <1>2, <1>3

\* A step of a session on the table of keys.
LEMMA KeysStep ==
  ASSUME IInv, KeysKept, keys' \in PartialFunctions(Keys, Users), DOMAIN keys' \subseteq born',
         born' \subseteq Users \cup Keys, NEW s \in Sessions, Answer(s),
         users' = users, asked' = asked, mixed' = mixed, lapsed' = lapsed, cached' = cached,
         token' = token, request' = request
  PROVE  IInv'
<1>1. born \subseteq born'
  BY DEF KeysKept
<1>2. /\ work' \in [Sessions -> Work] /\ SessionsOK'
      /\ \A t \in Sessions : work'[t].at = "write" => work'[t] = work[t]
  BY Answered
<1>3. RowsFollow'
  BY <1>1, <1>2, Fields, RowsAlone
<1>4. IdsUsed'
  BY <1>1, Fields DEF IdsUsed
<1> QED
  BY <1>2, <1>3, <1>4, Fields, TableStep

\* A new key has an owner, and nothing knows of the key yet.
LEMMA KeyMadeStep ==
  ASSUME IInv, NEW k \in Keys, NEW u \in Users, k \notin born,
         keys' = With(keys, k, u), born' = born \cup {k}, NEW s \in Sessions, Answer(s),
         users' = users, asked' = asked, mixed' = mixed, lapsed' = lapsed, cached' = cached,
         token' = token, request' = request
  PROVE  IInv'
<1>1. keys \in PartialFunctions(Keys, Users)
  BY Fields
<1>2. /\ With(keys, k, u) \in PartialFunctions(Keys, Users)
      /\ DOMAIN With(keys, k, u) = DOMAIN keys \cup {k}
  BY <1>1, WithRow
<1>3. KeysKept
  BY <1>2 DEF KeysKept, With
<1>4. DOMAIN keys' \subseteq born' /\ born' \subseteq Users \cup Keys
  BY <1>2, Fields DEF IdsUsed
<1> QED
  BY <1>2, <1>3, <1>4, KeysStep

LEMMA GeneratesKeyInd ==
  ASSUME IInv, NEW s \in Sessions, GeneratesKey(s), request' = request
  PROVE  IInv'
<1> DEFINE k == work[s].order.key
           u == work[s].of
<1>1. /\ Answer(s) /\ users' = users /\ lapsed' = lapsed /\ cached' = cached /\ token' = token
      /\ asked' = asked /\ mixed' = mixed
  BY DEF GeneratesKey
<1>2. CASE keys' = keys /\ born' = born
  BY <1>1, <1>2, KeysAlone, Fields, KeysStep DEF IdsUsed
<1>3. CASE k \notin born /\ keys' = With(keys, k, u) /\ born' = born \cup {k}
  <2>1. k \in Keys /\ u \in Users
    <3>1. work[s].at = "newkey" /\ OpOf("newkey") = "newkey"
      BY DEF GeneratesKey, OpOf
    <3>2. u \in Users /\ work[s].order \in Orders /\ work[s].order.op = "newkey"
      BY <3>1, Fields, Zenon DEF SessionsOK, Equipped
    <3> QED
      BY <3>2, OrdersAssumption
  <2> HIDE DEF k, u
  <2> QED
    BY <1>1, <1>3, <2>1, KeyMadeStep
<1> QED
  BY <1>2, <1>3 DEF GeneratesKey

LEMMA DropKeyClearsInd ==
  ASSUME IInv, NEW s \in Sessions, DropKeyClears(s), request' = request
  PROVE  IInv'
<1> DEFINE k == work[s].order.key
<1>1. /\ users' = users /\ keys' = keys /\ lapsed' = lapsed /\ token' = token
      /\ born' = born /\ asked' = asked /\ mixed' = mixed
  BY DEF DropKeyClears
<1>2. CASE k \in DOMAIN keys /\ keys[k] = work[s].of
  <2>1. cached' = DeleteAPIKey(PrefixOf[k]) /\ Goto(s, "droprow") /\ work[s].at = "dropkey"
    BY <1>2 DEF DropKeyClears
  <2>2. PrefixOf[k] \in Prefixes
    BY <1>2, Fields, Partial, PrefixAssumption
  <2>3. OpOf("droprow") = OpOf("dropkey")
    BY DEF OpOf
  <2>4. /\ work' \in [Sessions -> Work] /\ SessionsOK'
        /\ \A t \in Sessions : work'[t].at = "write" => work'[t] = work[t]
    BY <2>1, <2>3, WentOn
  <2>5. cached' \in [Prefixes -> Entry \cup {None}] /\ CacheOwners'
    BY <1>1, <2>1, <2>2, Fields, KeysAlone, DeleteStep
  <2>6. RequestOwners'
    BY <1>1, Fields, KeysAlone, RequestsAlone
  <2> QED
    BY <1>1, <2>4, <2>5, <2>6, Fields, QuietStep
<1>3. CASE ~(k \in DOMAIN keys /\ keys[k] = work[s].of)
  <2>1. Answer(s) /\ cached' = cached
    BY <1>3 DEF DropKeyClears
  <2> QED
    BY <1>1, <2>1, Answered, Fields, SessionOnly DEF storeVars
<1> QED
  BY <1>2, <1>3

LEMMA DropKeyErasesInd ==
  ASSUME IInv, NEW s \in Sessions, DropKeyErases(s), request' = request
  PROVE  IInv'
<1>1. PICK ids : keys' = Without(keys, ids)
  BY DEF DropKeyErases
<1>2. /\ Answer(s) /\ users' = users /\ lapsed' = lapsed /\ cached' = cached /\ token' = token
      /\ born' = born /\ asked' = asked /\ mixed' = mixed
  BY DEF DropKeyErases
<1>3. keys' \in PartialFunctions(Keys, Users) /\ DOMAIN keys' = DOMAIN keys \ ids
  <2>1. keys \in PartialFunctions(Keys, Users)
    BY Fields
  <2> QED
    BY <1>1, <2>1, WithoutRows
<1>4. KeysKept /\ DOMAIN keys' \subseteq born'
  BY <1>1, <1>2, <1>3, WithoutKeeps, Fields DEF KeysKept, IdsUsed
<1> QED
  BY <1>2, <1>3, <1>4, Fields, KeysStep

(***************************************************************************)
(* Validations.                                                            *)
(***************************************************************************)

LEMMA NothingRead == NoRequest \in Request /\ NoRequest.at = "idle" /\ Informed(NoRequest)
<1>1. NoRequest \in Request /\ NoRequest.at = "idle"
  BY DEF NoRequest, Request
<1> QED
  BY <1>1, Zenon DEF Informed

\* A validation reads something that is so, or ends.
LEMMA ValidationStep ==
  ASSUME IInv, NEW r \in Requests, NEW q \in Request, Informed(q),
         request' = [request EXCEPT ![r] = q],
         users' = users, keys' = keys, lapsed' = lapsed, accountVars' = accountVars,
         cached' \in [Prefixes -> Entry \cup {None}], CacheOwners'
  PROVE  IInv'
<1>1. token' = token /\ work' = work /\ born' = born /\ asked' = asked /\ mixed' = mixed
  BY DEF accountVars
<1>2. request' \in [Requests -> Request]
  BY Fields
<1>3. ASSUME NEW x \in Requests
      PROVE  Informed(request'[x])
  BY Fields, Zenon DEF RequestOwners
<1>4. RequestOwners'
  BY <1>1, <1>3, Zenon DEF RequestOwners, Informed, OwnedBy
<1>5. SessionsOK'
  BY <1>1, Fields DEF SessionsOK
<1> QED
  BY <1>1, <1>2, <1>4, <1>5, Fields, QuietStep

\* The cache stays what it was.
LEMMA CacheAlone ==
  ASSUME IInv, cached' = cached, keys' = keys, accountVars' = accountVars
  PROVE  cached' \in [Prefixes -> Entry \cup {None}] /\ CacheOwners'
<1>1. born' = born
  BY DEF accountVars
<1> QED
  BY <1>1, Fields DEF CacheOwners, OwnedBy

\* An entry is of the key that comes, although it is found by its first characters.
LEMMA LooksInd ==
  ASSUME IInv, NEW r \in Requests, NEW k \in Keys, Looks(r, k)
  PROVE  IInv'
<1> DEFINE x == PrefixOf[k]
           e == GetAPIKey(x)
<1>1. x \in Prefixes
  BY PrefixAssumption
<1>2. /\ users' = users /\ keys' = keys /\ lapsed' = lapsed /\ cached' = cached
      /\ accountVars' = accountVars /\ k \in born
  BY DEF Looks, storeVars
<1>3. CASE e = None
  <2> DEFINE q == [NoRequest EXCEPT !.at = "missed", !.key = k]
  <2>1. request' = [request EXCEPT ![r] = q]
    BY <1>3 DEF Looks
  <2>2. q \in Request /\ q.at = "missed" /\ q.key = k
    BY DEF NoRequest, Request
  <2> HIDE DEF q
  <2>3. Informed(q)
    BY <1>2, <2>2, Zenon DEF Informed
  <2> QED
    BY <1>2, <2>1, <2>2, <2>3, CacheAlone, ValidationStep
<1>4. CASE e # None
  <2> DEFINE q == [at |-> "hit", key |-> k, owner |-> e.owner, enabled |-> e.enabled]
  <2>1. request' = [request EXCEPT ![r] = q] /\ e.key = k
    BY <1>4 DEF Looks, Matches
  <2>2. e = cached[x]
    BY <1>4 DEF GetAPIKey
  <2>3. e \in Entry
    BY <1>1, <1>4, <2>2, Fields
  <2>4. OwnedBy(k, e.owner)
    <3>1. OwnedBy(cached[x].key, cached[x].owner)
      BY <1>1, <1>4, <2>2, Fields, Zenon DEF CacheOwners
    <3> QED
      BY <2>1, <2>2, <3>1, Zenon
  <2> HIDE DEF e
  <2>5. q \in Request /\ q.at = "hit" /\ q.key = k /\ q.owner = e.owner /\ e.owner \in Users
    BY <2>3 DEF Entry, Request
  <2> HIDE DEF q
  <2>6. Informed(q)
    BY <1>2, <2>4, <2>5, Zenon DEF Informed
  <2> QED
    BY <1>2, <2>1, <2>5, <2>6, CacheAlone, ValidationStep
<1> QED
  BY <1>3, <1>4

\* A validation goes on with what it has read.
LEMMA StageStep ==
  ASSUME IInv, NEW r \in Requests, request[r].at \in {"hit", "owned", "checked"},
         NEW stage \in {"checked", "accepted"}, NEW q,
         q = [request[r] EXCEPT !.at = stage] \/ q = [request[r] EXCEPT !.at = stage, !.enabled = TRUE]
  PROVE  q \in Request /\ Informed(q)
<1> DEFINE v == request[r]
<1>1. v \in Request /\ v.at \in {"hit", "owned", "checked"}
  BY Fields
<1>2. v.key \in Keys /\ v.key \in born /\ v.owner \in Users /\ OwnedBy(v.key, v.owner)
  BY <1>1, Fields, Zenon DEF RequestOwners, Informed
<1>3. q = [v EXCEPT !.at = stage] \/ q = [v EXCEPT !.at = stage, !.enabled = TRUE]
  OBVIOUS
<1> HIDE DEF v
<1>4. q \in Request /\ q.key = v.key /\ q.owner = v.owner
  BY <1>1, <1>3 DEF Request
<1> QED
  BY <1>2, <1>4, Zenon DEF Informed

LEMMA HitReadsInd ==
  ASSUME IInv, NEW r \in Requests, HitReads(r)
  PROVE  IInv'
<1> DEFINE v == request[r]
           q == [v EXCEPT !.at = "accepted"]
<1>1. /\ users' = users /\ keys' = keys /\ lapsed' = lapsed /\ accountVars' = accountVars
      /\ v.at = "hit"
  BY DEF HitReads
<1>2. CASE Becomes(r, "accepted") /\ cached' = cached
  <2>1. request' = [request EXCEPT ![r] = q]
    BY <1>2 DEF Becomes
  <2>2. q \in Request /\ Informed(q)
    BY <1>1, StageStep
  <2> HIDE DEF q
  <2> QED
    BY <1>1, <1>2, <2>1, <2>2, CacheAlone, ValidationStep
<1>3. CASE Refuses(r) /\ cached' \in {cached, DeleteAPIKey(PrefixOf[v.key])}
  <2>1. request' = [request EXCEPT ![r] = NoRequest]
    BY <1>3 DEF Refuses
  <2>2. born' = born
    BY <1>1 DEF accountVars
  <2>3. PrefixOf[v.key] \in Prefixes
    <3>1. v.key \in Keys
      BY <1>1, Fields, Zenon DEF RequestOwners, Informed
    <3> QED
      BY <3>1, PrefixAssumption
  <2>4. cached' \in [Prefixes -> Entry \cup {None}] /\ CacheOwners'
    <3>1. CASE cached' = cached
      BY <1>1, <3>1, CacheAlone
    <3>2. CASE cached' = DeleteAPIKey(PrefixOf[v.key])
      BY <1>1, <2>2, <2>3, <3>2, Fields, KeysAlone, DeleteStep
    <3> QED
      BY <1>3, <3>1, <3>2
  <2> QED
    BY <1>1, <2>1, <2>4, NothingRead, ValidationStep
<1> QED
  BY <1>2, <1>3 DEF HitReads

\* The row that the query returns is only used when its hash is that of the key.
LEMMA MissReadsInd ==
  ASSUME IInv, NEW r \in Requests, MissReads(r)
  PROVE  IInv'
<1> DEFINE v == request[r]
<1>1. /\ users' = users /\ keys' = keys /\ lapsed' = lapsed /\ cached' = cached
      /\ accountVars' = accountVars /\ v.at = "missed"
  BY DEF MissReads, storeVars
<1>2. CASE Refuses(r)
  <2>1. request' = [request EXCEPT ![r] = NoRequest]
    BY <1>2 DEF Refuses
  <2> QED
    BY <1>1, <2>1, NothingRead, CacheAlone, ValidationStep
<1>3. ASSUME NEW k \in GetByKeyPrefix(PrefixOf[v.key]), k = v.key,
             request' = [request EXCEPT ![r].at = "owned", ![r].owner = keys[k]]
      PROVE  IInv'
  <2> DEFINE u == keys[k]
             q == [v EXCEPT !.at = "owned", !.owner = u]
  <2>1. request' = [request EXCEPT ![r] = q]
    BY <1>3
  <2>2. k \in DOMAIN keys /\ u \in Users /\ v \in Request
    BY Fields, Partial DEF GetByKeyPrefix
  <2>3. v.key \in Keys /\ v.key \in born
    BY <1>1, Fields, Zenon DEF RequestOwners, Informed
  <2>4. OwnedBy(v.key, u)
    BY <1>3, <2>3 DEF OwnedBy
  <2> HIDE DEF v, u
  <2>5. q \in Request /\ q.key = v.key /\ q.owner = u
    BY <2>2 DEF Request
  <2> HIDE DEF q
  <2>6. Informed(q)
    BY <2>2, <2>3, <2>4, <2>5, Zenon DEF Informed
  <2> QED
    BY <1>1, <2>1, <2>5, <2>6, CacheAlone, ValidationStep
<1>4. \/ Refuses(r)
      \/ \E k \in GetByKeyPrefix(PrefixOf[v.key]) :
           k = v.key /\ request' = [request EXCEPT ![r].at = "owned", ![r].owner = keys[k]]
  BY DEF MissReads, Matches
<1> QED
  BY <1>2, <1>3, <1>4

LEMMA OwnerReadsInd ==
  ASSUME IInv, NEW r \in Requests, OwnerReads(r)
  PROVE  IInv'
<1> DEFINE v == request[r]
           q == [v EXCEPT !.at = "checked", !.enabled = TRUE]
<1>1. /\ users' = users /\ keys' = keys /\ lapsed' = lapsed /\ cached' = cached
      /\ accountVars' = accountVars /\ v.at = "owned"
  BY DEF OwnerReads, storeVars
<1>2. CASE Refuses(r)
  <2>1. request' = [request EXCEPT ![r] = NoRequest]
    BY <1>2 DEF Refuses
  <2> QED
    BY <1>1, <2>1, NothingRead, CacheAlone, ValidationStep
<1>3. CASE request' = [request EXCEPT ![r].at = "checked", ![r].enabled = TRUE]
  <2>1. request' = [request EXCEPT ![r] = q]
    BY <1>3
  <2>2. q \in Request /\ Informed(q)
    BY <1>1, StageStep
  <2> HIDE DEF q
  <2> QED
    BY <1>1, <2>1, <2>2, CacheAlone, ValidationStep
<1> QED
  BY <1>2, <1>3 DEF OwnerReads

\* The cache learns an owner that was read some time ago, and is the owner still
\* if the key is still there.
LEMMA StoresInd ==
  ASSUME IInv, NEW r \in Requests, Stores(r)
  PROVE  IInv'
<1> DEFINE v == request[r]
           q == [v EXCEPT !.at = "accepted"]
           x == PrefixOf[v.key]
           e == [key |-> v.key, owner |-> v.owner, enabled |-> v.enabled, age |-> 0]
<1>1. /\ users' = users /\ keys' = keys /\ lapsed' = lapsed /\ accountVars' = accountVars
      /\ v.at = "checked" /\ Becomes(r, "accepted") /\ cached' = SetAPIKey(v.key, v.owner, v.enabled)
  BY DEF Stores
<1>2. v.key \in Keys /\ v.owner \in Users /\ OwnedBy(v.key, v.owner)
  BY <1>1, Fields, Zenon DEF RequestOwners, Informed
<1>3. request' = [request EXCEPT ![r] = q]
  BY <1>1 DEF Becomes
<1>4. q \in Request /\ Informed(q)
  BY <1>1, StageStep
<1>5. x \in Prefixes
  BY <1>2, PrefixAssumption
<1>6. e \in Entry /\ e.key = v.key /\ e.owner = v.owner
  <2>1. v.enabled \in BOOLEAN
    BY Fields DEF Request
  <2> HIDE DEF v
  <2> QED
    BY <1>2, <2>1, AgeAssumption DEF Entry
<1>7. cached' = [cached EXCEPT ![x] = e]
  BY <1>1 DEF SetAPIKey
<1> HIDE DEF q, e, x
<1>8. cached' \in [Prefixes -> Entry \cup {None}]
  BY <1>6, <1>7, Fields
<1>9. born' = born
  BY <1>1 DEF accountVars
<1>10. ASSUME NEW y \in Prefixes, cached'[y] # None
       PROVE  OwnedBy(cached'[y].key, cached'[y].owner)
  <2>1. cached'[y] = e \/ cached'[y] = cached[y]
    BY <1>7, Fields
  <2> QED
    BY <1>2, <1>6, <1>10, <2>1, Fields, Zenon DEF CacheOwners
<1>11. CacheOwners'
  BY <1>1, <1>9, <1>10, Zenon DEF CacheOwners, OwnedBy
<1> QED
  BY <1>1, <1>3, <1>4, <1>8, <1>11, ValidationStep

LEMMA PassesInd ==
  ASSUME IInv, NEW r \in Requests, Passes(r)
  PROVE  IInv'
<1>1. /\ users' = users /\ keys' = keys /\ lapsed' = lapsed /\ cached' = cached
      /\ accountVars' = accountVars /\ request' = [request EXCEPT ![r] = NoRequest]
  BY DEF Passes, Refuses, storeVars
<1> QED
  BY <1>1, NothingRead, CacheAlone, ValidationStep

(***************************************************************************)
(* Time.                                                                   *)
(***************************************************************************)

\* Entries get older, or leave the cache; keys lapse.
LEMMA TimeStep ==
  ASSUME IInv, users' = users, keys' = keys, accountVars' = accountVars, request' = request,
         lapsed' \in SUBSET Keys,
         cached' \in [Prefixes -> Entry \cup {None}], CacheOwners'
  PROVE  IInv'
<1>1. token' = token /\ work' = work /\ born' = born /\ asked' = asked /\ mixed' = mixed
  BY DEF accountVars
<1>2. SessionsOK' /\ RequestOwners'
  BY <1>1, Fields, KeysAlone, RequestsAlone DEF SessionsOK
<1> QED
  BY <1>1, <1>2, Fields, QuietStep

LEMMA MinuteInd ==
  ASSUME IInv, Minute, accountVars' = accountVars, request' = request
  PROVE  IInv'
<1>1. users' = users /\ keys' = keys /\ lapsed' = lapsed
  BY DEF Minute
<1>2. ASSUME NEW x \in Prefixes
      PROVE  \/ cached'[x] = cached[x]
             \/ /\ cached[x] # None /\ cached'[x] \in Entry
                /\ cached'[x].key = cached[x].key /\ cached'[x].owner = cached[x].owner
  <2> DEFINE e == cached[x]
  <2>1. CASE x \in Held \ Expired
    <3>1. e # None /\ e \in Entry /\ ~(e.age > MaxAge)
      BY <1>2, <2>1, Fields DEF Held, Expired
    <3>2. cached'[x] = [e EXCEPT !.age = @ + 1]
      BY <1>2, <2>1 DEF Minute
    <3> HIDE DEF e
    <3>3. cached'[x] \in Entry /\ cached'[x].key = e.key /\ cached'[x].owner = e.owner
      BY <3>1, <3>2, AgeAssumption DEF Entry
    <3> QED
      BY <3>1, <3>3 DEF e
  <2>2. CASE x \notin Held \ Expired
    BY <1>2, <2>2 DEF Minute
  <2> QED
    BY <2>1, <2>2
<1>3. cached' \in [Prefixes -> Entry \cup {None}]
  <2>1. cached' = [x \in Prefixes |-> cached'[x]]
    BY DEF Minute
  <2>2. \A x \in Prefixes : cached'[x] \in Entry \cup {None}
    BY <1>2, Fields
  <2> QED
    BY <2>1, <2>2
<1>4. born' = born
  BY DEF accountVars
<1>5. CacheOwners'
  <2>1. \A x \in Prefixes : \/ cached'[x] = None
                            \/ /\ cached[x] # None
                               /\ cached'[x].key = cached[x].key
                               /\ cached'[x].owner = cached[x].owner
    BY <1>2
  <2> QED
    BY <1>1, <1>4, <2>1, Fields, KeysAlone, CacheStep
<1> QED
  BY <1>1, <1>3, <1>5, Fields, TimeStep

LEMMA CleanupInd ==
  ASSUME IInv, Cleanup, accountVars' = accountVars, request' = request
  PROVE  IInv'
<1>1. users' = users /\ keys' = keys /\ lapsed' = lapsed /\ born' = born
  BY DEF Cleanup, accountVars
<1>2. PICK xs : cached' = Dropped(xs)
  BY DEF Cleanup
<1>3. cached' \in [Prefixes -> Entry \cup {None}] /\ CacheOwners'
  BY <1>1, <1>2, Fields, KeysAlone, DropStep
<1> QED
  BY <1>1, <1>3, Fields, TimeStep

LEMMA LapseInd ==
  ASSUME IInv, NEW k \in Keys, Lapse(k), accountVars' = accountVars, request' = request
  PROVE  IInv'
<1>1. users' = users /\ keys' = keys /\ cached' = cached /\ lapsed' \in SUBSET Keys
  BY Fields DEF Lapse
<1>2. cached' \in [Prefixes -> Entry \cup {None}] /\ CacheOwners'
  BY <1>1, CacheAlone
<1> QED
  BY <1>1, <1>2, TimeStep

(***************************************************************************)
(* The specification.                                                      *)
(***************************************************************************)

LEMMA InitInv ==
  ASSUME Init
  PROVE  IInv
<1>1. PICK p \in Passwords :
        users = [u \in {Admin} |-> [enabled |-> TRUE, role |-> "admin", password |-> p]]
  BY DEF Init, StoreInit
<1> DEFINE row == [enabled |-> TRUE, role |-> "admin", password |-> p]
<1>2. row \in Row
  BY RolesAssumption DEF Row
<1>3. users = [u \in {Admin} |-> row]
  BY <1>1
<1> HIDE DEF row
<1>4. /\ keys = [k \in {} |-> Admin] /\ lapsed = {} /\ cached = [x \in Prefixes |-> None]
      /\ token = [s \in Sessions |-> None] /\ work = [s \in Sessions |-> Idle]
      /\ born = {Admin} /\ asked = users /\ mixed = {}
      /\ request = [r \in Requests |-> NoRequest]
  BY DEF Init, StoreInit, AccountsInit
<1>5. users \in PartialFunctions(Users, Row) /\ DOMAIN users = {Admin}
  <2>1. DOMAIN users = {Admin} /\ users = [i \in DOMAIN users |-> users[i]]
    BY <1>3
  <2>2. DOMAIN users \subseteq Users /\ \A i \in DOMAIN users : users[i] \in Row
    BY <1>2, <1>3, RolesAssumption
  <2> QED
    BY <2>1, <2>2, Partial
<1>6. keys \in PartialFunctions(Keys, Users) /\ DOMAIN keys = {}
  <2>1. DOMAIN keys = {} /\ keys = [i \in DOMAIN keys |-> keys[i]]
    BY <1>4
  <2>2. DOMAIN keys \subseteq Keys /\ \A i \in DOMAIN keys : keys[i] \in Users
    BY <2>1
  <2> QED
    BY <2>1, <2>2, Partial
<1>7. Idle \in Work /\ Idle.at = "idle"
  BY DEF Idle, Work, Stages
<1>8. TypeOK
  BY <1>4, <1>5, <1>6, <1>7, NothingRead, RolesAssumption
    DEF TypeOK, StoreTypeOK, AccountsTypeOK
<1>9. Equipped(Idle)
  BY <1>7, Zenon DEF Equipped
<1>10. SessionsOK
  BY <1>4, <1>9 DEF SessionsOK
<1>11. IdsUsed
  BY <1>4, <1>5, <1>6 DEF IdsUsed
<1>12. CacheOwners
  BY <1>4 DEF CacheOwners
<1>13. RequestOwners
  BY <1>4, NothingRead DEF RequestOwners
<1>14. RowsFollow
  <2>1. \A s \in Sessions : work[s].at # "write"
    BY <1>4, <1>7
  <2> QED
    BY <1>4, <2>1, Zenon DEF RowsFollow, RowsAsAsked
<1> QED
  BY <1>8, <1>10, <1>11, <1>12, <1>13, <1>14 DEF IInv

LEMMA HandlesInd ==
  ASSUME IInv, NEW s \in Sessions, Handles(s), request' = request
  PROVE  IInv'
<1>1. CASE LoginAnswers(s)
  BY <1>1, LoginAnswersInd
<1>2. CASE Reads(s)
  BY <1>2, ReadsInd
<1>3. CASE EditReads(s)
  BY <1>3, EditReadsInd
<1>4. CASE EditWrites(s)
  BY <1>4, EditWritesInd
<1>5. CASE EditClears(s)
  BY <1>5, EditClearsInd
<1>6. CASE DeleteClears(s)
  BY <1>6, DeleteClearsInd
<1>7. CASE Erases(s)
  BY <1>7, ErasesInd
<1>8. CASE Creates(s)
  BY <1>8, CreatesInd
<1>9. CASE ChangesPassword(s)
  BY <1>9, ChangesPasswordInd
<1>10. CASE GeneratesKey(s)
  BY <1>10, GeneratesKeyInd
<1>11. CASE DropKeyClears(s)
  BY <1>11, DropKeyClearsInd
<1>12. CASE DropKeyErases(s)
  BY <1>12, DropKeyErasesInd
<1> QED
  BY <1>1, <1>2, <1>3, <1>4, <1>5, <1>6, <1>7, <1>8, <1>9, <1>10, <1>11, <1>12 DEF Handles

LEMMA StepInv ==
  ASSUME IInv, [Next]_vars
  PROVE  IInv'
<1>1. ASSUME UNCHANGED vars
      PROVE  IInv'
  <2>1. /\ users' = users /\ keys' = keys /\ lapsed' = lapsed /\ cached' = cached
        /\ accountVars' = accountVars /\ request' = request
    BY <1>1 DEF vars, storeVars, accountVars
  <2> QED
    BY <2>1, Fields, CacheAlone, TimeStep
<1>2. ASSUME AccountsNext, request' = request
      PROVE  IInv'
  <2>1. ASSUME NEW s \in Sessions, Handles(s)
        PROVE  IInv'
    BY <1>2, <2>1, HandlesInd
  <2>2. ASSUME NEW s \in Sessions, Ages(s)
        PROVE  IInv'
    BY <1>2, <2>2, AgesInd
  <2>3. ASSUME NEW s \in Sessions, NEW u \in Users, LoginReads(s, u)
        PROVE  IInv'
    BY <1>2, <2>3, LoginReadsInd
  <2>4. ASSUME NEW s \in Sessions, NEW o \in Orders, Authorised(s, o)
        PROVE  IInv'
    BY <1>2, <2>4, AuthorisedInd
  <2>5. ASSUME NEW u \in Users, Register(u)
        PROVE  IInv'
    BY <1>2, <2>5, RegisterInd
  <2> QED
    BY <1>2, <2>1, <2>2, <2>3, <2>4, <2>5 DEF AccountsNext
<1>3. ASSUME NEW r \in Requests, Validates(r)
      PROVE  IInv'
  BY <1>3, HitReadsInd, MissReadsInd, OwnerReadsInd, StoresInd, PassesInd DEF Validates
<1>4. ASSUME NEW r \in Requests, NEW k \in Keys, Looks(r, k)
      PROVE  IInv'
  BY <1>4, LooksInd
<1>5. ASSUME Minute \/ Cleanup \/ (\E k \in Keys : Lapse(k)), UNCHANGED <<accountVars, request>>
      PROVE  IInv'
  <2>1. accountVars' = accountVars /\ request' = request
    BY <1>5
  <2> QED
    BY <1>5, <2>1, MinuteInd, CleanupInd, LapseInd
<1> QED
  BY <1>1, <1>2, <1>3, <1>4, <1>5 DEF Next

\* The inductive invariant is one.
THEOREM Invariance == Spec => []IInv
<1>1. Init => IInv
  BY InitInv
<1>2. IInv /\ [Next]_vars => IInv'
  BY StepInv
<1> QED
  BY <1>1, <1>2, PTL DEF Spec

\* Users, keys, cache, tokens, sessions and validations keep their types: no handler
\* works on a row or an order it does not have.
THEOREM TypeCorrect == Spec => []TypeOK
<1>1. IInv => TypeOK
  BY DEF IInv
<1> QED
  BY <1>1, Invariance, PTL

\* A key is accepted for the user it was made for, if it is still there: whatever other
\* key begins alike, and whatever is deleted, made, cached and dropped meanwhile.
THEOREM KeysKeepOwners == Spec => []OwnersKept
<1>1. IInv => OwnersKept
  BY Zenon DEF IInv, RequestOwners, Informed, OwnedBy, OwnersKept
<1> QED
  BY <1>1, Invariance, PTL

\* The row of a user is what was asked for: a password never comes back after it was
\* changed, and an edit loses nothing of another that it did not overlap.
THEOREM EditsKept == Spec => []RowsAsAsked
<1>1. IInv => RowsAsAsked
  BY DEF IInv, RowsFollow
<1> QED
  BY <1>1, Invariance, PTL
=============================================================================
