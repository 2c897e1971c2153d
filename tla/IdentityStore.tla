--------------------------- MODULE IdentityStore ---------------------------
(***************************************************************************)
(* What the gateway keeps of users and API keys: the tables users and      *)
(* api_keys of the database (internal/repository) and the cache of         *)
(* validated keys (internal/infra/cache/local.go), which is looked up by   *)
(* the first characters of a key.  The cache's clock is the age of its     *)
(* entries.                                                                *)
(*                                                                         *)
(* Foreign keys are switched on by a PRAGMA of one connection, and the     *)
(* pool has ten: a deleted user's keys may stay, and a key may be inserted *)
(* for a user who is gone.                                                 *)
(***************************************************************************)
EXTENDS Naturals, Functions

CONSTANTS
  Users,     \* user IDs
  Keys,      \* API keys, each with the ID of its row
  Prefixes,  \* the first characters of a key
  PrefixOf,  \* those of each key
  Roles,     \* a user's role
  Passwords, \* passwords, for their hashes
  Admin,     \* the user that the first start creates
  None,      \* nothing
  MaxAge     \* five minutes

ASSUME PrefixAssumption == PrefixOf \in [Keys -> Prefixes]
ASSUME AgeAssumption    == MaxAge \in Nat
ASSUME RolesAssumption  == {"admin", "user"} \subseteq Roles /\ Admin \in Users

VARIABLES
  users,   \* the rows of users, by ID
  keys,    \* the rows of api_keys, by key: the ID of the owner
  lapsed,  \* keys whose expires_at has passed
  cached   \* apiKeys: an entry for each prefix, or None

Row   == [enabled : BOOLEAN, role : Roles, password : Passwords]
\* UserInfo is a copy of the owner's row; what matters of it is enabled.
Entry == [key : Keys, owner : Users, enabled : BOOLEAN, age : 0..(MaxAge + 1)]

PartialFunctions(S, T) == UNION {[D -> T] : D \in SUBSET S}

StoreTypeOK ==
  /\ users  \in PartialFunctions(Users, Row)
  /\ keys   \in PartialFunctions(Keys, Users)
  /\ lapsed \in SUBSET Keys
  /\ cached \in [Prefixes -> Entry \cup {None}]

\* createDefaultAdmin; the cache starts empty.
StoreInit ==
  /\ \E p \in Passwords :
       users = [u \in {Admin} |-> [enabled |-> TRUE, role |-> "admin", password |-> p]]
  /\ keys   = [k \in {} |-> Admin]
  /\ lapsed = {}
  /\ cached = [x \in Prefixes |-> None]

----------------------------------------------------------------------------
(* The tables *)

Exists(u)  == u \in DOMAIN users
Enabled(u) == Exists(u) /\ users[u].enabled

\* UserStore.Create and Delete, APIKeyStore.Create and Delete.
With(table, id, row) == [i \in DOMAIN table \cup {id} |-> IF i = id THEN row ELSE table[i]]
Without(table, ids)  == Restrict(table, DOMAIN table \ ids)

\* UserStore.Update writes every column but the password.
UpdateAll(table, u, row) ==
  IF u \notin DOMAIN table THEN table
  ELSE [table EXCEPT ![u] = [row EXCEPT !.password = table[u].password]]

\* The same with the password among the columns.
UpdateWithPassword(table, u, row) ==
  IF u \notin DOMAIN table THEN table ELSE [table EXCEPT ![u] = row]

Update(table, u, row) == UpdateAll(table, u, row)

\* UserStore.UpdatePassword
UpdatePassword(table, u, p) ==
  IF u \notin DOMAIN table THEN table ELSE [table EXCEPT ![u].password = p]

\* GetByKeyPrefix: the rows that the query may return the first of.
GetByKeyPrefix(x) == {k \in DOMAIN keys : PrefixOf[k] = x}

----------------------------------------------------------------------------
(* The cache *)

\* GetAPIKey: the entry of a prefix, or None, when it is old or its key expired.
Fresh(e) == e # None /\ e.age <= MaxAge /\ e.key \notin lapsed

\* An entry that is served until the cleanup comes.
Present(e) == e # None /\ e.key \notin lapsed

\* The lookup that leaves the age to the cleanup.
GetUntilCleanup(x) == IF Present(cached[x]) THEN cached[x] ELSE None

GetAPIKey(x) == IF Fresh(cached[x]) THEN cached[x] ELSE None

SetAPIKey(k, owner, enabled) ==
  [cached EXCEPT ![PrefixOf[k]] = [key |-> k, owner |-> owner, enabled |-> enabled, age |-> 0]]

DeleteAPIKey(x) == [cached EXCEPT ![x] = None]

Held == {x \in Prefixes : cached[x] # None}

Dropped(xs) == [x \in Prefixes |-> IF x \in xs THEN None ELSE cached[x]]

DeleteAPIKeysByUser(u) == Dropped({x \in Held : cached[x].owner = u})

----------------------------------------------------------------------------
(* Time *)

Expired == {x \in Held : cached[x].age > MaxAge}

\* A minute passes for the entries of the cache.
Minute ==
  /\ Held # Expired
  /\ cached' = [x \in Prefixes |->
       IF x \in Held \ Expired THEN [cached[x] EXCEPT !.age = @ + 1] ELSE cached[x]]
  /\ UNCHANGED <<users, keys, lapsed>>

\* cleanup
Cleanup ==
  /\ Expired # {}
  /\ cached' = Dropped(Expired)
  /\ UNCHANGED <<users, keys, lapsed>>

\* The expires_at of a key passes, cached or not.
Lapse(k) ==
  /\ k \in DOMAIN keys /\ k \notin lapsed
  /\ lapsed' = lapsed \cup {k}
  /\ UNCHANGED <<users, keys, cached>>
=============================================================================
