------------------------------ MODULE ApiKeys ------------------------------
(***************************************************************************)
(* ValidateKey (internal/domain/apikey/service.go), which admits requests  *)
(* of the proxy by their API key, beside the handlers of Accounts that     *)
(* change keys and users meanwhile.  A validation reads the cache, or the  *)
(* row of the key, then the row of the owner, then fills the cache: steps  *)
(* between which anything may happen.  A read of the database may fail.    *)
(***************************************************************************)
EXTENDS Accounts

CONSTANT Requests  \* validations that run at the same time

VARIABLE request   \* the key that each one is about, and what was read for it

vars == <<storeVars, accountVars, request>>

NoRequest == [at |-> "idle", key |-> None, owner |-> None, enabled |-> FALSE]
Request   == [at : {"idle", "hit", "missed", "owned", "checked", "accepted"},
              key : Keys \cup {None}, owner : Users \cup {None}, enabled : BOOLEAN]

TypeOK == StoreTypeOK /\ AccountsTypeOK /\ request \in [Requests -> Request]

Init == StoreInit /\ AccountsInit /\ request = [r \in Requests |-> NoRequest]

----------------------------------------------------------------------------
Becomes(r, stage) == request' = [request EXCEPT ![r].at = stage]

\* An error; what the header holds is no token of a user either.
Refuses(r) == request' = [request EXCEPT ![r] = NoRequest]

\* The comparison of the hashes, or none.
MatchesAnyway(e, k) == TRUE
Matches(e, k)       == e.key = k

\* A key that was issued comes; the cache is asked, and the hash compared.
Looks(r, k) ==
  LET e == GetAPIKey(PrefixOf[k]) IN
  /\ request[r].at = "idle" /\ k \in born
  /\ request' = IF e = None THEN [request EXCEPT ![r] = [NoRequest EXCEPT !.at = "missed", !.key = k]]
                ELSE [request EXCEPT ![r] = [at |-> "hit", key |-> k, owner |-> e.owner,
                                             enabled |-> e.enabled]]
  /\ e # None => Matches(e, k)
  /\ UNCHANGED <<storeVars, accountVars>>

\* Cached: the owner is read again, and a failure of that leaves what the cache knows.
HitReads(r) ==
  LET q == request[r] IN
  /\ q.at = "hit"
  /\ \/ Enabled(q.owner)  /\ Becomes(r, "accepted") /\ UNCHANGED cached
     \/ ~Enabled(q.owner) /\ Refuses(r) /\ cached' = DeleteAPIKey(PrefixOf[q.key])
     \/ q.enabled         /\ Becomes(r, "accepted") /\ UNCHANGED cached
     \/ ~q.enabled        /\ Refuses(r) /\ UNCHANGED cached
  /\ UNCHANGED <<users, keys, lapsed, accountVars>>

\* Not cached: the row is the first with the prefix, and may be another key's.
MissReads(r) ==
  LET q == request[r] IN
  /\ q.at = "missed"
  /\ \/ \E k \in GetByKeyPrefix(PrefixOf[q.key]) :
          IF Matches([key |-> k], q.key) /\ k \notin lapsed
            THEN request' = [request EXCEPT ![r].at = "owned", ![r].owner = keys[k]]
            ELSE Refuses(r)
     \/ Refuses(r)
  /\ UNCHANGED <<storeVars, accountVars>>

OwnerReads(r) ==
  LET q == request[r] IN
  /\ q.at = "owned"
  /\ \/ Enabled(q.owner) /\ request' = [request EXCEPT ![r].at = "checked", ![r].enabled = TRUE]
     \/ Refuses(r)
  /\ UNCHANGED <<storeVars, accountVars>>

Stores(r) ==
  LET q == request[r] IN
  /\ q.at = "checked"
  /\ cached' = SetAPIKey(q.key, q.owner, q.enabled)
  /\ Becomes(r, "accepted")
  /\ UNCHANGED <<users, keys, lapsed, accountVars>>

\* The request goes on to the proxy.
Passes(r) ==
  /\ request[r].at = "accepted"
  /\ Refuses(r)
  /\ UNCHANGED <<storeVars, accountVars>>

Validates(r) == HitReads(r) \/ MissReads(r) \/ OwnerReads(r) \/ Stores(r) \/ Passes(r)

----------------------------------------------------------------------------
Next ==
  \/ AccountsNext /\ UNCHANGED request
  \/ \E r \in Requests : Validates(r) \/ \E k \in Keys : Looks(r, k)
  \/ (Minute \/ Cleanup \/ \E k \in Keys : Lapse(k)) /\ UNCHANGED <<accountVars, request>>

\* Time passes, and what has begun is carried on: a statement of the database returns.
Fairness ==
  /\ WF_vars(Minute /\ UNCHANGED <<accountVars, request>>)
  /\ \A s \in Sessions : /\ WF_vars(Handles(s) /\ UNCHANGED request)
                         /\ WF_vars(Ages(s) /\ UNCHANGED request)
  /\ \A r \in Requests : WF_vars(Validates(r))

Spec == Init /\ [][Next]_vars /\ Fairness

----------------------------------------------------------------------------
(* Properties *)

Accepted(k) == \E r \in Requests : request[r].at = "accepted" /\ request[r].key = k

\* A key that was deleted or has expired, or whose owner stays disabled or gone, is in
\* the end refused, although a validation that read it before stores it in the cache
\* again, and although the database may never answer again about the owner.
KeysRevoked ==
  /\ \A k \in Keys : <>[](k \notin DOMAIN keys \/ k \in lapsed) => <>[]~Accepted(k)
  /\ \A u \in Users : <>[]~Enabled(u) =>
       <>[](\A r \in Requests : ~(request[r].at = "accepted" /\ request[r].owner = u))

\* A key is accepted for its own owner, whatever other key begins alike.
OwnersKept ==
  \A r \in Requests : request[r].at = "accepted" =>
    (request[r].key \in DOMAIN keys => keys[request[r].key] = request[r].owner)
=============================================================================
