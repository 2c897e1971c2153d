-------------------------- MODULE AdmissionControl --------------------------
(***************************************************************************)
(* What the gateway's load balancer promises to the requests that use it,  *)
(* with no lock, scan or compare-and-swap in sight: a counter of requests  *)
(* in flight per backend, moved by one at a time.  A regular admission     *)
(* never takes a backend past its limit; a degraded admission ignores the  *)
(* limit; a request gives back what it was given exactly once, and what it *)
(* gives back is lost when its backend was meanwhile reconfigured away.    *)
(* LoadBalancer implements this specification.                             *)
(***************************************************************************)
EXTENDS Naturals

CONSTANTS
  Requests,   \* the request goroutines
  Backends,   \* backend IDs
  None        \* "holds no permit"

VARIABLES
  inUse,      \* inUse[b]: permits of backend b counted as taken
  limit,      \* limit[b]: most permits of b at a time, 0 for no limit
  up,         \* the backends that are healthy
  holder      \* holder[r]: the permit request r holds, or None

avars == <<inUse, limit, up, holder>>

Permits == [id : Backends, degraded : BOOLEAN]

Init ==
  /\ inUse  = [b \in Backends |-> 0]
  /\ limit  \in [Backends -> Nat]
  /\ up     \in SUBSET Backends
  /\ holder = [r \in Requests |-> None]

Take(r, b, degraded) ==
  /\ holder[r] = None
  /\ holder' = [holder EXCEPT ![r] = [id |-> b, degraded |-> degraded]]
  /\ inUse'  = [inUse EXCEPT ![b] = @ + 1]
  /\ UNCHANGED <<limit, up>>

\* A regular admission: by a healthy backend with room.
Admit(r, b) ==
  /\ b \in up
  /\ limit[b] = 0 \/ inUse[b] < limit[b]
  /\ Take(r, b, FALSE)

Degrade(r, b) == Take(r, b, TRUE)

Finish(r) ==
  /\ holder[r] # None
  /\ holder' = [holder EXCEPT ![r] = None]
  /\ LET b == holder[r].id
     IN  \/ inUse[b] > 0 /\ inUse' = [inUse EXCEPT ![b] = @ - 1]
         \/ UNCHANGED inUse
  /\ UNCHANGED <<limit, up>>

\* Failures and recoveries.
Assess ==
  /\ up' \in SUBSET Backends
  /\ UNCHANGED <<inUse, limit, holder>>

\* New limits.  A backend that is removed, or added, counts from 0.
Reconfigure ==
  /\ limit' \in [Backends -> Nat]
  /\ up' \in SUBSET Backends
  /\ inUse' \in [Backends -> Nat]
  /\ \A b \in Backends : inUse'[b] \in {0, inUse[b]}
  /\ UNCHANGED holder

Next ==
  \/ \E r \in Requests, b \in Backends : Admit(r, b) \/ Degrade(r, b)
  \/ \E r \in Requests : Finish(r)
  \/ Assess \/ Reconfigure

Spec == Init /\ [][Next]_avars
=============================================================================
