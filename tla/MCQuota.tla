------------------------------ MODULE MCQuota ------------------------------
(***************************************************************************)
(* Small instances of Quota for TLC.  A day is four ticks, a window two    *)
(* (sixty seconds); that of MCLong, which CountsKept needs and no run      *)
(* uses, three.                                                            *)
(***************************************************************************)
EXTENDS Quota, TLC

CONSTANTS a, b, c

\* Bound to the user: model a, one request per window.
MCBound == [models |-> {a}, limit |-> 1, window |-> 2, daily |-> 0,
            default |-> None, hours |-> {}]

\* The default policy: model b, by night, one request per window and two a day;
\* what it does not list is served by a.
MCDefault == [models |-> {b}, limit |-> 1, window |-> 2, daily |-> 2,
              default |-> a, hours |-> {<<3, 2>>}]

MCPolicies == {MCBound, MCDefault}

MCBoundSeq == <<MCBound>>

\* One policy whose window is longer than the age at which counts are dropped.
MCLong == [models |-> {a}, limit |-> 1, window |-> 3, daily |-> 2,
           default |-> None, hours |-> {}]

MCLongOnly == {MCLong}

MCLongSeq == <<MCLong>>

Symmetry == Permutations(Requests)
=============================================================================
