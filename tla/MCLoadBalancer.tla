--------------------------- MODULE MCLoadBalancer ---------------------------
(***************************************************************************)
(* Small instances of LoadBalancer for TLC: one model with a backend of    *)
(* weight 0 (which counts as 1) and limit 1 and one of weight 2 without a  *)
(* limit; reloads remove the first, bring it back, limit the second and    *)
(* add a second model that shares it under another limit.                  *)
(***************************************************************************)
EXTENDS LoadBalancer, TLC

CONSTANTS m1, m2, b1, b2

At(id, weight, max) == [id |-> id, weight |-> weight, max |-> max]

Serves(id, slots) == [id |-> id, slots |-> slots]

MCCatalogues ==
  { << Serves(m1, <<At(b1, 0, 1), At(b2, 2, 0)>>) >>,
    << Serves(m1, <<At(b2, 1, 2)>>), Serves(m2, <<At(b2, 1, 1)>>) >> }

\* Requests are interchangeable in the safety runs.
Symmetry == Permutations(Requests)
=============================================================================
