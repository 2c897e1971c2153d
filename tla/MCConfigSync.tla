---------------------------- MODULE MCConfigSync ----------------------------
(***************************************************************************)
(* A small instance of ConfigSync for TLC: the process starts with no      *)
(* model, or with one model of one backend.                                *)
(***************************************************************************)
EXTENDS ConfigSync, TLC

CONSTANTS m1, b1, b2

On(b)  == [id |-> b, enabled |-> TRUE]
Off(b) == [id |-> b, enabled |-> FALSE]

MCInitial == { <<>>, <<[id |-> m1, enabled |-> TRUE, backends |-> <<On(b1)>>]>> }

\* No backend, two of them, and the same one twice.
MCLists == { <<>>, <<On(b1), On(b2)>>, <<On(b1), Off(b1)>> }

Symmetry == Permutations(Admins)
=============================================================================
