----------------------------- MODULE MCApiKeys -----------------------------
(***************************************************************************)
(* Small instances of ApiKeys for TLC: an administrator, who may lose the  *)
(* role, and a user, whose keys begin alike.  One instance has sessions    *)
(* only, the other keys and one session that works on them.                *)
(***************************************************************************)
EXTENDS ApiKeys

CONSTANTS root, ann, k1, k2, p1, p2, x

MCPrefixOf == [k \in Keys |-> x]

Order(op) == [op |-> op, of |-> ann, role |-> None, enabled |-> None, password |-> p1, key |-> None]

Disable == [Order("edit") EXCEPT !.enabled = FALSE]
Enable  == [Order("edit") EXCEPT !.enabled = TRUE]

SessionOrders ==
  { Disable, [Order("edit") EXCEPT !.role = "user", !.of = root],
    Order("read"), [Order("password") EXCEPT !.password = p2] }

KeyOrders ==
  { Disable, Enable, Order("create"), Order("delete") }
  \cup { [Order(op) EXCEPT !.key = k] : op \in {"newkey", "dropkey"}, k \in Keys }
=============================================================================
