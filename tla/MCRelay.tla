------------------------------ MODULE MCRelay ------------------------------
(***************************************************************************)
(* A small instance of Relay for TLC: a request of each kind of protocol,  *)
(* one gin context, which the second may get when the first is done.       *)
(***************************************************************************)
EXTENDS Relay

CONSTANTS r1, r2

MCProtoOf == [r \in Requests |-> IF r = r1 THEN "anthropic" ELSE "openai"]
=============================================================================
