---------------------------- MODULE BlockStream ----------------------------
(***************************************************************************)
(* What a client of the Anthropic protocol may rely on in the stream of    *)
(* events it is sent: content blocks are numbered upwards, they start and  *)
(* stop one after the other, parts come only for the block that is open,   *)
(* and the message is concluded when none is.  AnthropicStream implements  *)
(* this specification for a backend that does not go back.                 *)
(***************************************************************************)
EXTENDS Naturals

CONSTANT Numbers   \* the numbers of blocks

VARIABLES
  phase,    \* "new", "begun", "concluded" (message_delta) or "stopped"
  open,     \* the blocks that are open
  closed,   \* the blocks that have been stopped
  parts     \* how many deltas a block has had

bvars == <<phase, open, closed, parts>>

Init ==
  /\ phase = "new"
  /\ open = {} /\ closed = {}
  /\ parts = [n \in Numbers |-> 0]

Begin ==
  /\ phase = "new" /\ phase' = "begun"
  /\ UNCHANGED <<open, closed, parts>>

Start(n) ==
  /\ phase = "begun" /\ open = {}
  /\ \A m \in closed : m < n
  /\ open' = {n}
  /\ UNCHANGED <<phase, closed, parts>>

Delta(n) ==
  /\ n \in open
  /\ parts' = [parts EXCEPT ![n] = @ + 1]
  /\ UNCHANGED <<phase, open, closed>>

Stop(n) ==
  /\ n \in open
  /\ open' = open \ {n} /\ closed' = closed \cup {n}
  /\ UNCHANGED <<phase, parts>>

Conclude ==
  /\ phase = "begun" /\ open = {}
  /\ phase' = "concluded"
  /\ UNCHANGED <<open, closed, parts>>

\* A backend may end without a reason, or without an answer.
End ==
  /\ open = {} /\ phase # "stopped"
  /\ phase' = "stopped"
  /\ UNCHANGED <<open, closed, parts>>

Next ==
  \/ Begin \/ Conclude \/ End
  \/ \E n \in Numbers : Start(n) \/ Delta(n) \/ Stop(n)
=============================================================================
