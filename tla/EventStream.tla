---------------------------- MODULE EventStream ----------------------------
(***************************************************************************)
(* What a client of the Responses protocol may rely on in the stream of    *)
(* events it is sent: the response is begun once, every output item is     *)
(* added once and before its parts, the closing event of a reasoning item  *)
(* or of a call repeats the whole of it, there is one final event at most, *)
(* and a response that completes leaves nothing open.  ResponsesStream     *)
(* implements this specification.                                          *)
(***************************************************************************)
EXTENDS Naturals

CONSTANTS
  Items,   \* the output items, by their output index
  First    \* the message, which is added with the beginning of the response

VARIABLES
  begun,     \* whether response.created has been sent
  item,      \* "absent", "open" or "closed"
  parts,     \* how many deltas of an item have been sent
  carried,   \* how many of them its closing event has repeated
  final      \* the final event: "none", "completed" or "failed"

evars == <<begun, item, parts, carried, final>>

Init ==
  /\ begun   = FALSE
  /\ item    = [i \in Items |-> "absent"]
  /\ parts   = [i \in Items |-> 0]
  /\ carried = [i \in Items |-> 0]
  /\ final   = "none"

Begin ==
  /\ ~ begun /\ item[First] = "absent"
  /\ begun' = TRUE
  /\ item' = [item EXCEPT ![First] = "open"]
  /\ UNCHANGED <<parts, carried, final>>

Add(i) ==
  /\ begun /\ item[i] = "absent"
  /\ item' = [item EXCEPT ![i] = "open"]
  /\ UNCHANGED <<begun, parts, carried, final>>

\* A part of an open item.  (A backend that goes on after its end may add to a
\* closed one, after the final event.)
Delta(i) ==
  /\ item[i] = "open" \/ (item[i] = "closed" /\ final # "none")
  /\ parts' = [parts EXCEPT ![i] = @ + 1]
  /\ UNCHANGED <<begun, item, carried, final>>

Close(i) ==
  /\ item[i] = "open" /\ final = "none"
  /\ item' = [item EXCEPT ![i] = "closed"]
  /\ carried' = IF i = First THEN carried ELSE [carried EXCEPT ![i] = parts[i]]
  /\ UNCHANGED <<begun, parts, final>>

Complete ==
  /\ final = "none" /\ \A i \in Items : item[i] # "open"
  /\ final' = "completed"
  /\ UNCHANGED <<begun, item, parts, carried>>

Fail ==
  /\ final = "none"
  /\ final' = "failed"
  /\ UNCHANGED <<begun, item, parts, carried>>

Next ==
  \/ Begin \/ Complete \/ Fail
  \/ \E i \in Items : Add(i) \/ Delta(i) \/ Close(i)

Spec == Init /\ [][Next]_evars
=============================================================================
