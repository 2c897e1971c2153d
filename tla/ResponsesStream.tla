-------------------------- MODULE ResponsesStream --------------------------
(***************************************************************************)
(* A streamed answer in the Responses protocol: the relay of the proxy     *)
(* (handleStreamResponse in internal/gateway/proxy/proxy.go) reads the     *)
(* lines of a backend's Chat stream one by one and has each converted to   *)
(* named events (internal/gateway/responses/stream.go).  The backend may   *)
(* end, fail or go on at any line.                                         *)
(*                                                                         *)
(* A stream is converted by one goroutine.  The conversion of a line is    *)
(* taken step by step, an event or a block of events at a time, in the     *)
(* order of the code.  What is written is what the client receives until   *)
(* it leaves; the heartbeat's events are left out.                         *)
(***************************************************************************)
EXTENDS Naturals, Sequences

CONSTANTS
  MaxTools,   \* bound: tool calls have indices 0 .. MaxTools - 1
  Chunks,     \* the chunks a backend may send
  MaxLines    \* bound: lines with data that are read

ASSUME BoundsAssumption == MaxTools \in Nat /\ MaxLines \in Nat

Tools == 0..(MaxTools - 1)

\* Output items are known by their output_index.
Message == 0
Reasoning == 1
CallItem(t) == t + 2
Items == 0..(MaxTools + 1)

\* What a chunk's first choice holds: text, reasoning, entries of tool_calls, each
\* with arguments or not, and a finish_reason.
Chunk == [text : BOOLEAN, reasoning : BOOLEAN,
          calls : Seq([index : Tools, args : BOOLEAN]), finish : BOOLEAN]

ASSUME ChunksAssumption == Chunks \subseteq Chunk

Nothing == [text |-> FALSE, reasoning |-> FALSE, calls |-> <<>>, finish |-> FALSE]

VARIABLES
  pc,       \* where the relay or the conversion is
  chunk,    \* what of the line is still to be converted
  state,    \* what the conversion keeps between lines
  stream,   \* what has been written to the client
  read,     \* how many lines with data have been read
  overran   \* history: the backend sent a chunk after it had ended

vars == <<pc, chunk, state, stream, read, overran>>

\* Of the conversion's state: flags, the items that have been added, those whose
\* closing event has been sent, and how much of an item was collected to be repeated
\* in it (reasoning_text, and arguments in tc_state_map).
State == [created : BOOLEAN, completed : BOOLEAN,
          known : SUBSET Items, done : SUBSET Items, text : [Items -> Nat]]

NewState == [created |-> FALSE, completed |-> FALSE,
             known |-> {}, done |-> {}, text |-> [i \in Items |-> 0]]

Init ==
  /\ pc     = "read"
  /\ chunk  = Nothing
  /\ state  = NewState
  /\ stream = [begun |-> FALSE, item |-> [i \in Items |-> "absent"],
               parts |-> [i \in Items |-> 0], carried |-> [i \in Items |-> 0],
               final |-> "none", late |-> FALSE]
  /\ read    = 0
  /\ overran = FALSE

Goto(stage) == pc' = stage

\* Something is written: the stream is now s.
Send(s) == stream' = [s EXCEPT !.late = @ \/ stream.final # "none"]

SendAdded(i) == Send([stream EXCEPT !.item[i] = "open"])
SendDelta(i) == Send([stream EXCEPT !.parts[i] = @ + 1])

----------------------------------------------------------------------------
(* The lines of the backend *)

ReadLine == pc = "read" /\ read < MaxLines /\ read' = read + 1

\* A chunk; the first one begins the response and adds its message.
ReadChunk(c) ==
  /\ ReadLine
  /\ chunk' = c
  /\ overran' = (overran \/ state.completed)
  /\ IF state.created
     THEN UNCHANGED <<state, stream>>
     ELSE /\ state' = [state EXCEPT !.created = TRUE, !.known = @ \cup {Message}]
          /\ Send([stream EXCEPT !.begun = TRUE, !.item[Message] = "open"])
  /\ Goto("text")

\* Mutant of Finish: the response is closed without a note of it.
FinishUnmarked(stage) ==
  IF state.completed
  THEN Goto(stage) /\ UNCHANGED state
  ELSE Goto("close") /\ state' = state

\* The response is to be closed, unless it has been.
Finish(stage) ==
  IF state.completed
  THEN Goto(stage) /\ UNCHANGED state
  ELSE Goto("close") /\ state' = [state EXCEPT !.completed = TRUE]

\* Mutant of ReadDone: the line always closes the response.
ReadDoneAgain ==
  /\ ReadLine
  /\ Goto("close") /\ state' = [state EXCEPT !.completed = TRUE]
  /\ UNCHANGED <<chunk, stream, overran>>

\* The line [DONE].
ReadDone ==
  /\ ReadLine
  /\ Finish("read")
  /\ UNCHANGED <<chunk, stream, overran>>

\* An error of the backend, sent as a line: response.failed and error.
ReadError ==
  /\ ReadLine
  /\ IF state.completed
     THEN UNCHANGED <<state, stream>>
     ELSE /\ state' = [state EXCEPT !.completed = TRUE]
          /\ Send([stream EXCEPT !.final = "failed"])
  /\ UNCHANGED <<pc, chunk, overran>>

\* The backend's stream ends, in the middle of a line or not, or fails; the client
\* has gone; or the time is over.  (A line without an end is not converted; comments,
\* blank lines and what cannot be parsed are passed over.)
End ==
  /\ pc = "read"
  /\ Goto("ended")
  /\ UNCHANGED <<chunk, state, stream, read, overran>>

----------------------------------------------------------------------------
(* The conversion of a chunk *)

ConvertText ==
  /\ pc = "text"
  /\ IF chunk.text THEN SendDelta(Message) ELSE UNCHANGED stream
  /\ Goto("reasoning")
  /\ UNCHANGED <<chunk, state, read, overran>>

\* response.output_item.added, before an item's first part.
AddItem(i) ==
  /\ i \notin state.known
  /\ state' = [state EXCEPT !.known = @ \cup {i}]
  /\ SendAdded(i)
  /\ UNCHANGED <<pc, chunk>>

\* Mutant of AddPart: the part is passed on but not collected.
AddPartUncollected(i) ==
  /\ state' = state
  /\ SendDelta(i)

\* A part of an item that will be repeated in its closing event.
AddPart(i) ==
  /\ state' = [state EXCEPT !.text[i] = @ + 1]
  /\ SendDelta(i)

ConvertReasoning ==
  /\ pc = "reasoning"
  /\ IF chunk.reasoning
     THEN \/ AddItem(Reasoning)
          \/ Reasoning \in state.known /\ AddPart(Reasoning)
               /\ Goto("calls") /\ UNCHANGED chunk
     ELSE Goto("calls") /\ UNCHANGED <<chunk, state, stream>>
  /\ UNCHANGED <<read, overran>>

\* The next entry of tool_calls; the first of an index adds the item.
ConvertCall ==
  /\ pc = "calls" /\ chunk.calls # <<>>
  /\ LET call == Head(chunk.calls)
         i == CallItem(call.index)
     IN  \/ AddItem(i)
         \/ /\ i \in state.known
            /\ IF call.args THEN AddPart(i) ELSE UNCHANGED <<state, stream>>
            /\ chunk' = [chunk EXCEPT !.calls = Tail(@)]
            /\ UNCHANGED pc
  /\ UNCHANGED <<read, overran>>

ConvertFinish ==
  /\ pc = "calls" /\ chunk.calls = <<>>
  /\ chunk' = Nothing
  /\ IF chunk.finish THEN Finish("read") ELSE Goto("read") /\ UNCHANGED state
  /\ UNCHANGED <<stream, read, overran>>

----------------------------------------------------------------------------
(* buildCompletionEvents *)

ToClose == state.known \ state.done

\* Mutant of CloseItem: a closed item is not marked as done.
CloseItemUnmarked(i) ==
  /\ i \in ToClose /\ \A j \in ToClose : i <= j
  /\ state' = state
  /\ Send([stream EXCEPT !.item[i] = "closed", !.carried[i] = state.text[i]])

\* Mutant of CloseItem: a reasoning item closes without its text.
CloseItemEmpty(i) ==
  /\ i \in ToClose /\ \A j \in ToClose : i <= j
  /\ state' = [state EXCEPT !.done = @ \cup {i}]
  /\ Send([stream EXCEPT !.item[i] = "closed",
                         !.carried[i] = IF i = Reasoning THEN 0 ELSE state.text[i]])

\* The closing events of an item: the message first, then the reasoning, then the
\* calls by their index.
CloseItem(i) ==
  /\ i \in ToClose /\ \A j \in ToClose : i <= j
  /\ state' = [state EXCEPT !.done = @ \cup {i}]
  /\ Send([stream EXCEPT !.item[i] = "closed", !.carried[i] = state.text[i]])

CloseNext ==
  /\ pc = "close"
  /\ \E i \in Items : CloseItem(i)
  /\ UNCHANGED <<pc, chunk, read, overran>>

Complete ==
  /\ pc = "close" /\ ToClose = {}
  /\ Send([stream EXCEPT !.final = "completed"])
  /\ Goto("read")
  /\ UNCHANGED <<chunk, state, read, overran>>

----------------------------------------------------------------------------
(* Specification *)

Convert ==
  \/ ConvertText \/ ConvertReasoning \/ ConvertCall \/ ConvertFinish
  \/ CloseNext \/ Complete

Next ==
  \/ \E c \in Chunks : ReadChunk(c)
  \/ ReadDone \/ ReadError \/ End
  \/ Convert

Spec == Init /\ [][Next]_vars

\* The conversion waits for nothing.
FairSpec == Spec /\ WF_vars(Convert)

----------------------------------------------------------------------------
(* Properties *)

Converting == {"text", "reasoning", "calls"}

Stages == Converting \cup {"read", "close", "ended"}

\* Every variable has its type; nothing is known before the response is created, and
\* a response is closed once.
TypeOK ==
  /\ pc \in Stages
  /\ chunk \in Chunk
  /\ state \in State
  /\ stream \in [begun : BOOLEAN, item : [Items -> {"absent", "open", "closed"}],
                 parts : [Items -> Nat], carried : [Items -> Nat],
                 final : {"none", "completed", "failed"}, late : BOOLEAN]
  /\ read \in 0..MaxLines
  /\ overran \in BOOLEAN
  /\ state.created <=> Message \in state.known
  /\ pc \in Converting => state.created
  /\ pc = "close" => state.completed

\* What is known of an item is what has been sent of it.
Matches(i) ==
  /\ stream.item[i] = IF i \notin state.known THEN "absent"
                      ELSE IF i \notin state.done THEN "open" ELSE "closed"
  /\ i # Message => state.text[i] = stream.parts[i]
  /\ i \notin state.known => stream.parts[i] = 0

\* What the conversion remembers is what it has sent: without this an item would be
\* added twice, closed with a part missing, or left open.
Remembered ==
  /\ stream.begun = state.created
  /\ (stream.final # "none") <=> (state.completed /\ pc # "close")
  /\ state.done \subseteq state.known
  /\ \A i \in Items : Matches(i)
  /\ state.done # {} => state.completed

\* Nothing follows the final event, and every item of a completed response is closed,
\* unless the backend itself went on after its end.
EndsWell ==
  ~ overran =>
    /\ ~ stream.late
    /\ stream.final = "completed" => \A i \in Items : stream.item[i] # "open"
    /\ pc \in Converting => ~ state.completed

\* The inductive invariant of the proofs.
IInv == TypeOK /\ Remembered /\ EndsWell

\* The stream is an implementation of what a client may rely on.
Events == INSTANCE EventStream WITH
  First   <- Message,
  begun   <- stream.begun,
  item    <- stream.item,
  parts   <- stream.parts,
  carried <- [i \in Items |-> IF i = Message THEN 0 ELSE stream.carried[i]],
  final   <- stream.final

\* Whatever the backend sends, the events make a proper response.
ImplementsEventStream == Events!Spec

\* A backend that ends its answer, or reports an error, gets the client a final event.
FinalEventFollows == state.completed ~> stream.final # "none"
=============================================================================
