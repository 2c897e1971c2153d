-------------------------- MODULE AnthropicStream --------------------------
(***************************************************************************)
(* An answer in the Anthropic protocol (StreamParser in                    *)
(* internal/gateway/anthropic/converter.go): the chunks of a backend's     *)
(* Chat stream become content blocks that start, fill and stop, and the    *)
(* signatures of its calls are kept for the next request.  For the other   *)
(* protocols only the calls and their signatures are followed.             *)
(*                                                                         *)
(* The conversion of a chunk is taken event by event.  One goroutine       *)
(* converts a stream.                                                      *)
(***************************************************************************)
EXTENDS ThoughtSignatures

CONSTANTS
  Chunks,     \* the chunks a backend may send
  Answers,    \* the answers, not streamed, that it may send
  MaxLines    \* bound: lines that are read

\* Content blocks, by what they hold; each call has its own.
Thinking == 0
Text == 1
CallBlock(t) == t + 2
Blocks == 0..(MaxTools + 1)

Finish == {"none", "stop", "tool_calls", "length"}

Chunk == [thinking : BOOLEAN, text : BOOLEAN, extra : BOOLEAN, calls : Seq(Entry),
          finish : Finish]

Answer == [calls : Seq(Entry), extra : BOOLEAN, finish : Finish]

Nothing == [thinking |-> FALSE, text |-> FALSE, extra |-> FALSE, calls |-> <<>>,
            finish |-> "none"]

ASSUME LinesAssumption == MaxLines \in Nat

\* In an answer that is not streamed a call's index is its place.
ASSUME ChunksAssumption ==
  /\ Chunks \subseteq Chunk /\ Answers \subseteq Answer
  /\ \A a \in Answers : \A n \in DOMAIN a.calls : a.calls[n].index = n - 1

VARIABLES
  pc,        \* where the relay or the conversion is
  chunk,     \* what of the line is still to be converted
  parser,    \* what the conversion keeps between lines, but for the IDs of calls
  stream,    \* what the client has been sent
  read,      \* how many lines have been read
  sent,      \* history: the blocks the backend has sent parts of, the last of them,
             \* the calls it has named, and whether it has given its reason to stop
  strayed    \* history: the backend went back to a block, or on after its end

vars == <<svars, pc, chunk, parser, stream, read, sent, strayed>>

Init ==
  /\ SignaturesInit
  /\ pc     = "read"
  /\ chunk  = Nothing
  /\ parser = [begun |-> FALSE, active |-> None, number |-> [b \in Blocks |-> None], next |-> 0,
               started |-> {}, calls |-> FALSE]
  /\ stream = [phase |-> "new", open |-> {}, closed |-> {},
               parts |-> [n \in Blocks |-> 0], reason |-> "none"]
  /\ read    = 0
  /\ sent    = [blocks |-> {}, at |-> None, named |-> {}, finished |-> FALSE]
  /\ strayed = FALSE

Goto(stage) == pc' = stage

\* The backend's reason to stop, in the words of the Anthropic protocol.
ReasonSent(finish) ==
  CASE finish = "none"       -> "none"
    [] finish = "stop"       -> "end_turn"
    [] finish = "tool_calls" -> "tool_use"
    [] OTHER                 -> "max_tokens"

\* Mutant of ReasonOf: the reason is passed on as it is.
ReasonAsSent(finish, calls) == ReasonSent(finish)

\* The reason for an Anthropic client; some backends say "stop" when they ask for calls.
ReasonOf(finish, calls) ==
  IF finish = "stop" /\ calls THEN "tool_use" ELSE ReasonSent(finish)

\* What a client is told after it was told reason: to an OpenAI client the backend's words
\* are passed on as they are; in the Responses protocol there is no such reason.
ReasonTold(reason, finish, calls) ==
  IF finish = "none" \/ proto = "responses" THEN reason
  ELSE IF proto = "anthropic" THEN ReasonOf(finish, calls) ELSE ReasonSent(finish)

----------------------------------------------------------------------------
(* What the backend sends *)

Visits(c) ==
  (IF c.thinking THEN <<Thinking>> ELSE <<>>) \o (IF c.text THEN <<Text>> ELSE <<>>)
  \o [n \in 1..Len(c.calls) |-> CallBlock(c.calls[n].index)]

\* A backend stays with a block until it is done with it, names a call once and
\* before its arguments, and sends nothing after its reason to stop.
GoesOn(c) ==
  LET v == Visits(c)
      Before(n) == IF n = 1 THEN sent.at ELSE v[n - 1]
      named(t, n) == t \in sent.named \/ \E m \in 1..(n - 1) : c.calls[m].index = t /\ c.calls[m].name
  IN  /\ ~ sent.finished
      /\ \A n \in 1..Len(v) :
           v[n] = Before(n) \/ (v[n] \notin sent.blocks /\ \A m \in 1..(n - 1) : v[m] # v[n])
      /\ \A n \in 1..Len(c.calls) :
           LET e == c.calls[n]
           IN  IF e.name THEN ~ named(e.index, n) ELSE e.args => named(e.index, n)

SentAfter(c) ==
  LET v == Visits(c)
  IN  [blocks   |-> sent.blocks \cup {v[n] : n \in 1..Len(v)},
       at       |-> IF v = <<>> THEN sent.at ELSE v[Len(v)],
       named    |-> sent.named \cup {c.calls[n].index :
                                      n \in {m \in 1..Len(c.calls) : c.calls[m].name}},
       finished |-> sent.finished \/ c.finish # "none"]

ReadLine == pc = "read" /\ request = None /\ read < MaxLines /\ read' = read + 1

\* A chunk; the first one starts the message.
ReadChunk(c) ==
  /\ ReadLine
  /\ chunk' = c
  /\ sent' = SentAfter(c)
  /\ strayed' = (strayed \/ ~ GoesOn(c))
  /\ parser' = [parser EXCEPT !.begun = TRUE]
  /\ stream' = [stream EXCEPT !.phase = IF parser.begun THEN @ ELSE "begun"]
  /\ Goto("thinking")
  /\ UNCHANGED svars

\* The line [DONE]: the last block stops, then the message.
ReadDone ==
  /\ ReadLine
  /\ Goto("done")
  /\ sent' = [sent EXCEPT !.finished = TRUE]
  /\ strayed' = (strayed \/ stream.phase = "stopped")
  /\ UNCHANGED <<svars, chunk, parser, stream>>

\* An answer that is not streamed.
ReadAnswer(a) ==
  /\ ReadLine /\ read = 0
  /\ NoteAnswer(a.calls, a.extra)
  /\ stream' = [stream EXCEPT !.reason = ReasonTold("none", a.finish, a.calls # <<>>)]
  /\ Goto("answered")
  /\ UNCHANGED <<chunk, parser, sent, strayed>>

----------------------------------------------------------------------------
(* The conversion of a chunk *)

\* Mutant of Numbered: numbers are not used up.
NumberedAgain(b) ==
  IF parser.number[b] # None THEN parser ELSE [parser EXCEPT !.number[b] = parser.next]

\* The number of a block, which it is given when it is first seen.
Numbered(b) ==
  IF parser.number[b] # None THEN parser
  ELSE [parser EXCEPT !.number[b] = parser.next, !.next = @ + 1]

Number(b) == Numbered(b).number[b]

\* Another block is active and has to stop first.
MustStop(b) == parser.active # None /\ parser.active # Number(b)

StopOf(n) == [stream EXCEPT !.open = @ \ {n}, !.closed = @ \cup {n}]
StartOf(n) == [stream EXCEPT !.open = @ \cup {n}]
DeltaOf(n) == [stream EXCEPT !.parts[n] = @ + 1]

\* Mutant of StopActive: the client is not told.
StopActiveSilently(p) ==
  /\ UNCHANGED stream
  /\ parser' = [p EXCEPT !.active = None]

\* stopActiveBlock, with the parser's other changes.
StopActive(p) ==
  /\ stream' = StopOf(parser.active)
  /\ parser' = [p EXCEPT !.active = None]

\* A part of the thinking or of the text: another block stops, this one starts unless
\* it has, and the part is passed on.
Fill(b) ==
  \/ MustStop(b) /\ StopActive(Numbered(b)) /\ UNCHANGED <<pc, chunk>>
  \/ /\ ~ MustStop(b) /\ b \notin parser.started
     /\ parser' = [Numbered(b) EXCEPT !.started = @ \cup {b}, !.active = Number(b)]
     /\ stream' = StartOf(Number(b))
     /\ UNCHANGED <<pc, chunk>>

ConvertThinking ==
  /\ pc = "thinking" /\ proto = "anthropic"
  /\ IF chunk.thinking
     THEN \/ Fill(Thinking)
          \/ /\ ~ MustStop(Thinking) /\ Thinking \in parser.started
             /\ stream' = DeltaOf(Number(Thinking))
             /\ Goto("text") /\ UNCHANGED <<chunk, parser>>
     ELSE Goto("text") /\ UNCHANGED <<chunk, parser, stream>>
  /\ UNCHANGED <<svars, read, sent, strayed>>

ConvertText ==
  /\ pc = "text"
  /\ IF chunk.text
     THEN \/ Fill(Text)
          \/ /\ ~ MustStop(Text) /\ Text \in parser.started
             /\ stream' = DeltaOf(Number(Text))
             /\ Goto("extra") /\ UNCHANGED <<chunk, parser>>
     ELSE Goto("extra") /\ UNCHANGED <<chunk, parser, stream>>
  /\ UNCHANGED <<svars, read, sent, strayed>>

\* For the other protocols the line is passed on as it is, or converted by another module.
PassLine ==
  /\ pc = "thinking" /\ proto # "anthropic"
  /\ Goto("extra")
  /\ UNCHANGED <<svars, chunk, parser, stream, read, sent, strayed>>

ConvertExtra ==
  /\ pc = "extra"
  /\ IF chunk.extra /\ proto # "responses" THEN NoteExtra ELSE UNCHANGED svars
  /\ parser' = [parser EXCEPT !.calls = @ \/ chunk.calls # <<>>]
  /\ Goto("calls")
  /\ UNCHANGED <<chunk, stream, read, sent, strayed>>

\* The next entry of tool_calls: another block stops, and its ID and signature are noted.
ConvertEntry ==
  /\ pc = "calls" /\ proto = "anthropic" /\ chunk.calls # <<>>
  /\ LET b == CallBlock(Head(chunk.calls).index)
     IN  IF MustStop(b) THEN StopActive(Numbered(b))
         ELSE parser' = Numbered(b) /\ UNCHANGED stream
  /\ NoteCall(Head(chunk.calls)) /\ UNCHANGED called
  /\ Goto("call")
  /\ UNCHANGED <<chunk, read, sent, strayed>>

\* A name starts the call's block, under the ID the client will know.
StartCall ==
  /\ pc = "call" /\ Head(chunk.calls).name
  /\ LET t == Head(chunk.calls).index
         n == Number(CallBlock(t))
     IN  /\ parser' = [parser EXCEPT !.active = n]
         /\ stream' = StartOf(n)
         /\ called' = [called EXCEPT ![t] = toolId[t]]
  /\ chunk' = [chunk EXCEPT !.calls[1].name = FALSE]
  /\ UNCHANGED <<proto, cache, toolId, last, pending, owed, request,
                 pc, read, sent, strayed>>

FillCall ==
  /\ pc = "call" /\ ~ Head(chunk.calls).name
  /\ LET n == Number(CallBlock(Head(chunk.calls).index))
     IN  IF Head(chunk.calls).args
         THEN parser' = [parser EXCEPT !.active = n] /\ stream' = DeltaOf(n)
         ELSE UNCHANGED <<parser, stream>>
  /\ chunk' = [chunk EXCEPT !.calls = Tail(@)]
  /\ Goto("calls")
  /\ UNCHANGED <<svars, read, sent, strayed>>

\* In the other protocols the client is told the backend's ID: with any entry, or, in
\* the Responses protocol, with the first entry only.
PassEntry ==
  /\ pc = "calls" /\ proto # "anthropic" /\ chunk.calls # <<>>
  /\ LET e == Head(chunk.calls)
         b == CallBlock(e.index)
     IN  /\ IF proto = "responses" THEN NoteNothing(e) ELSE NoteCall(e)
         /\ parser' = [parser EXCEPT !.started = @ \cup {b}]
         /\ called' = IF called[e.index] = None /\ e.id # "none"
                         /\ (proto = "openai" \/ b \notin parser.started)
                      THEN [called EXCEPT ![e.index] = IdOf(e)] ELSE called
  /\ chunk' = [chunk EXCEPT !.calls = Tail(@)]
  /\ UNCHANGED <<pc, stream, read, sent, strayed>>

\* The reason to stop: the active block stops and the message is concluded.
ConvertFinish ==
  /\ pc = "calls" /\ chunk.calls = <<>>
  /\ IF chunk.finish = "none" \/ proto # "anthropic"
     THEN /\ stream' = [stream EXCEPT !.reason = ReasonTold(@, chunk.finish, parser.calls)]
          /\ Goto("read") /\ chunk' = Nothing /\ UNCHANGED parser
     ELSE IF parser.active # None
     THEN StopActive(parser) /\ UNCHANGED <<pc, chunk>>
     ELSE /\ stream' = [stream EXCEPT !.phase = "concluded", !.reason = ReasonOf(chunk.finish, parser.calls)]
          /\ Goto("read") /\ chunk' = Nothing /\ UNCHANGED parser
  /\ UNCHANGED <<svars, read, sent, strayed>>

FinishMessage ==
  /\ pc = "done"
  /\ IF parser.active # None /\ proto = "anthropic"
     THEN StopActive(parser) /\ UNCHANGED pc
     ELSE stream' = [stream EXCEPT !.phase = "stopped"] /\ Goto("read") /\ UNCHANGED parser
  /\ UNCHANGED <<svars, chunk, read, sent, strayed>>

Convert ==
  \/ ConvertThinking \/ ConvertText \/ PassLine \/ ConvertExtra
  \/ ConvertEntry \/ StartCall \/ FillCall \/ PassEntry
  \/ ConvertFinish \/ FinishMessage

\* The client goes on with the calls it has been asked for, when the answer has ended
\* or has broken off.
AskAgain ==
  /\ pc \in {"read", "answered"}
  /\ NextRequest
  /\ UNCHANGED <<pc, chunk, parser, stream, read, sent, strayed>>

Next ==
  \/ \E c \in Chunks : ReadChunk(c)
  \/ \E a \in Answers : ReadAnswer(a)
  \/ ReadDone \/ Convert \/ AskAgain

Spec == Init /\ [][Next]_vars

----------------------------------------------------------------------------
(* Properties *)

Stages == {"read", "thinking", "text", "extra", "calls", "call", "done", "answered"}

\* Every variable has its type, a block's number is not used again, and the block that
\* is active has one.
TypeOK ==
  /\ SignaturesTypeOK
  /\ pc \in Stages
  /\ chunk \in Chunk
  /\ parser \in [begun : BOOLEAN, active : Blocks \cup {None}, number : [Blocks -> Blocks \cup {None}],
                 next : 0..(MaxTools + 2), started : SUBSET Blocks, calls : BOOLEAN]
  /\ \A b \in Blocks : parser.number[b] # None => parser.number[b] < parser.next
  /\ parser.active # None => \E b \in Blocks : parser.number[b] = parser.active
  /\ stream \in [phase : {"new", "begun", "concluded", "stopped"}, open : SUBSET Blocks,
                 closed : SUBSET Blocks, parts : [Blocks -> Nat],
                 reason : {"none", "end_turn", "tool_use", "max_tokens"}]
  /\ read \in 0..MaxLines
  /\ pc = "call" => chunk.calls # <<>>

Client == INSTANCE BlockStream WITH
  Numbers <- Blocks,
  phase   <- stream.phase,
  open    <- stream.open,
  closed  <- stream.closed,
  parts   <- stream.parts

\* As long as the backend does not go back, what the client is sent are proper blocks:
\* numbered upwards, one after the other, filled only while they are open.
ProperBlocks == Client!Init /\ [][strayed' \/ Client!Next]_(Client!bvars)

\* A call goes back with a signature that came for it when its ID was known, if one did,
\* under whatever spelling the client holds the ID: late IDs, generated ones, both prefixes
\* and both ways of streaming included.  What came for the call is its own, where nothing
\* was kept for it of what came beside the calls.
SignaturesReturned ==
  request # None => \A t \in Asked : owed[t] # {} => Returned(t)

\* No call is sent back with the signature of another.
OwnSignatures ==
  request # None =>
    \A t \in Asked : called[t].name # Empty => request.calls[t].sig \in {None, t, Loose}

\* The results of the next request answer the calls of that request, by their IDs, and
\* no two of its calls have the same.
ResultsMatch ==
  request # None =>
    /\ request.results = {request.calls[t].id : t \in DOMAIN request.calls}
    /\ \A t, u \in Asked : called[t].name # Empty /\ request.calls[t].id = request.calls[u].id => t = u

\* An Anthropic client that is asked to call tools is not told that the turn has ended.
ReasonTellsCalls ==
  proto = "anthropic" /\ stream.reason = "end_turn" /\ ~ strayed => \A t \in Tools : called[t] = None

----------------------------------------------------------------------------
(* What a reader would expect, and the code does not do. *)

\* A call that came with its own signature goes back with it.  What came beside the calls
\* is kept to the end of the stream, and is stored in its place with every entry of the
\* call that brings no signature (converter.go:817-821, signature.go:322-326).
OwnComesFirst ==
  request # None => \A t \in Asked : t \in owed[t] => request.calls[t].sig = t

\* No client that is asked to call tools is told that the turn has ended.  OpenAI clients
\* are, by a backend that says so (openai/handler.go:45-53).
ReasonTellsEveryClient ==
  stream.reason = "end_turn" /\ ~ strayed => \A t \in Tools : called[t] = None
=============================================================================
