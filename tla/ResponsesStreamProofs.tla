----------------------- MODULE ResponsesStreamProofs -----------------------
(***************************************************************************)
(* Proofs about ResponsesStream for every set of chunks, every number of   *)
(* tool calls and of lines.                                                *)
(***************************************************************************)
EXTENDS ResponsesStream, TLAPS, SequenceTheorems

Streams == [begun : BOOLEAN, item : [Items -> {"absent", "open", "closed"}],
            parts : [Items -> Nat], carried : [Items -> Nat],
            final : {"none", "completed", "failed"}, late : BOOLEAN]

\* The message, the reasoning and every call are items of their own.
LEMMA ItemFacts ==
  /\ Message \in Items /\ Reasoning \in Items /\ Reasoning # Message
  /\ \A t \in Tools : CallItem(t) \in Items /\ CallItem(t) # Message
BY BoundsAssumption DEF Message, Reasoning, Items, Tools, CallItem

\* An empty chunk is a chunk.
LEMMA NothingIsAChunk == Nothing \in Chunk
BY EmptySeq DEF Nothing, Chunk

\* The first entry of a list of calls names a call; the rest are a list of calls.
LEMMA CallFacts ==
  ASSUME TypeOK, chunk.calls # <<>>
  PROVE  /\ Head(chunk.calls) \in [index : Tools, args : BOOLEAN]
         /\ Tail(chunk.calls) \in Seq([index : Tools, args : BOOLEAN])
<1>1. chunk.calls \in Seq([index : Tools, args : BOOLEAN])
  BY DEF TypeOK, Chunk
<1> QED
  BY <1>1, HeadTailProperties

----------------------------------------------------------------------------
(* Types *)

LEMMA TypeInit == Init => TypeOK
<1> SUFFICES ASSUME Init PROVE TypeOK
  OBVIOUS
<1>1. state \in State /\ ~ state.created /\ state.known = {}
  BY DEF Init, State, NewState
<1>2. stream \in Streams
  BY DEF Init, Streams
<1>3. read \in 0..MaxLines
  BY BoundsAssumption DEF Init
<1> QED
  BY <1>1, <1>2, <1>3, NothingIsAChunk
     DEF Init, TypeOK, Streams, Stages, Converting

\* What is written leaves the stream a stream, and its other parts as they are.
LEMMA SendFacts ==
  ASSUME stream \in Streams, NEW s \in Streams, Send(s)
  PROVE  /\ stream' \in Streams
         /\ stream'.begun = s.begun /\ stream'.item = s.item /\ stream'.parts = s.parts
         /\ stream'.carried = s.carried /\ stream'.final = s.final
         /\ stream'.late <=> s.late \/ stream.final # "none"
<1> DEFINE late == s.late \/ stream.final # "none"
<1>1. stream' = [s EXCEPT !.late = late]
  BY DEF Send
<1>2. late \in BOOLEAN
  OBVIOUS
<1>3. (late <=> s.late \/ stream.final # "none")
  OBVIOUS
<1> HIDE DEF late
<1> QED
  BY <1>1, <1>2, <1>3 DEF Streams

\* Streams that differ from another in one place.
LEMMA StreamFacts ==
  ASSUME stream \in Streams, NEW i \in Items, NEW n \in Nat,
         NEW end \in {"completed", "failed"}
  PROVE  /\ [stream EXCEPT !.item[i] = "open"] \in Streams
         /\ [stream EXCEPT !.parts[i] = @ + 1] \in Streams
         /\ [stream EXCEPT !.begun = TRUE, !.item[i] = "open"] \in Streams
         /\ [stream EXCEPT !.item[i] = "closed", !.carried[i] = n] \in Streams
         /\ [stream EXCEPT !.final = end] \in Streams
<1>1. [stream EXCEPT !.item[i] = "open"] \in Streams
  BY DEF Streams
<1>2. [stream EXCEPT !.parts[i] = @ + 1] \in Streams
  BY DEF Streams
<1>3. [stream EXCEPT !.begun = TRUE, !.item[i] = "open"] \in Streams
  <2> DEFINE s == [stream EXCEPT !.item[i] = "open"]
  <2>1. [stream EXCEPT !.begun = TRUE, !.item[i] = "open"] = [s EXCEPT !.begun = TRUE]
    BY DEF Streams
  <2>2. \A t \in Streams : [t EXCEPT !.begun = TRUE] \in Streams
    BY DEF Streams
  <2> QED
    BY <1>1, <2>1, <2>2
<1>4. [stream EXCEPT !.item[i] = "closed", !.carried[i] = n] \in Streams
  BY DEF Streams
<1>5. [stream EXCEPT !.final = end] \in Streams
  BY DEF Streams
<1> QED
  BY <1>1, <1>2, <1>3, <1>4, <1>5

\* The events that add to the stream.
LEMMA SendTypes ==
  ASSUME stream \in Streams, NEW i \in Items
  PROVE  /\ SendAdded(i) => stream' \in Streams
         /\ SendDelta(i) => stream' \in Streams
BY SendFacts, StreamFacts DEF SendAdded, SendDelta

LEMMA TypeStep == TypeOK /\ [Next]_vars => TypeOK'
<1> SUFFICES ASSUME TypeOK, [Next]_vars PROVE TypeOK'
  OBVIOUS
<1> USE ItemFacts
<1>0. /\ pc \in Stages /\ chunk \in Chunk /\ state \in State /\ stream \in Streams
      /\ read \in 0..MaxLines /\ overran \in BOOLEAN
      /\ state.created <=> Message \in state.known
      /\ pc \in Converting => state.created
      /\ pc = "close" => state.completed
  BY DEF TypeOK, Streams
<1>1. ASSUME NEW c \in Chunks, ReadChunk(c) PROVE TypeOK'
  <2>1. c \in Chunk
    BY ChunksAssumption
  <2>2. state' \in State /\ state'.created /\ Message \in state'.known
    <3>1. CASE state.created
      BY <1>0, <1>1, <3>1 DEF ReadChunk
    <3>2. CASE ~ state.created
      <4> DEFINE k == state.known \cup {Message}
      <4>1. state' = [state EXCEPT !.created = TRUE, !.known = k]
        BY <1>1, <3>2 DEF ReadChunk
      <4>2. k \in SUBSET Items /\ Message \in k
        BY <1>0 DEF State
      <4> HIDE DEF k
      <4> QED
        BY <1>0, <4>1, <4>2 DEF State
    <3> QED
      BY <3>1, <3>2
  <2>3. stream' \in Streams
    BY <1>0, <1>1, SendFacts, StreamFacts DEF ReadChunk
  <2> QED
    BY <1>0, <1>1, <2>1, <2>2, <2>3, BoundsAssumption
       DEF ReadChunk, ReadLine, Goto, TypeOK, Streams, Stages, Converting, State
<1>2. ASSUME ReadDone PROVE TypeOK'
  <2>1. state' \in State /\ state'.created = state.created
        /\ state'.known = state.known /\ (pc' = "close" => state'.completed)
        /\ pc' \in {"read", "close"}
    BY <1>0, <1>2 DEF ReadDone, Finish, Goto, State
  <2> QED
    BY <1>0, <1>2, <2>1, BoundsAssumption
       DEF ReadDone, ReadLine, TypeOK, Streams, Stages, Converting
<1>3. ASSUME ReadError PROVE TypeOK'
  <2>1. state' \in State /\ state'.created = state.created
        /\ state'.known = state.known
    BY <1>0, <1>3 DEF ReadError, State
  <2>2. stream' \in Streams
    BY <1>0, <1>3, SendFacts, StreamFacts DEF ReadError
  <2> QED
    BY <1>0, <1>3, <2>1, <2>2, BoundsAssumption
       DEF ReadError, ReadLine, TypeOK, Streams, Stages, Converting
<1>4. ASSUME End PROVE TypeOK'
  BY <1>0, <1>4 DEF End, Goto, TypeOK, Streams, Stages, Converting
<1>5. ASSUME ConvertText PROVE TypeOK'
  <2>1. stream' \in Streams
    BY <1>0, <1>5, SendTypes DEF ConvertText
  <2> QED
    BY <1>0, <1>5, <2>1 DEF ConvertText, Goto, TypeOK, Streams, Stages, Converting
<1>6. ASSUME NEW i \in Items \ {Message}, AddItem(i) \/ AddPart(i)
      PROVE  /\ state' \in State /\ stream' \in Streams
             /\ state'.created = state.created /\ state'.completed = state.completed
             /\ Message \in state'.known <=> Message \in state.known
  <2>1. CASE AddItem(i)
    BY <1>0, <2>1, SendTypes DEF AddItem, State
  <2>2. CASE AddPart(i)
    BY <1>0, <2>2, SendTypes DEF AddPart, State
  <2> QED
    BY <1>6, <2>1, <2>2
<1>7. ASSUME ConvertReasoning PROVE TypeOK'
  <2>1. /\ state' \in State /\ stream' \in Streams
        /\ state'.created = state.created /\ state'.completed = state.completed
        /\ Message \in state'.known <=> Message \in state.known
    BY <1>0, <1>6, <1>7 DEF ConvertReasoning
  <2>2. pc' \in {"reasoning", "calls"} /\ chunk' = chunk
    BY <1>7 DEF ConvertReasoning, AddItem, Goto
  <2> QED
    BY <1>0, <1>7, <2>1, <2>2
       DEF ConvertReasoning, TypeOK, Streams, Stages, Converting
<1>8. ASSUME ConvertCall PROVE TypeOK'
  <2> DEFINE call == Head(chunk.calls)
             i == CallItem(call.index)
  <2>1. /\ call \in [index : Tools, args : BOOLEAN]
        /\ Tail(chunk.calls) \in Seq([index : Tools, args : BOOLEAN])
    BY <1>8, CallFacts DEF ConvertCall
  <2>2. i \in Items \ {Message}
    BY <2>1
  <2>3. /\ state' \in State /\ stream' \in Streams
        /\ state'.created = state.created /\ state'.completed = state.completed
        /\ Message \in state'.known <=> Message \in state.known
    BY <1>0, <1>6, <1>8, <2>2 DEF ConvertCall
  <2>4. chunk' \in Chunk /\ pc' = pc
    BY <1>0, <1>8, <2>1 DEF ConvertCall, AddItem, Chunk
  <2> QED
    BY <1>0, <1>8, <2>3, <2>4 DEF ConvertCall, TypeOK, Streams
<1>9. ASSUME ConvertFinish PROVE TypeOK'
  <2>1. /\ state' \in State /\ state'.created = state.created
        /\ state'.known = state.known /\ pc' \in {"read", "close"}
        /\ (pc' = "close" => state'.completed)
    BY <1>0, <1>9 DEF ConvertFinish, Finish, Goto, State
  <2> QED
    BY <1>0, <1>9, <2>1, NothingIsAChunk
       DEF ConvertFinish, TypeOK, Streams, Stages, Converting
<1>10. ASSUME NEW i \in Items, CloseItem(i), CloseNext PROVE TypeOK'
  <2>1. /\ state' \in State /\ state'.created = state.created
        /\ state'.completed = state.completed /\ state'.known = state.known
    BY <1>0, <1>10 DEF CloseItem, State
  <2>2. stream' \in Streams
    <3>1. state.text[i] \in Nat
      BY <1>0 DEF State
    <3> QED
      BY <1>0, <1>10, <3>1, SendFacts, StreamFacts DEF CloseItem
  <2> QED
    BY <1>0, <1>10, <2>1, <2>2 DEF CloseNext, TypeOK, Streams
<1>11. ASSUME Complete PROVE TypeOK'
  <2>1. stream' \in Streams
    BY <1>0, <1>11, SendFacts, StreamFacts DEF Complete
  <2> QED
    BY <1>0, <1>11, <2>1 DEF Complete, Goto, TypeOK, Streams, Stages, Converting
<1>12. ASSUME UNCHANGED vars PROVE TypeOK'
  BY <1>12 DEF vars, TypeOK
<1> QED
  BY <1>1, <1>2, <1>3, <1>4, <1>5, <1>7, <1>8, <1>9, <1>10, <1>11, <1>12
     DEF Next, Convert, CloseNext

----------------------------------------------------------------------------
(* What each kind of event changes *)

LEMMA AddItemEffect ==
  ASSUME TypeOK, NEW i \in Items, AddItem(i)
  PROVE  /\ i \notin state.known /\ UNCHANGED <<pc, chunk>>
         /\ state'.created = state.created /\ state'.completed = state.completed
         /\ state'.done = state.done /\ state'.text = state.text
         /\ state'.known = state.known \cup {i}
         /\ stream'.item = [stream.item EXCEPT ![i] = "open"]
         /\ stream'.begun = stream.begun /\ stream'.parts = stream.parts
         /\ stream'.carried = stream.carried /\ stream'.final = stream.final
         /\ stream'.late <=> stream.late \/ stream.final # "none"
<1>1. stream \in Streams /\ state \in State
  BY DEF TypeOK, Streams
<1> DEFINE s == [stream EXCEPT !.item[i] = "open"]
<1>2. s \in Streams /\ Send(s)
  BY <1>1, StreamFacts DEF AddItem, SendAdded
<1>3. /\ s.item = [stream.item EXCEPT ![i] = "open"] /\ s.final = stream.final
      /\ s.begun = stream.begun /\ s.parts = stream.parts
      /\ s.carried = stream.carried /\ s.late = stream.late
  BY <1>1 DEF Streams
<1>4. /\ stream'.item = s.item /\ stream'.begun = s.begun /\ stream'.parts = s.parts
      /\ stream'.carried = s.carried /\ stream'.final = s.final
      /\ stream'.late <=> s.late \/ stream.final # "none"
  BY <1>1, <1>2, SendFacts
<1> HIDE DEF s
<1>5. /\ state'.created = state.created /\ state'.completed = state.completed
      /\ state'.done = state.done /\ state'.text = state.text
      /\ state'.known = state.known \cup {i}
  BY <1>1 DEF AddItem, State
<1> QED
  BY <1>3, <1>4, <1>5 DEF AddItem

LEMMA DeltaEffect ==
  ASSUME TypeOK, NEW i \in Items, SendDelta(i)
  PROVE  /\ stream'.parts = [stream.parts EXCEPT ![i] = @ + 1]
         /\ stream'.begun = stream.begun /\ stream'.item = stream.item
         /\ stream'.carried = stream.carried /\ stream'.final = stream.final
         /\ stream'.late <=> stream.late \/ stream.final # "none"
<1>1. stream \in Streams
  BY DEF TypeOK, Streams
<1> DEFINE s == [stream EXCEPT !.parts[i] = @ + 1]
<1>2. s \in Streams /\ Send(s)
  BY <1>1, StreamFacts DEF SendDelta
<1>3. /\ s.parts = [stream.parts EXCEPT ![i] = @ + 1] /\ s.final = stream.final
      /\ s.begun = stream.begun /\ s.item = stream.item
      /\ s.carried = stream.carried /\ s.late = stream.late
  BY <1>1 DEF Streams
<1>4. /\ stream'.item = s.item /\ stream'.begun = s.begun /\ stream'.parts = s.parts
      /\ stream'.carried = s.carried /\ stream'.final = s.final
      /\ stream'.late <=> s.late \/ stream.final # "none"
  BY <1>1, <1>2, SendFacts
<1> HIDE DEF s
<1> QED
  BY <1>3, <1>4

LEMMA CloseEffect ==
  ASSUME TypeOK, NEW i \in Items, CloseItem(i)
  PROVE  /\ i \in state.known \ state.done
         /\ state'.created = state.created /\ state'.completed = state.completed
         /\ state'.known = state.known /\ state'.text = state.text
         /\ state'.done = state.done \cup {i}
         /\ stream'.item = [stream.item EXCEPT ![i] = "closed"]
         /\ stream'.carried = [stream.carried EXCEPT ![i] = state.text[i]]
         /\ stream'.begun = stream.begun /\ stream'.parts = stream.parts
         /\ stream'.final = stream.final
         /\ stream'.late <=> stream.late \/ stream.final # "none"
<1>1. stream \in Streams /\ state \in State /\ state.text[i] \in Nat
  BY DEF TypeOK, Streams, State
<1> DEFINE s == [stream EXCEPT !.item[i] = "closed", !.carried[i] = state.text[i]]
<1>2. s \in Streams /\ Send(s)
  BY <1>1, StreamFacts DEF CloseItem
<1>3. /\ s.item = [stream.item EXCEPT ![i] = "closed"] /\ s.final = stream.final
      /\ s.carried = [stream.carried EXCEPT ![i] = state.text[i]]
      /\ s.begun = stream.begun /\ s.parts = stream.parts /\ s.late = stream.late
  BY <1>1 DEF Streams
<1>4. /\ stream'.item = s.item /\ stream'.begun = s.begun /\ stream'.parts = s.parts
      /\ stream'.carried = s.carried /\ stream'.final = s.final
      /\ stream'.late <=> s.late \/ stream.final # "none"
  BY <1>1, <1>2, SendFacts
<1> HIDE DEF s
<1>5. /\ state'.created = state.created /\ state'.completed = state.completed
      /\ state'.known = state.known /\ state'.text = state.text
      /\ state'.done = state.done \cup {i}
  BY <1>1 DEF CloseItem, State
<1> QED
  BY <1>3, <1>4, <1>5 DEF CloseItem, ToClose

LEMMA FinalEffect ==
  ASSUME TypeOK, NEW end \in {"completed", "failed"},
         Send([stream EXCEPT !.final = end])
  PROVE  /\ stream'.final = end
         /\ stream'.begun = stream.begun /\ stream'.item = stream.item
         /\ stream'.parts = stream.parts /\ stream'.carried = stream.carried
         /\ stream'.late <=> stream.late \/ stream.final # "none"
<1>1. stream \in Streams
  BY DEF TypeOK, Streams
<1> DEFINE s == [stream EXCEPT !.final = end]
<1>2. s \in Streams /\ Send(s)
  BY <1>1, StreamFacts, ItemFacts
<1>3. /\ s.final = end /\ s.begun = stream.begun /\ s.item = stream.item
      /\ s.parts = stream.parts /\ s.carried = stream.carried /\ s.late = stream.late
  BY <1>1 DEF Streams
<1>4. /\ stream'.item = s.item /\ stream'.begun = s.begun /\ stream'.parts = s.parts
      /\ stream'.carried = s.carried /\ stream'.final = s.final
      /\ stream'.late <=> s.late \/ stream.final # "none"
  BY <1>1, <1>2, SendFacts
<1> HIDE DEF s
<1> QED
  BY <1>3, <1>4

LEMMA BeginEffect ==
  ASSUME TypeOK, NEW c \in Chunks, ReadChunk(c), ~ state.created
  PROVE  /\ state'.created = TRUE /\ state'.completed = state.completed
         /\ state'.known = state.known \cup {Message}
         /\ state'.done = state.done /\ state'.text = state.text
         /\ stream'.begun = TRUE
         /\ stream'.item = [stream.item EXCEPT ![Message] = "open"]
         /\ stream'.parts = stream.parts /\ stream'.carried = stream.carried
         /\ stream'.final = stream.final
         /\ stream'.late <=> stream.late \/ stream.final # "none"
<1>1. stream \in Streams /\ state \in State
  BY DEF TypeOK, Streams
<1> DEFINE s == [stream EXCEPT !.begun = TRUE, !.item[Message] = "open"]
<1>2. s \in Streams /\ Send(s)
  BY <1>1, StreamFacts, ItemFacts DEF ReadChunk
<1>3. /\ s.begun = TRUE /\ s.item = [stream.item EXCEPT ![Message] = "open"]
      /\ s.final = stream.final /\ s.parts = stream.parts
      /\ s.carried = stream.carried /\ s.late = stream.late
  BY <1>1 DEF Streams
<1>4. /\ stream'.item = s.item /\ stream'.begun = s.begun /\ stream'.parts = s.parts
      /\ stream'.carried = s.carried /\ stream'.final = s.final
      /\ stream'.late <=> s.late \/ stream.final # "none"
  BY <1>1, <1>2, SendFacts
<1> HIDE DEF s
<1>5. /\ state'.created = TRUE /\ state'.completed = state.completed
      /\ state'.known = state.known \cup {Message}
      /\ state'.done = state.done /\ state'.text = state.text
  BY <1>1 DEF ReadChunk, State
<1> QED
  BY <1>3, <1>4, <1>5

----------------------------------------------------------------------------
(* What the conversion remembers *)

LEMMA RememberedInit == Init => Remembered
BY DEF Init, NewState, Remembered, Matches

LEMMA RememberedStep ==
  ASSUME TypeOK, Remembered, [Next]_vars
  PROVE  Remembered'
<1> USE ItemFacts
<1>0. /\ state \in State /\ stream \in Streams
      /\ state.created <=> Message \in state.known
      /\ pc \in Converting => state.created
      /\ pc = "close" => state.completed
  BY DEF TypeOK, Streams
<1>1. /\ stream.begun = state.created
      /\ (stream.final # "none") <=> (state.completed /\ pc # "close")
      /\ state.done \subseteq state.known
      /\ \A i \in Items : Matches(i)
      /\ state.done # {} => state.completed
  BY DEF Remembered
\* Steps that leave the state and the stream alone.
<1>2. ASSUME UNCHANGED <<state, stream>>, pc # "close", pc' # "close"
      PROVE  Remembered'
  BY <1>1, <1>2 DEF Remembered, Matches
\* An item is added.
<1>3. ASSUME NEW i \in Items, AddItem(i), pc # "close" PROVE Remembered'
  <2>1. /\ i \notin state.known /\ UNCHANGED <<pc, chunk>>
        /\ state'.created = state.created /\ state'.completed = state.completed
        /\ state'.done = state.done /\ state'.text = state.text
        /\ state'.known = state.known \cup {i}
        /\ stream'.item = [stream.item EXCEPT ![i] = "open"]
        /\ stream'.begun = stream.begun /\ stream'.parts = stream.parts
        /\ stream'.final = stream.final
    BY <1>3, AddItemEffect
  <2>2. ASSUME NEW j \in Items PROVE Matches(j)'
    BY <1>0, <1>1, <2>1 DEF Matches, Streams
  <2> QED
    BY <1>1, <2>1, <2>2 DEF Remembered
\* A part of a known item is sent, and collected.
<1>4. ASSUME NEW i \in Items \ {Message}, AddPart(i), i \in state.known,
             pc # "close", pc' # "close"
      PROVE  Remembered'
  <2>1. /\ stream'.parts = [stream.parts EXCEPT ![i] = @ + 1]
        /\ stream'.begun = stream.begun /\ stream'.item = stream.item
        /\ stream'.final = stream.final
    BY <1>4, DeltaEffect DEF AddPart
  <2>2. /\ state'.created = state.created /\ state'.completed = state.completed
        /\ state'.known = state.known /\ state'.done = state.done
        /\ state'.text = [state.text EXCEPT ![i] = @ + 1]
    BY <1>0, <1>4 DEF AddPart, State
  <2>3. ASSUME NEW j \in Items PROVE Matches(j)'
    BY <1>0, <1>1, <1>4, <2>1, <2>2 DEF Matches, Streams, State
  <2> QED
    BY <1>1, <1>4, <2>1, <2>2, <2>3 DEF Remembered
\* The response is to be closed.
<1>5. ASSUME NEW stage \in {"read"}, Finish(stage), UNCHANGED stream, pc # "close"
      PROVE  Remembered'
  <2>1. CASE state.completed
    BY <1>2, <1>5, <2>1 DEF Finish, Goto
  <2>2. CASE ~ state.completed
    <3>1. /\ pc' = "close" /\ state'.completed = TRUE
          /\ state'.created = state.created /\ state'.known = state.known
          /\ state'.done = state.done /\ state'.text = state.text
      BY <1>0, <1>5, <2>2 DEF Finish, Goto, State
    <3> QED
      BY <1>1, <1>5, <2>2, <3>1 DEF Remembered, Matches
  <2> QED
    BY <2>1, <2>2
<1>6. ASSUME NEW c \in Chunks, ReadChunk(c) PROVE Remembered'
  <2>1. CASE state.created
    BY <1>2, <1>6, <2>1 DEF ReadChunk, ReadLine, Goto
  <2>2. CASE ~ state.created
    <3>1. /\ state'.created = TRUE /\ state'.completed = state.completed
          /\ state'.known = state.known \cup {Message}
          /\ state'.done = state.done /\ state'.text = state.text
          /\ stream'.begun = TRUE
          /\ stream'.item = [stream.item EXCEPT ![Message] = "open"]
          /\ stream'.parts = stream.parts /\ stream'.final = stream.final
      BY <1>6, <2>2, BeginEffect
    <3>2. ASSUME NEW j \in Items PROVE Matches(j)'
      BY <1>0, <1>1, <2>2, <3>1 DEF Matches, Streams
    <3>3. pc = "read" /\ pc' = "text"
      BY <1>6 DEF ReadChunk, ReadLine, Goto
    <3> QED
      BY <1>1, <3>1, <3>2, <3>3 DEF Remembered
  <2> QED
    BY <2>1, <2>2
<1>7. ASSUME ReadDone PROVE Remembered'
  BY <1>5, <1>7 DEF ReadDone, ReadLine
<1>8. ASSUME ReadError PROVE Remembered'
  <2>1. pc = "read" /\ pc' = "read"
    BY <1>8 DEF ReadError, ReadLine
  <2>2. CASE state.completed
    BY <1>2, <1>8, <2>1, <2>2 DEF ReadError
  <2>3. CASE ~ state.completed
    <3>1. /\ stream'.final = "failed" /\ stream'.begun = stream.begun
          /\ stream'.item = stream.item /\ stream'.parts = stream.parts
      BY <1>8, <2>3, FinalEffect DEF ReadError
    <3>2. /\ state'.completed = TRUE /\ state'.created = state.created
          /\ state'.known = state.known /\ state'.done = state.done
          /\ state'.text = state.text
      BY <1>0, <1>8, <2>3 DEF ReadError, State
    <3> QED
      BY <1>1, <2>1, <3>1, <3>2 DEF Remembered, Matches
  <2> QED
    BY <2>2, <2>3
<1>9. ASSUME End PROVE Remembered'
  BY <1>2, <1>9 DEF End, Goto
<1>10. ASSUME ConvertText PROVE Remembered'
  <2>1. pc = "text" /\ pc' = "reasoning" /\ state' = state
    BY <1>10 DEF ConvertText, Goto
  <2>2. CASE ~ chunk.text
    BY <1>2, <1>10, <2>1, <2>2 DEF ConvertText
  <2>3. CASE chunk.text
    <3>1. /\ stream'.parts = [stream.parts EXCEPT ![Message] = @ + 1]
          /\ stream'.begun = stream.begun /\ stream'.item = stream.item
          /\ stream'.final = stream.final
      BY <1>10, <2>3, DeltaEffect DEF ConvertText
    <3>2. Message \in state.known
      BY <1>0, <2>1 DEF Converting
    <3>3. ASSUME NEW j \in Items PROVE Matches(j)'
      BY <1>0, <1>1, <2>1, <3>1, <3>2 DEF Matches, Streams
    <3> QED
      BY <1>1, <2>1, <3>1, <3>3 DEF Remembered
  <2> QED
    BY <2>2, <2>3
<1>11. ASSUME ConvertReasoning PROVE Remembered'
  <2>1. pc = "reasoning"
    BY <1>11 DEF ConvertReasoning
  <2>2. CASE chunk.reasoning
    BY <1>3, <1>4, <1>11, <2>1, <2>2 DEF ConvertReasoning, Goto
  <2>3. CASE ~ chunk.reasoning
    BY <1>2, <1>11, <2>1, <2>3 DEF ConvertReasoning, Goto
  <2> QED
    BY <2>2, <2>3
<1>12. ASSUME ConvertCall PROVE Remembered'
  <2> DEFINE call == Head(chunk.calls)
             i == CallItem(call.index)
  <2>1. i \in Items \ {Message} /\ pc = "calls"
    BY <1>12, CallFacts DEF ConvertCall
  <2>2. CASE AddItem(i)
    BY <1>3, <2>1, <2>2
  <2>3. CASE i \in state.known /\ AddPart(i) /\ pc' = pc
    BY <1>4, <2>1, <2>3
  <2>4. CASE UNCHANGED <<state, stream, pc>>
    BY <1>2, <2>1, <2>4
  <2> QED
    BY <1>12, <2>2, <2>3, <2>4 DEF ConvertCall
<1>13. ASSUME ConvertFinish PROVE Remembered'
  <2>1. pc = "calls"
    BY <1>13 DEF ConvertFinish
  <2>2. CASE chunk.finish
    BY <1>5, <1>13, <2>1, <2>2 DEF ConvertFinish
  <2>3. CASE ~ chunk.finish
    BY <1>2, <1>13, <2>1, <2>3 DEF ConvertFinish, Goto
  <2> QED
    BY <2>2, <2>3
<1>14. ASSUME NEW i \in Items, CloseItem(i), CloseNext PROVE Remembered'
  <2>1. /\ i \in state.known \ state.done
        /\ state'.created = state.created /\ state'.completed = state.completed
        /\ state'.known = state.known /\ state'.text = state.text
        /\ state'.done = state.done \cup {i}
        /\ stream'.item = [stream.item EXCEPT ![i] = "closed"]
        /\ stream'.begun = stream.begun /\ stream'.parts = stream.parts
        /\ stream'.final = stream.final
    BY <1>14, CloseEffect
  <2>2. ASSUME NEW j \in Items PROVE Matches(j)'
    BY <1>0, <1>1, <2>1 DEF Matches, Streams
  <2>3. pc = "close" /\ pc' = pc
    BY <1>14 DEF CloseNext
  <2> QED
    BY <1>0, <1>1, <2>1, <2>2, <2>3 DEF Remembered
<1>15. ASSUME Complete PROVE Remembered'
  <2>1. /\ stream'.final = "completed" /\ stream'.begun = stream.begun
        /\ stream'.item = stream.item /\ stream'.parts = stream.parts
    BY <1>15, FinalEffect DEF Complete
  <2>2. pc = "close" /\ pc' = "read" /\ state' = state
    BY <1>15 DEF Complete, Goto
  <2> QED
    BY <1>0, <1>1, <2>1, <2>2 DEF Remembered, Matches
<1>16. ASSUME UNCHANGED vars PROVE Remembered'
  BY <1>16 DEF vars, Remembered, Matches
<1> QED
  BY <1>6, <1>7, <1>8, <1>9, <1>10, <1>11, <1>12, <1>13, <1>14, <1>15, <1>16
     DEF Next, Convert, CloseNext

----------------------------------------------------------------------------
(* The end of the response *)

LEMMA EndsWellInit == Init => EndsWell
BY DEF Init, NewState, EndsWell, Converting

LEMMA EndsWellStep ==
  ASSUME TypeOK, Remembered, EndsWell, [Next]_vars
  PROVE  EndsWell'
<1> USE ItemFacts
<1> DEFINE Well == /\ ~ stream'.late
                   /\ stream'.final = "completed" =>
                        \A i \in Items : stream'.item[i] # "open"
                   /\ pc' \in Converting => ~ state'.completed
<1> SUFFICES ASSUME ~ overran' PROVE Well
  BY DEF EndsWell
<1>0. /\ state \in State /\ stream \in Streams /\ overran \in BOOLEAN
      /\ (stream.final # "none") <=> (state.completed /\ pc # "close")
      /\ pc = "close" => state.completed
      /\ pc \in Converting => state.created
      /\ \A i \in Items : Matches(i)
  BY DEF TypeOK, Streams, Remembered
<1>1. ~ overran
  BY <1>0 DEF Next, Convert, ReadChunk, ReadDone, ReadError, End, ConvertText,
     ConvertReasoning, ConvertCall, ConvertFinish, CloseNext, Complete, vars
<1>2. /\ ~ stream.late
      /\ stream.final = "completed" => \A i \in Items : stream.item[i] # "open"
      /\ pc \in Converting => ~ state.completed
  BY <1>1 DEF EndsWell
\* While a chunk is converted, or the response is closed, no final event has been sent.
<1>3. pc \in Converting \cup {"close"} => stream.final = "none"
  BY <1>0, <1>2 DEF Converting
<1>4. ASSUME UNCHANGED <<state, stream>>, pc' \in Converting => pc \in Converting
      PROVE  Well
  BY <1>2, <1>4
<1>5. ASSUME NEW i \in Items, AddItem(i), pc \in Converting PROVE Well
  BY <1>2, <1>3, <1>5, AddItemEffect
<1>6. ASSUME NEW i \in Items, AddPart(i), pc \in Converting PROVE Well
  <2>1. state'.completed = state.completed
    BY <1>0, <1>6 DEF AddPart, State
  <2> QED
    BY <1>2, <1>3, <1>6, <2>1, DeltaEffect DEF AddPart
<1>7. ASSUME NEW stage \in {"read"}, Finish(stage), UNCHANGED stream PROVE Well
  <2>1. pc' \notin Converting
    BY <1>7 DEF Finish, Goto, Converting
  <2> QED
    BY <1>2, <1>7, <2>1
<1>8. ASSUME NEW c \in Chunks, ReadChunk(c) PROVE Well
  <2>1. ~ state.completed
    BY <1>8 DEF ReadChunk
  <2>2. CASE state.created
    BY <1>2, <1>8, <2>1, <2>2 DEF ReadChunk
  <2>3. CASE ~ state.created
    BY <1>0, <1>2, <1>8, <2>1, <2>3, BeginEffect
  <2> QED
    BY <2>2, <2>3
<1>9. ASSUME ReadDone PROVE Well
  BY <1>7, <1>9 DEF ReadDone
<1>10. ASSUME ReadError PROVE Well
  <2>1. pc' \notin Converting
    BY <1>10 DEF ReadError, ReadLine, Converting
  <2>2. CASE state.completed
    BY <1>4, <1>10, <2>1, <2>2 DEF ReadError
  <2>3. CASE ~ state.completed
    BY <1>0, <1>2, <1>10, <2>1, <2>3, FinalEffect DEF ReadError
  <2> QED
    BY <2>2, <2>3
<1>11. ASSUME End PROVE Well
  BY <1>4, <1>11 DEF End, Goto, Converting
<1>12. ASSUME ConvertText PROVE Well
  <2>1. pc \in Converting /\ state' = state
    BY <1>12 DEF ConvertText, Converting
  <2>2. CASE ~ chunk.text
    BY <1>4, <1>12, <2>1, <2>2 DEF ConvertText
  <2>3. CASE chunk.text
    BY <1>2, <1>3, <1>12, <2>1, <2>3, DeltaEffect DEF ConvertText
  <2> QED
    BY <2>2, <2>3
<1>13. ASSUME ConvertReasoning PROVE Well
  <2>1. pc \in Converting
    BY <1>13 DEF ConvertReasoning, Converting
  <2> QED
    BY <1>4, <1>5, <1>6, <1>13, <2>1 DEF ConvertReasoning
<1>14. ASSUME ConvertCall PROVE Well
  <2>1. pc \in Converting
    BY <1>14 DEF ConvertCall, Converting
  <2>2. CallItem(Head(chunk.calls).index) \in Items
    BY <1>14, CallFacts DEF ConvertCall
  <2> QED
    BY <1>4, <1>5, <1>6, <1>14, <2>1, <2>2 DEF ConvertCall
<1>15. ASSUME ConvertFinish PROVE Well
  BY <1>4, <1>7, <1>15 DEF ConvertFinish, Goto, Converting
<1>16. ASSUME NEW i \in Items, CloseItem(i), CloseNext PROVE Well
  <2>1. pc = "close" /\ pc' = "close"
    BY <1>16 DEF CloseNext
  <2> QED
    BY <1>2, <1>3, <1>16, <2>1, CloseEffect DEF Converting
<1>17. ASSUME Complete PROVE Well
  <2>1. pc = "close" /\ pc' = "read" /\ state.known \subseteq state.done
    BY <1>17 DEF Complete, Goto, ToClose
  <2>2. \A i \in Items : stream.item[i] # "open"
    BY <1>0, <2>1 DEF Matches
  <2> QED
    BY <1>2, <1>3, <1>17, <2>1, <2>2, FinalEffect DEF Complete, Converting
<1>18. ASSUME UNCHANGED vars PROVE Well
  BY <1>4, <1>18 DEF vars
<1> QED
  BY <1>8, <1>9, <1>10, <1>11, <1>12, <1>13, <1>14, <1>15, <1>16, <1>17, <1>18
     DEF Next, Convert, CloseNext

----------------------------------------------------------------------------
(* Theorems *)

\* The invariant of the conversion holds whatever the backend sends.
THEOREM Invariance == Spec => []IInv
<1>1. Init => IInv
  BY TypeInit, RememberedInit, EndsWellInit DEF IInv
<1>2. IInv /\ [Next]_vars => IInv'
  BY TypeStep, RememberedStep, EndsWellStep DEF IInv
<1> QED
  BY <1>1, <1>2, PTL DEF Spec

\* Every variable keeps its type.
THEOREM TypeCorrect == Spec => []TypeOK
BY Invariance, PTL DEF IInv

\* stream.go: what the state map says of an item is what the client has been sent of it.
THEOREM ConversionRemembers == Spec => []Remembered
BY Invariance, PTL DEF IInv

\* stream.go: nothing follows the final event, and nothing is left open by a response
\* that completes, as long as the backend stops at its end.
THEOREM ResponseEndsWell == Spec => []EndsWell
BY Invariance, PTL DEF IInv

\* Every event sent is one that EventStream allows at that moment.
LEMMA StepImplements ==
  ASSUME IInv, [Next]_vars
  PROVE  [Events!Next]_Events!evars
<1> USE ItemFacts
<1> DEFINE Carried == [i \in Items |-> IF i = Message THEN 0 ELSE stream.carried[i]]
<1>0. /\ TypeOK
      /\ state \in State /\ stream \in Streams
      /\ stream.begun = state.created
      /\ (stream.final # "none") <=> (state.completed /\ pc # "close")
      /\ state.done \subseteq state.known
      /\ pc = "close" => state.completed
      /\ pc \in Converting => state.created
      /\ state.created <=> Message \in state.known
      /\ \A i \in Items : Matches(i)
      /\ state.done # {} => state.completed
  BY DEF IInv, TypeOK, Streams, Remembered
<1>1. ASSUME UNCHANGED stream PROVE UNCHANGED Events!evars
  BY <1>1 DEF Events!evars
<1>2. ASSUME NEW i \in Items, AddItem(i), pc \in Converting PROVE Events!Add(i)
  <2>1. /\ i \notin state.known
        /\ stream'.item = [stream.item EXCEPT ![i] = "open"]
        /\ stream'.begun = stream.begun /\ stream'.parts = stream.parts
        /\ stream'.carried = stream.carried /\ stream'.final = stream.final
    BY <1>0, <1>2, AddItemEffect
  <2>2. stream.begun /\ stream.item[i] = "absent"
    BY <1>0, <1>2, <2>1 DEF Matches
  <2> QED
    BY <2>1, <2>2 DEF Events!Add
<1>3. ASSUME NEW i \in Items, SendDelta(i), i \in state.known, pc \in Converting
      PROVE  Events!Delta(i)
  <2>1. /\ stream'.parts = [stream.parts EXCEPT ![i] = @ + 1]
        /\ stream'.begun = stream.begun /\ stream'.item = stream.item
        /\ stream'.carried = stream.carried /\ stream'.final = stream.final
    BY <1>0, <1>3, DeltaEffect
  <2>2. stream.item[i] = "open" \/ (stream.item[i] = "closed" /\ stream.final # "none")
    <3>1. pc # "close"
      BY <1>3 DEF Converting
    <3>2. i \in state.done => stream.final # "none"
      BY <1>0, <3>1
    <3> QED
      BY <1>0, <1>3, <3>2 DEF Matches
  <2> QED
    BY <2>1, <2>2 DEF Events!Delta
<1>4. ASSUME NEW c \in Chunks, ReadChunk(c) PROVE [Events!Next]_Events!evars
  <2>1. CASE state.created
    BY <1>1, <1>4, <2>1 DEF ReadChunk
  <2>2. CASE ~ state.created
    <3>1. /\ stream'.begun = TRUE
          /\ stream'.item = [stream.item EXCEPT ![Message] = "open"]
          /\ stream'.parts = stream.parts /\ stream'.carried = stream.carried
          /\ stream'.final = stream.final
      BY <1>0, <1>4, <2>2, BeginEffect
    <3>2. ~ stream.begun /\ stream.item[Message] = "absent"
      BY <1>0, <2>2 DEF Matches
    <3>3. Events!Begin
      BY <3>1, <3>2 DEF Events!Begin
    <3> QED
      BY <3>3 DEF Events!Next
  <2> QED
    BY <2>1, <2>2
<1>5. ASSUME ReadError PROVE [Events!Next]_Events!evars
  <2>1. CASE state.completed
    BY <1>1, <1>5, <2>1 DEF ReadError
  <2>2. CASE ~ state.completed
    <3>1. /\ stream'.final = "failed" /\ stream'.begun = stream.begun
          /\ stream'.item = stream.item /\ stream'.parts = stream.parts
          /\ stream'.carried = stream.carried
      BY <1>0, <1>5, <2>2, FinalEffect DEF ReadError
    <3>2. stream.final = "none"
      BY <1>0, <2>2
    <3>3. Events!Fail
      BY <3>1, <3>2 DEF Events!Fail
    <3> QED
      BY <3>3 DEF Events!Next
  <2> QED
    BY <2>1, <2>2
<1>6. ASSUME ConvertText PROVE [Events!Next]_Events!evars
  <2>1. pc \in Converting /\ Message \in state.known
    BY <1>0, <1>6 DEF ConvertText, Converting
  <2> QED
    BY <1>1, <1>3, <1>6, <2>1 DEF ConvertText, Events!Next
<1>7. ASSUME ConvertReasoning PROVE [Events!Next]_Events!evars
  <2>1. pc \in Converting
    BY <1>7 DEF ConvertReasoning, Converting
  <2> QED
    BY <1>1, <1>2, <1>3, <1>7, <2>1 DEF ConvertReasoning, AddPart, Events!Next
<1>8. ASSUME ConvertCall PROVE [Events!Next]_Events!evars
  <2>1. pc \in Converting
    BY <1>8 DEF ConvertCall, Converting
  <2>2. CallItem(Head(chunk.calls).index) \in Items
    BY <1>0, <1>8, CallFacts DEF ConvertCall
  <2> QED
    BY <1>1, <1>2, <1>3, <1>8, <2>1, <2>2 DEF ConvertCall, AddPart, Events!Next
<1>9. ASSUME NEW i \in Items, CloseItem(i), CloseNext PROVE Events!Close(i)
  <2>1. /\ i \in state.known \ state.done
        /\ stream'.item = [stream.item EXCEPT ![i] = "closed"]
        /\ stream'.carried = [stream.carried EXCEPT ![i] = state.text[i]]
        /\ stream'.begun = stream.begun /\ stream'.parts = stream.parts
        /\ stream'.final = stream.final
    BY <1>0, <1>9, CloseEffect
  <2>2. stream.item[i] = "open" /\ stream.final = "none"
    BY <1>0, <1>9, <2>1 DEF Matches, CloseNext
  <2>3. i # Message => state.text[i] = stream.parts[i]
    BY <1>0 DEF Matches
  <2>4. Carried' = IF i = Message THEN Carried
                   ELSE [Carried EXCEPT ![i] = stream.parts[i]]
    BY <1>0, <2>1, <2>3 DEF Streams
  <2> QED
    BY <2>1, <2>2, <2>4 DEF Events!Close
<1>10. ASSUME Complete PROVE Events!Complete
  <2>1. /\ stream'.final = "completed" /\ stream'.begun = stream.begun
        /\ stream'.item = stream.item /\ stream'.parts = stream.parts
        /\ stream'.carried = stream.carried
    BY <1>0, <1>10, FinalEffect DEF Complete
  <2>2. stream.final = "none" /\ \A i \in Items : stream.item[i] # "open"
    BY <1>0, <1>10 DEF Complete, ToClose, Matches
  <2> QED
    BY <2>1, <2>2 DEF Events!Complete
<1>11. ASSUME ReadDone \/ End \/ ConvertFinish \/ UNCHANGED vars
       PROVE  UNCHANGED stream
  BY <1>11 DEF ReadDone, End, ConvertFinish, vars
<1> QED
  BY <1>1, <1>4, <1>5, <1>6, <1>7, <1>8, <1>9, <1>10, <1>11
     DEF Next, Convert, CloseNext, Events!Next

\* stream.go: whatever the backend sends, the client is sent a proper response: every
\* item once, whole and closed before the response completes, and one final event.
THEOREM EventsProper == Spec => ImplementsEventStream
<1>1. Init => Events!Init
  BY DEF Init, Events!Init
<1>2. IInv /\ [Next]_vars => [Events!Next]_Events!evars
  BY StepImplements
<1> QED
  BY <1>1, <1>2, Invariance, PTL DEF Spec, ImplementsEventStream, Events!Spec
=============================================================================
