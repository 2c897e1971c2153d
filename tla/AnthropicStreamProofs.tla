----------------------- MODULE AnthropicStreamProofs -----------------------
(***************************************************************************)
(* Proofs about AnthropicStream, for any backend, however many calls it    *)
(* asks for:                                                               *)
(*                                                                         *)
(*   - each call goes back with its own signature, and with one that came  *)
(*     for it when one did (OwnSignatures, SignaturesReturned), and its    *)
(*     result answers it (ResultsMatch);                                   *)
(*   - an Anthropic client that is asked to call tools is not told that    *)
(*     the turn has ended (ReasonTellsCalls);                              *)
(*   - the stream implements BlockStream as long as the backend does not   *)
(*     go back (ProperBlocks).                                             *)
(***************************************************************************)
EXTENDS AnthropicStream, Integers, FiniteSetTheorems, SequenceTheorems, WellFoundedInduction, TLAPS

(***************************************************************************)
(* The inductive invariant: stages and numbers.                            *)
(***************************************************************************)

Converting == pc \in {"thinking", "text", "extra", "calls", "call"}

\* The numbers given are 0, 1, ...; no two blocks have the same.
Counted == {b \in Blocks : parser.number[b] # None}

StagesOK ==
  /\ TypeOK
  /\ pc \in {"text", "call"} => proto = "anthropic"
  /\ read = 0 => pc = "read"
  /\ request # None => pc \in {"read", "answered"}
  /\ pc = "call" => parser.number[CallBlock(Head(chunk.calls).index)] # None
  /\ parser.next = Cardinality(Counted)
  /\ \A b, c \in Counted : parser.number[b] = parser.number[c] => b = c

(***************************************************************************)
(* The inductive invariant: signatures.                                    *)
(***************************************************************************)

\* The IDs a call can have: the backend's, and one generated for it.
OwnIds(t) == {[name |-> Given(t), prefixed |-> TRUE], [name |-> Generated(t), prefixed |-> TRUE]}

\* What a stream keeps: IDs of its calls, and signatures under these IDs.
StreamKeeps ==
  /\ \A i \in Ids : cache[i] # None => \E t \in Tools : toolId[t] = i /\ cache[i] \in {t, Loose}
  /\ last # None => \E t \in Tools : toolId[t] = last
  /\ \A t \in Tools :
       /\ toolId[t] # None => toolId[t] \in OwnIds(t)
       /\ owed[t] # {} /\ proto # "responses" => toolId[t] # None /\ cache[toolId[t]] \in owed[t]

\* The ID that a client knows a call by, and the one it is kept by.
StreamNames ==
  \A t \in Tools :
    /\ proto = "anthropic" /\ called[t] # None => called[t] = toolId[t]
    /\ proto = "openai" => /\ called[t] = None <=> toolId[t] = None
                           /\ called[t] # None => Prefixed(called[t]) = toolId[t]
    /\ proto = "responses" => /\ toolId[t] = None
                              /\ called[t] # None => called[t].name = Given(t)

\* In an answer that is not streamed.
AnswerKeeps ==
  \A t \in Asked :
    /\ called[t].name \in {Given(t), Empty}
    /\ called[t].name # Empty => Lookup(called[t]) \in {None, t, Loose}
    /\ owed[t] # {} /\ proto # "responses" => called[t].name # Empty /\ Lookup(called[t]) \in owed[t]

Requested ==
  request = [calls   |-> [t \in Asked |-> [id |-> CallSentAs(called[t]), sig |-> Lookup(called[t])]],
             results |-> {ResultSentAs(called[t]) : t \in Asked}]

SignaturesOK ==
  /\ IF pc = "answered" THEN AnswerKeeps ELSE StreamKeeps /\ StreamNames
  /\ pc = "call" /\ Head(chunk.calls).name => toolId[Head(chunk.calls).index] # None
  /\ read = 0 => /\ cache = [i \in Ids |-> None] /\ called = [t \in Tools |-> None]
                 /\ owed = [t \in Tools |-> {}]
  /\ request # None => Requested

(***************************************************************************)
(* The inductive invariant: the reason to stop.                            *)
(***************************************************************************)

ReasonsOK ==
  /\ pc # "answered" /\ (\E t \in Tools : called[t] # None) => parser.calls
  /\ pc \in {"calls", "call"} /\ chunk.calls # <<>> => parser.calls
  /\ Converting /\ ~ strayed /\ chunk.finish # "none" => sent.finished
  /\ proto = "anthropic" /\ stream.reason = "end_turn" /\ ~ strayed =>
       /\ \A t \in Tools : called[t] = None
       /\ pc = "answered" \/ (sent.finished /\ pc \in {"read", "done"})

(***************************************************************************)
(* The inductive invariant: blocks.                                        *)
(***************************************************************************)

ThinkingLeft == pc = "thinking" /\ chunk.thinking
TextLeft     == pc \in {"thinking", "text"} /\ chunk.text
CallsLeft    == IF Converting THEN chunk.calls ELSE <<>>

Fresh(b)  == parser.number[b] = None
Latest(b) == parser.number[b] # None /\ parser.number[b] = parser.next - 1

\* The rest of the chunk stays with the block that was seen last, or goes on to new ones.
RestGoesOn ==
  /\ ThinkingLeft => Fresh(Thinking) \/ Latest(Thinking)
  /\ TextLeft => Fresh(Text) \/ (Latest(Text) /\ ~ ThinkingLeft)
  /\ \A n \in 1..Len(CallsLeft) :
       LET b == CallBlock(CallsLeft[n].index)
       IN  IF n = 1 THEN Fresh(b) \/ (Latest(b) /\ ~ TextLeft /\ ~ ThinkingLeft)
           ELSE \/ CallsLeft[n].index = CallsLeft[n - 1].index
                \/ Fresh(b) /\ \A m \in 1..(n - 1) : CallsLeft[m].index # CallsLeft[n].index
  /\ pc = "call" => Latest(CallBlock(Head(chunk.calls).index))

\* A block whose number the client has been told.
Told(b) == parser.number[b] # None /\ parser.number[b] \in stream.open \cup stream.closed

NamedBefore(t, n) == Told(CallBlock(t)) \/ \E m \in 1..(n - 1) : CallsLeft[m].index = t /\ CallsLeft[m].name

\* The rest of the chunk names each call once, and before its arguments.
RestNames ==
  \A n \in 1..Len(CallsLeft) :
    IF CallsLeft[n].name THEN ~ NamedBefore(CallsLeft[n].index, n)
    ELSE CallsLeft[n].args => NamedBefore(CallsLeft[n].index, n)

\* What the backend has sent is what has been converted and what is left of the chunk.
SentIs ==
  /\ sent.blocks = Counted \cup {b \in {Thinking} : ThinkingLeft} \cup {b \in {Text} : TextLeft}
                   \cup {CallBlock(CallsLeft[n].index) : n \in 1..Len(CallsLeft)}
  /\ IF CallsLeft # <<>> THEN sent.at = CallBlock(CallsLeft[Len(CallsLeft)].index)
     ELSE IF TextLeft THEN sent.at = Text
     ELSE IF ThinkingLeft THEN sent.at = Thinking
     ELSE IF parser.next = 0 THEN sent.at = None
     ELSE sent.at \in Blocks /\ Latest(sent.at)
  /\ sent.named = {t \in Tools : Told(CallBlock(t))}
                  \cup {CallsLeft[n].index : n \in {m \in 1..Len(CallsLeft) : CallsLeft[m].name}}

\* Nothing of the answer is left but its end.
Over ==
  /\ sent.finished
  /\ pc \in {"read", "done", "answered"} \/ (pc = "calls" /\ chunk.calls = <<>>)

PhaseIs ==
  /\ ~ sent.finished => stream.phase = IF parser.begun THEN "begun" ELSE "new"
  /\ Converting => stream.phase = "begun"
  /\ pc = "done" => sent.finished /\ stream.phase # "stopped"

OpenIs == stream.open = IF parser.active = None THEN {} ELSE {parser.active}

ActiveIs ==
  /\ parser.active # None => parser.active = parser.next - 1
  /\ \A n \in stream.closed : n < parser.next /\ (n = parser.next - 1 => Over)
  /\ \A b \in {Thinking, Text} : b \in parser.started <=> Told(b)

RestOK == RestGoesOn /\ RestNames /\ SentIs

Tidy ==
  ~ strayed =>
    /\ PhaseIs
    /\ OpenIs
    /\ proto # "anthropic" => parser.active = None
    /\ proto = "anthropic" => ActiveIs /\ RestOK

IInv == StagesOK /\ SignaturesOK /\ ReasonsOK /\ Tidy

(***************************************************************************)
(* What the conversion keeps.                                              *)
(***************************************************************************)

ParserType ==
  [begun : BOOLEAN, active : Blocks \cup {None}, number : [Blocks -> Blocks \cup {None}],
   next : 0..(MaxTools + 2), started : SUBSET Blocks, calls : BOOLEAN]

StreamType ==
  [phase : {"new", "begun", "concluded", "stopped"}, open : SUBSET Blocks, closed : SUBSET Blocks,
   parts : [Blocks -> Nat], reason : {"none", "end_turn", "tool_use", "max_tokens"}]

\* The numbers that are given, and what StagesOK says of them, for any such record.
NumbersIn(p) == {b \in Blocks : p.number[b] # None}

ParserOK(p) ==
  /\ p \in ParserType
  /\ p.next = Cardinality(NumbersIn(p))
  /\ \A b \in NumbersIn(p) : p.number[b] < p.next
  /\ \A b, c \in NumbersIn(p) : p.number[b] = p.number[c] => b = c
  /\ p.active # None => \E b \in Blocks : p.number[b] = p.active

LEMMA Fields ==
  ASSUME StagesOK
  PROVE  /\ SignaturesTypeOK
         /\ pc \in Stages
         /\ chunk \in Chunk
         /\ ParserOK(parser)
         /\ stream \in StreamType
         /\ read \in 0..MaxLines
         /\ pc = "call" => chunk.calls # <<>>
BY DEF StagesOK, TypeOK, ParserOK, ParserType, StreamType, NumbersIn, Counted

\* A step that keeps all this.
LEMMA StagesStep ==
  ASSUME SignaturesTypeOK', pc' \in Stages, chunk' \in Chunk, ParserOK(parser'),
         stream' \in StreamType,
         read' \in 0..MaxLines, pc' = "call" => chunk'.calls # <<>>,
         pc' \in {"text", "call"} => proto' = "anthropic",
         read' = 0 => pc' = "read",
         request' # None => pc' \in {"read", "answered"},
         pc' = "call" => parser'.number[CallBlock(Head(chunk'.calls).index)] # None
  PROVE  StagesOK'
BY DEF StagesOK, TypeOK, ParserOK, ParserType, StreamType, NumbersIn, Counted

LEMMA BlocksFinite == IsFiniteSet(Blocks) /\ Cardinality(Blocks) = MaxTools + 2 /\ Blocks \subseteq Nat
<1>1. MaxTools + 1 \in Int /\ 0 \in Int /\ MaxTools \in Nat
  BY ToolsAssumption
<1>2. IsFiniteSet(0..(MaxTools + 1)) /\ Cardinality(0..(MaxTools + 1)) = MaxTools + 2
  BY <1>1, FS_Interval
<1> QED
  BY <1>1, <1>2 DEF Blocks

LEMMA BlocksAre ==
  Thinking \in Blocks /\ Text \in Blocks /\ \A t \in Tools : CallBlock(t) \in Blocks
BY ToolsAssumption DEF Thinking, Text, CallBlock, Blocks, Tools

LEMMA NoneIsNo == None \notin Blocks /\ None \notin Nat
BY BlocksFinite, NoneAssumption

\* A block is given its number once, and the numbers are given in turn.
LEMMA NumberedIs ==
  ASSUME ParserOK(parser), NEW b \in Blocks
  PROVE  /\ ParserOK(Numbered(b))
         /\ Numbered(b).number[b] \in Blocks
         /\ Number(b) = Numbered(b).number[b]
         /\ Numbered(b).active = parser.active /\ Numbered(b).started = parser.started
         /\ Numbered(b).calls = parser.calls /\ Numbered(b).begun = parser.begun
         /\ \A c \in Blocks \ {b} : Numbered(b).number[c] = parser.number[c]
         /\ IF parser.number[b] = None
              THEN Numbered(b).number[b] = parser.next /\ Numbered(b).next = parser.next + 1
              ELSE Numbered(b) = parser
<1> DEFINE p == Numbered(b)
           n == parser.next
<1>1. CASE parser.number[b] # None
  <2>1. p = parser
    BY <1>1 DEF Numbered
  <2>2. parser.number[b] \in Blocks
    BY <1>1 DEF ParserOK, ParserType
  <2> QED
    BY <1>1, <2>1, <2>2 DEF Number
<1>2. CASE parser.number[b] = None
  <2>1. p = [parser EXCEPT !.number = [parser.number EXCEPT ![b] = n], !.next = n + 1]
    BY <1>2 DEF Numbered, ParserOK, ParserType
  <2>2. parser \in ParserType /\ n \in 0..(MaxTools + 2)
    BY DEF ParserOK, ParserType
  <2>3. NumbersIn(parser) \subseteq Blocks \ {b}
    BY <1>2 DEF NumbersIn
  <2>4. IsFiniteSet(Blocks) /\ IsFiniteSet(NumbersIn(parser)) /\ IsFiniteSet(Blocks \ {b})
    BY <2>3, BlocksFinite, FS_Subset, FS_RemoveElement
  <2>5. Cardinality(Blocks \ {b}) = MaxTools + 1
    BY <2>4, BlocksFinite, FS_RemoveElement, ToolsAssumption
  <2>6. n = Cardinality(NumbersIn(parser)) /\ n <= MaxTools + 1
    BY <2>3, <2>4, <2>5, FS_Subset DEF ParserOK
  <2>7. n \in Blocks /\ n + 1 \in 0..(MaxTools + 2) /\ n \in Nat
    BY <2>2, <2>6, ToolsAssumption DEF Blocks
  <2>8. [parser.number EXCEPT ![b] = n] \in [Blocks -> Blocks \cup {None}]
    BY <2>2, <2>7 DEF ParserType
  <2> DEFINE f == [parser.number EXCEPT ![b] = n]
             m == n + 1
  <2>9. f[b] = n /\ \A c \in Blocks \ {b} : f[c] = parser.number[c]
    BY <2>2 DEF ParserType
  <2>10. p = [parser EXCEPT !.number = f, !.next = m] /\ f \in [Blocks -> Blocks \cup {None}] /\ m \in 0..(MaxTools + 2)
    BY <2>1, <2>7, <2>8
  <2>11. /\ p \in ParserType /\ p.number = f /\ p.next = m
         /\ p.active = parser.active /\ p.started = parser.started
         /\ p.calls = parser.calls /\ p.begun = parser.begun
    <3> HIDE DEF p, f, m
    <3> QED
      BY <2>2, <2>10 DEF ParserType
  <2> HIDE DEF p, f
  <2>12. NumbersIn(p) = NumbersIn(parser) \cup {b}
    BY <2>7, <2>9, <2>11, NoneIsNo DEF NumbersIn
  <2>13. p.next = Cardinality(NumbersIn(p))
    <3>1. b \notin NumbersIn(parser)
      BY <2>3
    <3> QED
      BY <2>4, <2>6, <2>11, <2>12, <3>1, FS_AddElement
  <2>14. \A c \in NumbersIn(parser) : c # b /\ f[c] = parser.number[c] /\ parser.number[c] < n /\ parser.number[c] \in Nat
    <3>1. ASSUME NEW c \in NumbersIn(parser)
          PROVE  c # b /\ f[c] = parser.number[c] /\ parser.number[c] < n /\ parser.number[c] \in Nat
      <4>1. c # b /\ c \in Blocks
        BY <2>3
      <4>2. parser.number[c] \in Blocks
        BY <2>2, <4>1 DEF NumbersIn, ParserType
      <4> QED
        BY <2>9, <4>1, <4>2, BlocksFinite DEF ParserOK
    <3> QED
      BY <3>1
  <2>15. \A c \in NumbersIn(p) : p.number[c] < p.next
    BY <2>7, <2>9, <2>11, <2>12, <2>14
  <2>16. \A c, d \in NumbersIn(p) : p.number[c] = p.number[d] => c = d
    <3>1. ASSUME NEW c \in NumbersIn(p), NEW d \in NumbersIn(p), p.number[c] = p.number[d], c # d
          PROVE  FALSE
      <4>1. CASE c = b
        BY <2>7, <2>9, <2>11, <2>12, <2>14, <3>1, <4>1
      <4>2. CASE d = b
        BY <2>7, <2>9, <2>11, <2>12, <2>14, <3>1, <4>2
      <4>3. CASE c # b /\ d # b
        BY <2>9, <2>11, <2>12, <2>14, <3>1, <4>3 DEF ParserOK
      <4> QED
        BY <4>1, <4>2, <4>3
    <3> QED
      BY <3>1
  <2>17. p.active # None => \E c \in Blocks : p.number[c] = p.active
    <3>1. ASSUME p.active # None
          PROVE  \E c \in Blocks : p.number[c] = p.active
      <4>1. PICK c \in Blocks : parser.number[c] = parser.active
        BY <2>11, <3>1 DEF ParserOK
      <4>2. c # b
        BY <1>2, <2>11, <3>1, <4>1
      <4> QED
        BY <2>9, <2>11, <4>1, <4>2
    <3> QED
      BY <3>1
  <2>18. ParserOK(p)
    BY <2>11, <2>13, <2>15, <2>16, <2>17 DEF ParserOK
  <2>19. Number(b) = p.number[b]
    BY DEF Number, p
  <2> QED
    BY <1>2, <2>7, <2>9, <2>11, <2>18, <2>19 DEF p
<1> QED
  BY <1>1, <1>2

\* What the conversion notes beside the numbers.
LEMMA ParserNotes ==
  ASSUME NEW p, ParserOK(p),
         NEW active, active = None \/ \E b \in Blocks : p.number[b] = active,
         NEW q \in ParserType,
         q.number = p.number, q.next = p.next, q.active = active
  PROVE  ParserOK(q)
<1>1. NumbersIn(q) = NumbersIn(p)
  BY DEF NumbersIn
<1> QED
  BY <1>1 DEF ParserOK

(***************************************************************************)
(* IDs and the cache.                                                      *)
(***************************************************************************)

\* An ID is its name and its prefix.
LEMMA SameId ==
  ASSUME NEW i \in Ids, NEW j \in Ids, i.name = j.name, i.prefixed = j.prefixed
  PROVE  i = j
BY DEF Ids

LEMMA Spelling ==
  ASSUME NEW i \in Ids
  PROVE  /\ Prefixed(i) \in Ids /\ Prefixed(i).name = i.name /\ Prefixed(i).prefixed = TRUE
         /\ Trimmed(i) \in Ids /\ Trimmed(i).name = i.name /\ Trimmed(i).prefixed = FALSE
BY DEF Prefixed, Trimmed, Ids

\* Each spelling of an ID is the one or the other.
LEMMA TwoSpellings ==
  ASSUME NEW i \in Ids
  PROVE  IF i.prefixed THEN i = Prefixed(i) ELSE i = Trimmed(i)
<1>1. i.prefixed \in BOOLEAN
  BY DEF Ids
<1>2. i.prefixed = TRUE => i = Prefixed(i)
  BY Spelling, SameId
<1>3. i.prefixed = FALSE => i = Trimmed(i)
  BY Spelling, SameId
<1> QED
  BY <1>1, <1>2, <1>3, Zenon

LEMMA Names ==
  /\ MaxTools \in Nat
  /\ \A t \in Tools : /\ t \in Nat /\ t < MaxTools /\ t \in Signatures
                      /\ Given(t) \in 0..(2 * MaxTools) /\ Generated(t) \in 0..(2 * MaxTools)
                      /\ Given(t) # Empty /\ Generated(t) # Empty
  /\ \A t, u \in Tools : Given(t) # Generated(u)
  /\ \A t, u \in Tools : Given(t) = Given(u) \/ Generated(t) = Generated(u) => t = u
  /\ Empty \in 0..(2 * MaxTools) /\ Loose \in Signatures
  /\ None \notin Signatures
BY ToolsAssumption, NoneAssumption DEF Tools, Signatures, Given, Generated, Empty, Loose

\* The ID that an entry brings.
LEMMA IdOfEntry ==
  ASSUME NEW e \in Entry
  PROVE  IdOf(e) \in Ids /\ IdOf(e).name = Given(e.index) /\ e.index \in Tools
<1> DEFINE b == (e.id = "prefixed")
           n == Given(e.index)
<1>1. e.index \in Tools
  BY DEF Entry
<1>2. n \in 0..(2 * MaxTools) /\ b \in BOOLEAN
  BY <1>1, Names
<1>3. IdOf(e) = [name |-> n, prefixed |-> b]
  BY DEF IdOf
<1> HIDE DEF b, n
<1>4. [name |-> n, prefixed |-> b] \in Ids /\ [name |-> n, prefixed |-> b].name = n
  BY <1>2 DEF Ids
<1> QED
  BY <1>1, <1>3, <1>4 DEF n

LEMMA OwnIdIs ==
  ASSUME NEW t \in Tools, NEW i \in OwnIds(t)
  PROVE  /\ i \in Ids /\ i.name \in {Given(t), Generated(t)} /\ i.prefixed = TRUE /\ i # None
         /\ i.name # Empty
<1>1. ASSUME NEW n \in 0..(2 * MaxTools)
      PROVE  /\ [name |-> n, prefixed |-> TRUE] \in Ids
             /\ [name |-> n, prefixed |-> TRUE].name = n
             /\ [name |-> n, prefixed |-> TRUE].prefixed = TRUE
  BY DEF Ids
<1>2. PICK n \in {Given(t), Generated(t)} : i = [name |-> n, prefixed |-> TRUE]
  BY DEF OwnIds
<1>3. n \in 0..(2 * MaxTools) /\ n # Empty
  BY Names
<1>4. i \in Ids /\ i.name = n /\ i.prefixed = TRUE
  BY <1>1, <1>2, <1>3
<1> QED
  BY <1>3, <1>4, NoneAssumption

\* Calls do not share an ID.
LEMMA OwnIdsApart ==
  ASSUME NEW t \in Tools, NEW u \in Tools, NEW i, i \in OwnIds(t), i \in OwnIds(u)
  PROVE  t = u
<1>1. i.name \in {Given(t), Generated(t)} /\ i.name \in {Given(u), Generated(u)}
  BY OwnIdIs
<1> QED
  BY <1>1, Names

\* Lookup, in any cache.
LookupIn(c, i) ==
  IF c[i] # None THEN c[i]
  ELSE IF i.prefixed THEN c[Trimmed(i)] ELSE c[Prefixed(i)]

\* What a lookup finds is kept under one of the spellings; under the prefixed one, if the
\* other is not kept.
LEMMA LookupIs ==
  ASSUME NEW c \in [Ids -> Signatures \cup {None}], NEW i \in Ids
  PROVE  /\ LookupIn(c, i) \in {c[Trimmed(i)], c[Prefixed(i)]}
         /\ c[Trimmed(i)] = None => LookupIn(c, i) = c[Prefixed(i)]
<1>1. CASE i = Prefixed(i)
  <2>1. i.prefixed = TRUE
    BY <1>1, Spelling
  <2> QED
    BY <1>1, <2>1 DEF LookupIn
<1>2. CASE i = Trimmed(i)
  <2>1. i.prefixed = FALSE
    BY <1>2, Spelling
  <2> QED
    BY <1>2, <2>1 DEF LookupIn
<1> QED
  BY <1>1, <1>2, TwoSpellings

LEMMA StoredIs ==
  ASSUME NEW c \in [Ids -> Signatures \cup {None}], NEW i \in Ids \cup {None}, NEW sig \in Signatures
  PROVE  /\ Stored(c, i, sig) \in [Ids -> Signatures \cup {None}]
         /\ i # None => Stored(c, i, sig)[i] = sig
         /\ \A j \in Ids : j # i => Stored(c, i, sig)[j] = c[j]
         /\ i = None => Stored(c, i, sig) = c
BY NoneAssumption DEF Stored

(***************************************************************************)
(* What is noted of the calls of a stream.                                 *)
(***************************************************************************)

\* An entry with the ID id for its call t: the call keeps the ID it has, or gets one of
\* its own; whatever is stored is stored under that ID, and is the call's or loose.
Notes(t, id) ==
  /\ id \in Ids \cup {None}
  /\ toolId' = [toolId EXCEPT ![t] = id]
  /\ toolId[t] # None => id = toolId[t]
  /\ toolId[t] = None /\ id # None => id \in OwnIds(t)
  /\ last' = IF id = None THEN last ELSE id
  /\ \/ cache' = cache /\ owed' = owed
     \/ \E sig \in {t, Loose} : /\ id # None /\ cache' = Stored(cache, id, sig)
                                /\ owed' = [owed EXCEPT ![t] = @ \cup {sig}]

LEMMA NoteCallIs ==
  ASSUME SignaturesTypeOK, NEW e \in Entry, NoteCall(e)
  PROVE  \E id \in Ids \cup {None} :
           /\ Notes(e.index, id)
           /\ proto = "anthropic" /\ e.name => id # None
           /\ proto # "anthropic" => id = Identified(e)
<1> DEFINE t == e.index
           known == Identified(e)
           fresh == proto = "anthropic" /\ e.name /\ known = None
           own == [name |-> Generated(t), prefixed |-> TRUE]
           id == IF fresh THEN own ELSE known
<1>1. t \in Tools /\ IdOf(e) \in Ids /\ IdOf(e).name = Given(t)
  BY IdOfEntry
<1>2. Prefixed(IdOf(e)) \in OwnIds(t)
  <2>1. /\ Prefixed(IdOf(e)) \in Ids /\ Prefixed(IdOf(e)).name = Given(t)
        /\ Prefixed(IdOf(e)).prefixed = TRUE
    BY <1>1, Spelling
  <2>2. [name |-> Given(t), prefixed |-> TRUE] \in OwnIds(t)
    BY DEF OwnIds
  <2> DEFINE j == [name |-> Given(t), prefixed |-> TRUE]
  <2>3. j \in Ids /\ j.name = Given(t) /\ j.prefixed = TRUE
    <3> DEFINE n == Given(t)
    <3>1. n \in 0..(2 * MaxTools)
      BY <1>1, Names
    <3> HIDE DEF n
    <3>2. [name |-> n, prefixed |-> TRUE] \in Ids /\ [name |-> n, prefixed |-> TRUE].name = n
          /\ [name |-> n, prefixed |-> TRUE].prefixed = TRUE
      BY <3>1 DEF Ids
    <3> QED
      BY <3>2 DEF n
  <2> HIDE DEF j
  <2>4. Prefixed(IdOf(e)) = j
    BY <2>1, <2>3, SameId
  <2> QED
    BY <2>2, <2>4 DEF j
<1>3. own \in OwnIds(t) /\ own \in Ids /\ own # None
  BY <1>1, OwnIdIs DEF OwnIds
<1>4. known \in Ids \cup {None} /\ (toolId[t] # None => known = toolId[t])
      /\ (toolId[t] = None /\ known # None => known \in OwnIds(t))
  <2>1. Prefixed(IdOf(e)) \in Ids
    BY <1>1, Spelling
  <2>2. toolId[t] \in Ids \cup {None}
    BY <1>1 DEF SignaturesTypeOK
  <2> QED
    BY <1>2, <2>1, <2>2 DEF Identified
<1>5. /\ toolId' = [toolId EXCEPT ![t] = id]
      /\ last' = IF id = None THEN last ELSE id
      /\ cache' = IF fresh /\ pending THEN Stored(cache, id, Loose) ELSE Noted(e, known)
      /\ owed' = [owed EXCEPT ![t] = @ \cup (IF e.extra /\ known # None THEN {t}
                                             ELSE IF pending /\ id # None THEN {Loose} ELSE {})]
  BY DEF NoteCall
<1>6. fresh \in BOOLEAN /\ (fresh => known = None)
  BY Zenon DEF Entry
<1>7. /\ id \in Ids \cup {None} /\ (known # None => id = known)
      /\ (fresh => id = own) /\ (~ fresh => id = known)
  BY <1>3, <1>4, <1>6
<1>8. Stored(cache, None, t) = cache /\ Stored(cache, None, Loose) = cache
  BY DEF Stored
<1>9. e.extra \in BOOLEAN /\ pending \in BOOLEAN /\ e.name \in BOOLEAN
  BY DEF Entry, SignaturesTypeOK
<1> HIDE DEF own, id, known, fresh
<1>10. \/ cache' = cache /\ owed' = owed
       \/ \E sig \in {t, Loose} : /\ id # None /\ cache' = Stored(cache, id, sig)
                                  /\ owed' = [owed EXCEPT ![t] = @ \cup {sig}]
  <2>1. owed \in [Tools -> SUBSET Signatures] /\ [owed EXCEPT ![t] = @ \cup {}] = owed
    BY DEF SignaturesTypeOK
  <2>2. ASSUME e.extra, known # None
        PROVE  id # None /\ cache' = Stored(cache, id, t) /\ owed' = [owed EXCEPT ![t] = @ \cup {t}]
    <3>1. id = known /\ ~ fresh /\ cache' = Noted(e, id)
      BY <1>5, <1>6, <1>7, <2>2
    <3> QED
      BY <1>5, <2>2, <3>1 DEF Noted
  <2>3. ASSUME ~(e.extra /\ known # None), pending, id # None
        PROVE  cache' = Stored(cache, id, Loose) /\ owed' = [owed EXCEPT ![t] = @ \cup {Loose}]
    <3>1. owed' = [owed EXCEPT ![t] = @ \cup {Loose}]
      BY <1>5, <2>3
    <3>2. CASE fresh
      BY <1>5, <2>3, <3>1, <3>2
    <3>3. CASE ~ fresh
      <4>1. id = known /\ ~ e.extra /\ cache' = Noted(e, id)
        BY <1>5, <1>7, <2>3, <3>3
      <4> QED
        BY <2>3, <3>1, <4>1 DEF Noted
    <3> QED
      BY <1>6, <3>2, <3>3
  <2>4. ASSUME ~(e.extra /\ known # None), ~(pending /\ id # None)
        PROVE  cache' = cache /\ owed' = owed
    <3>1. owed' = owed
      BY <1>5, <2>1, <2>4
    <3>2. ~(fresh /\ pending)
      BY <1>3, <1>7, <2>4
    <3>3. cache' = Noted(e, known)
      BY <1>5, <3>2
    <3>4. CASE known = None
      BY <1>8, <3>1, <3>3, <3>4 DEF Noted
    <3>5. CASE known # None
      <4>1. ~ e.extra /\ ~ pending
        BY <1>7, <1>9, <2>4, <3>5
      <4> QED
        BY <3>1, <3>3, <4>1 DEF Noted
    <3> QED
      BY <3>4, <3>5
  <2>5. CASE e.extra /\ known # None
    BY <2>2, <2>5
  <2>6. CASE ~(e.extra /\ known # None) /\ pending /\ id # None
    BY <2>3, <2>6
  <2>7. CASE ~(e.extra /\ known # None) /\ ~(pending /\ id # None)
    BY <2>4, <2>7
  <2> QED
    BY <1>9, <2>5, <2>6, <2>7
<1>11. toolId[t] = None /\ id # None => id \in OwnIds(t)
  BY <1>3, <1>4, <1>6, <1>7
<1>12. toolId[t] # None => id = toolId[t]
  BY <1>4, <1>7
<1>13. Notes(t, id)
  BY <1>5, <1>7, <1>10, <1>11, <1>12 DEF Notes
<1>14. proto = "anthropic" /\ e.name => id # None
  <2>1. ASSUME proto = "anthropic", e.name, known = None
        PROVE  fresh
    BY <2>1 DEF fresh
  <2> QED
    BY <1>3, <1>7, <2>1
<1>15. proto # "anthropic" => id = known
  <2>1. fresh => proto = "anthropic"
    BY DEF fresh
  <2> QED
    BY <1>6, <1>7, <2>1
<1> QED
  BY <1>7, <1>13, <1>14, <1>15 DEF known

LEMMA NotesType ==
  ASSUME SignaturesTypeOK, NEW t \in Tools, NEW id, Notes(t, id)
  PROVE  /\ toolId' \in [Tools -> Ids \cup {None}]
         /\ last' \in Ids \cup {None}
         /\ cache' \in [Ids -> Signatures \cup {None}]
         /\ owed' \in [Tools -> SUBSET Signatures]
         /\ toolId'[t] = id
         /\ \A u \in Tools : toolId[u] # None \/ u # t => toolId'[u] = toolId[u]
<1>1. /\ toolId \in [Tools -> Ids \cup {None}] /\ last \in Ids \cup {None}
      /\ cache \in [Ids -> Signatures \cup {None}] /\ owed \in [Tools -> SUBSET Signatures]
  BY DEF SignaturesTypeOK
<1>2. /\ id \in Ids \cup {None} /\ toolId' = [toolId EXCEPT ![t] = id]
      /\ last' = IF id = None THEN last ELSE id
      /\ toolId[t] # None => id = toolId[t]
  BY DEF Notes
<1>3. cache' \in [Ids -> Signatures \cup {None}] /\ owed' \in [Tools -> SUBSET Signatures]
  <2>1. CASE cache' = cache /\ owed' = owed
    BY <1>1, <2>1
  <2>2. ASSUME NEW sig \in {t, Loose}, cache' = Stored(cache, id, sig),
               owed' = [owed EXCEPT ![t] = @ \cup {sig}]
        PROVE  cache' \in [Ids -> Signatures \cup {None}] /\ owed' \in [Tools -> SUBSET Signatures]
    <3>1. sig \in Signatures
      BY Names
    <3>2. owed' \in [Tools -> SUBSET Signatures]
      BY <1>1, <2>2, <3>1
    <3> QED
      BY <1>1, <1>2, <2>2, <3>1, <3>2, StoredIs
  <2> QED
    BY <2>1, <2>2 DEF Notes
<1> QED
  BY <1>1, <1>2, <1>3

\* An entry disturbs nothing that is kept for another call.
LEMMA NotesKeep ==
  ASSUME SignaturesTypeOK, StreamKeeps, NEW t \in Tools, NEW id, Notes(t, id), proto' = proto
  PROVE  StreamKeeps'
<1>1. /\ cache \in [Ids -> Signatures \cup {None}] /\ id \in Ids \cup {None}
      /\ toolId \in [Tools -> Ids \cup {None}]
  BY DEF SignaturesTypeOK, Notes
<1>2. toolId'[t] = id /\ \A u \in Tools : toolId[u] # None \/ u # t => toolId'[u] = toolId[u]
  BY NotesType
<1>3. /\ \A i \in Ids : cache[i] # None => \E u \in Tools : toolId[u] = i /\ cache[i] \in {u, Loose}
      /\ last # None => \E u \in Tools : toolId[u] = last
      /\ \A u \in Tools :
           /\ toolId[u] # None => toolId[u] \in OwnIds(u)
           /\ owed[u] # {} /\ proto # "responses" => toolId[u] # None /\ cache[toolId[u]] \in owed[u]
  BY DEF StreamKeeps
<1>4. \A u \in Tools : toolId'[u] # None => toolId'[u] \in OwnIds(u)
  <2>1. ASSUME NEW u \in Tools, toolId'[u] # None
        PROVE  toolId'[u] \in OwnIds(u)
    <3>1. CASE toolId[u] # None \/ u # t
      BY <1>2, <1>3, <2>1, <3>1
    <3>2. CASE toolId[u] = None /\ u = t
      BY <1>2, <2>1, <3>2 DEF Notes
    <3> QED
      BY <3>1, <3>2
  <2> QED
    BY <2>1
<1>5. last' # None => \E u \in Tools : toolId'[u] = last'
  <2>1. CASE id = None
    <3>1. last' = last
      BY <2>1 DEF Notes
    <3> QED
      BY <1>2, <1>3, <3>1
  <2>2. CASE id # None
    <3>1. last' = id
      BY <2>2 DEF Notes
    <3> QED
      BY <1>2, <3>1
  <2> QED
    BY <2>1, <2>2
<1>6. CASE cache' = cache /\ owed' = owed
  <2>1. \A i \in Ids : cache'[i] # None => \E u \in Tools : toolId'[u] = i /\ cache'[i] \in {u, Loose}
    <3>1. ASSUME NEW i \in Ids, cache'[i] # None
          PROVE  \E u \in Tools : toolId'[u] = i /\ cache'[i] \in {u, Loose}
      <4>1. PICK u \in Tools : toolId[u] = i /\ cache[i] \in {u, Loose}
        BY <1>3, <1>6, <3>1
      <4>2. toolId'[u] = i
        BY <1>2, <4>1, NoneAssumption
      <4> QED
        BY <1>6, <4>1, <4>2
    <3> QED
      BY <3>1
  <2>2. \A u \in Tools : owed'[u] # {} /\ proto' # "responses" =>
                            toolId'[u] # None /\ cache'[toolId'[u]] \in owed'[u]
    BY <1>2, <1>3, <1>6
  <2> QED
    BY <1>4, <1>5, <2>1, <2>2 DEF StreamKeeps
<1>7. ASSUME NEW sig \in {t, Loose}, id # None, cache' = Stored(cache, id, sig),
             owed' = [owed EXCEPT ![t] = @ \cup {sig}]
      PROVE  StreamKeeps'
  <2>0. owed \in [Tools -> SUBSET Signatures]
    BY DEF SignaturesTypeOK
  <2>1. cache'[id] = sig /\ \A j \in Ids : j # id => cache'[j] = cache[j]
    <3>1. sig \in Signatures
      BY Names
    <3> QED
      BY <1>1, <1>7, <3>1, StoredIs
  <2>2. \A i \in Ids : cache'[i] # None => \E u \in Tools : toolId'[u] = i /\ cache'[i] \in {u, Loose}
    <3>1. ASSUME NEW i \in Ids, cache'[i] # None
          PROVE  \E u \in Tools : toolId'[u] = i /\ cache'[i] \in {u, Loose}
      <4>1. CASE i = id
        BY <1>2, <1>7, <2>1, <4>1
      <4>2. CASE i # id
        <5>1. PICK u \in Tools : toolId[u] = i /\ cache[i] \in {u, Loose}
          BY <1>3, <2>1, <3>1, <4>2
        <5>2. toolId'[u] = i
          BY <1>2, <5>1, NoneAssumption
        <5> QED
          BY <2>1, <4>2, <5>1, <5>2
      <4> QED
        BY <4>1, <4>2
    <3> QED
      BY <3>1
  <2>3. ASSUME NEW u \in Tools, owed'[u] # {}, proto' # "responses"
        PROVE  toolId'[u] # None /\ cache'[toolId'[u]] \in owed'[u]
    <3>1. CASE u = t
      <4>1. sig \in owed'[t]
        BY <1>7, <2>0
      <4> QED
        BY <1>2, <1>7, <2>1, <3>1, <4>1
    <3>2. CASE u # t
      <4>1. owed'[u] = owed[u] /\ toolId'[u] = toolId[u]
        BY <1>2, <1>7, <2>0, <3>2
      <4>2. toolId[u] # None /\ cache[toolId[u]] \in owed[u] /\ toolId[u] \in OwnIds(u)
        BY <1>3, <2>3, <4>1
      <4>3. toolId[u] \in Ids /\ toolId[u] # id
        <5>1. id \in OwnIds(t)
          BY <1>2, <1>4, <1>7
        <5> QED
          BY <3>2, <4>2, <5>1, OwnIdsApart, OwnIdIs
      <4> QED
        BY <2>1, <4>1, <4>2, <4>3
    <3> QED
      BY <3>1, <3>2
  <2> QED
    BY <1>4, <1>5, <2>2, <2>3 DEF StreamKeeps
<1> QED
  BY <1>6, <1>7 DEF Notes

\* What comes beside the calls is kept for the last of them.
LEMMA ExtraKeeps ==
  ASSUME SignaturesTypeOK, StreamKeeps, NoteExtra
  PROVE  SignaturesTypeOK' /\ StreamKeeps'
<1>1. /\ pending' = TRUE /\ cache' = Stored(cache, last, Loose)
      /\ owed' = [t \in Tools |-> IF last # None /\ toolId[t] = last
                                  THEN owed[t] \cup {Loose} ELSE owed[t]]
      /\ proto' = proto /\ toolId' = toolId /\ last' = last /\ called' = called
  BY DEF NoteExtra
<1>2. /\ cache \in [Ids -> Signatures \cup {None}] /\ last \in Ids \cup {None}
      /\ toolId \in [Tools -> Ids \cup {None}]
  BY DEF SignaturesTypeOK
<1>3. /\ cache' \in [Ids -> Signatures \cup {None}]
      /\ last # None => cache'[last] = Loose
      /\ \A j \in Ids : j # last => cache'[j] = cache[j]
      /\ last = None => cache' = cache
  <2>1. Loose \in Signatures
    BY Names
  <2> QED
    BY <1>1, <1>2, <2>1, StoredIs
<1>4. SignaturesTypeOK'
  <2>1. owed' \in [Tools -> SUBSET Signatures]
    BY <1>1, Names DEF SignaturesTypeOK
  <2> QED
    BY <1>1, <1>3, <2>1 DEF SignaturesTypeOK
<1>5. /\ \A i \in Ids : cache[i] # None => \E u \in Tools : toolId[u] = i /\ cache[i] \in {u, Loose}
      /\ last # None => \E u \in Tools : toolId[u] = last
      /\ \A u \in Tools :
           /\ toolId[u] # None => toolId[u] \in OwnIds(u)
           /\ owed[u] # {} /\ proto # "responses" => toolId[u] # None /\ cache[toolId[u]] \in owed[u]
  BY DEF StreamKeeps
<1>6. ASSUME NEW i \in Ids, cache'[i] # None
      PROVE  \E u \in Tools : toolId[u] = i /\ cache'[i] \in {u, Loose}
  <2>1. CASE i = last
    <3>1. i # None
      BY NoneAssumption
    <3> QED
      BY <1>3, <1>5, <2>1, <3>1
  <2>2. CASE i # last
    BY <1>3, <1>5, <1>6, <2>2
  <2> QED
    BY <2>1, <2>2
<1>7. ASSUME NEW u \in Tools, owed'[u] # {}, proto # "responses"
      PROVE  toolId[u] # None /\ cache'[toolId[u]] \in owed'[u]
  <2>1. CASE last # None /\ toolId[u] = last
    BY <1>1, <1>3, <2>1
  <2>2. CASE ~(last # None /\ toolId[u] = last)
    <3>1. owed'[u] = owed[u]
      BY <1>1, <2>2
    <3>2. toolId[u] # None /\ cache[toolId[u]] \in owed[u]
      BY <1>5, <1>7, <3>1
    <3> QED
      BY <1>2, <1>3, <2>2, <3>1, <3>2
  <2> QED
    BY <2>1, <2>2
<1>8. StreamKeeps'
  BY <1>1, <1>5, <1>6, <1>7 DEF StreamKeeps
<1> QED
  BY <1>4, <1>8

(***************************************************************************)
(* Events that the client is sent.                                         *)
(***************************************************************************)

LEMMA StopIs ==
  ASSUME stream \in StreamType, NEW n \in Blocks
  PROVE  /\ StopOf(n) \in StreamType
         /\ StopOf(n).phase = stream.phase /\ StopOf(n).reason = stream.reason
         /\ StopOf(n).parts = stream.parts
         /\ StopOf(n).open = stream.open \ {n} /\ StopOf(n).closed = stream.closed \cup {n}
BY DEF StreamType, StopOf

LEMMA StartIs ==
  ASSUME stream \in StreamType, NEW n \in Blocks
  PROVE  /\ StartOf(n) \in StreamType
         /\ StartOf(n).phase = stream.phase /\ StartOf(n).reason = stream.reason
         /\ StartOf(n).parts = stream.parts
         /\ StartOf(n).open = stream.open \cup {n} /\ StartOf(n).closed = stream.closed
BY DEF StreamType, StartOf

LEMMA DeltaIs ==
  ASSUME stream \in StreamType, NEW n \in Blocks
  PROVE  /\ DeltaOf(n) \in StreamType
         /\ DeltaOf(n).phase = stream.phase /\ DeltaOf(n).reason = stream.reason
         /\ DeltaOf(n).parts = [stream.parts EXCEPT ![n] = @ + 1]
         /\ DeltaOf(n).open = stream.open /\ DeltaOf(n).closed = stream.closed
BY DEF StreamType, DeltaOf

\* The active block stops.
LEMMA StopActiveIs ==
  ASSUME stream \in StreamType, NEW p, ParserOK(p), p.active = parser.active,
         parser.active # None, StopActive(p)
  PROVE  /\ stream' \in StreamType /\ stream' = StopOf(parser.active)
         /\ parser.active \in Blocks
         /\ ParserOK(parser') /\ parser'.active = None
         /\ parser'.number = p.number /\ parser'.next = p.next
         /\ parser'.started = p.started /\ parser'.calls = p.calls /\ parser'.begun = p.begun
<1>1. p \in ParserType /\ parser.active \in Blocks
  BY DEF ParserOK, ParserType
<1>2. stream' = StopOf(parser.active) /\ parser' = [p EXCEPT !.active = None]
  BY DEF StopActive
<1>3. /\ parser' \in ParserType /\ parser'.active = None
      /\ parser'.number = p.number /\ parser'.next = p.next
      /\ parser'.started = p.started /\ parser'.calls = p.calls /\ parser'.begun = p.begun
  BY <1>1, <1>2 DEF ParserType
<1>4. ParserOK(parser')
  BY <1>3, ParserNotes
<1> QED
  BY <1>1, <1>2, <1>3, <1>4, StopIs

\* A block of thinking or of text starts.
LEMMA StartBlockIs ==
  ASSUME ParserOK(parser), NEW b \in Blocks,
         NEW q, q = [Numbered(b) EXCEPT !.started = @ \cup {b}, !.active = Number(b)]
  PROVE  /\ ParserOK(q) /\ q.active = Number(b) /\ Number(b) \in Blocks
         /\ q.number = Numbered(b).number /\ q.next = Numbered(b).next
         /\ q.started = parser.started \cup {b} /\ q.calls = parser.calls /\ q.begun = parser.begun
<1> DEFINE p == Numbered(b)
           n == Number(b)
<1>1. /\ ParserOK(p) /\ p.started = parser.started /\ p.calls = parser.calls /\ p.begun = parser.begun
      /\ p.number[b] \in Blocks /\ n = p.number[b]
  BY NumberedIs
<1>2. p \in ParserType
  BY <1>1 DEF ParserOK
<1>3. q = [p EXCEPT !.started = @ \cup {b}, !.active = n]
  OBVIOUS
<1> HIDE DEF p, n
<1> DEFINE started == p.started \cup {b}
<1>4. started \in SUBSET Blocks /\ q = [p EXCEPT !.started = started, !.active = n]
  BY <1>2, <1>3 DEF ParserType
<1> HIDE DEF started
<1>5. n \in Blocks
  BY <1>1
<1>6. /\ q \in ParserType /\ q.active = n /\ q.number = p.number /\ q.next = p.next
      /\ q.started = started /\ q.calls = p.calls /\ q.begun = p.begun
  BY <1>2, <1>4, <1>5 DEF ParserType
<1>7. ParserOK(q)
  BY <1>1, <1>6, ParserNotes
<1> QED
  BY <1>1, <1>6, <1>7 DEF p, n, started

\* A part of a call makes its block the active one.
LEMMA ActiveIsBlock ==
  ASSUME ParserOK(parser), NEW b \in Blocks, NEW q, q = [parser EXCEPT !.active = Number(b)],
         parser.number[b] # None
  PROVE  /\ ParserOK(q) /\ q.active = parser.number[b] /\ Number(b) = parser.number[b]
         /\ Number(b) \in Blocks
         /\ q.number = parser.number /\ q.next = parser.next
         /\ q.started = parser.started /\ q.calls = parser.calls /\ q.begun = parser.begun
<1>1. Number(b) = parser.number[b] /\ Number(b) \in Blocks
  BY NumberedIs
<1>2. parser \in ParserType
  BY DEF ParserOK
<1> DEFINE n == Number(b)
<1>3. q = [parser EXCEPT !.active = n] /\ n \in Blocks
  BY <1>1
<1> HIDE DEF n
<1>4. /\ q \in ParserType /\ q.active = n /\ q.number = parser.number /\ q.next = parser.next
      /\ q.started = parser.started /\ q.calls = parser.calls /\ q.begun = parser.begun
  BY <1>2, <1>3 DEF ParserType
<1>5. ParserOK(q)
  BY <1>1, <1>4, ParserNotes DEF n
<1> QED
  BY <1>1, <1>4, <1>5 DEF n

(***************************************************************************)
(* Chunks and their entries.                                               *)
(***************************************************************************)

LEMMA ChunkIs ==
  ASSUME NEW c \in Chunk
  PROVE  /\ c.thinking \in BOOLEAN /\ c.text \in BOOLEAN /\ c.extra \in BOOLEAN
         /\ c.calls \in Seq(Entry) /\ c.finish \in Finish /\ Len(c.calls) \in Nat
         /\ \A n \in 1..Len(c.calls) :
              /\ c.calls[n] \in Entry /\ c.calls[n].index \in Tools
              /\ c.calls[n].name \in BOOLEAN /\ c.calls[n].args \in BOOLEAN
         /\ c.calls # <<>> => 1 \in 1..Len(c.calls) /\ Head(c.calls) = c.calls[1]
<1>1. c.calls \in Seq(Entry) /\ c.thinking \in BOOLEAN /\ c.text \in BOOLEAN /\ c.extra \in BOOLEAN
      /\ c.finish \in Finish
  BY DEF Chunk
<1>2. Len(c.calls) \in Nat /\ \A n \in 1..Len(c.calls) : c.calls[n] \in Entry
  BY <1>1
<1>3. \A e \in Entry : e.index \in Tools /\ e.name \in BOOLEAN /\ e.args \in BOOLEAN
  BY DEF Entry
<1>4. c.calls # <<>> => 1 \in 1..Len(c.calls) /\ Head(c.calls) = c.calls[1]
  BY <1>1
<1> QED
  BY <1>1, <1>2, <1>3, <1>4

\* A chunk without its next entry.
LEMMA RestIs ==
  ASSUME NEW c \in Chunk, c.calls # <<>>, NEW d, d = [c EXCEPT !.calls = Tail(@)]
  PROVE  /\ d \in Chunk /\ d.calls = Tail(c.calls)
         /\ d.thinking = c.thinking /\ d.text = c.text /\ d.extra = c.extra /\ d.finish = c.finish
         /\ Len(d.calls) = Len(c.calls) - 1
         /\ \A n \in 1..Len(d.calls) : d.calls[n] = c.calls[n + 1]
<1> DEFINE rest == Tail(c.calls)
<1>1. c.calls \in Seq(Entry)
  BY ChunkIs
<1>2. rest \in Seq(Entry) /\ Len(rest) = Len(c.calls) - 1
      /\ \A n \in 1..Len(rest) : rest[n] = c.calls[n + 1]
  BY <1>1
<1>3. d = [c EXCEPT !.calls = rest]
  BY DEF Chunk
<1> HIDE DEF rest
<1>4. /\ d \in Chunk /\ d.calls = rest
      /\ d.thinking = c.thinking /\ d.text = c.text /\ d.extra = c.extra /\ d.finish = c.finish
  BY <1>2, <1>3 DEF Chunk
<1> QED
  BY <1>2, <1>4 DEF rest

\* A chunk whose next entry has no name.
LEMMA UnnamedIs ==
  ASSUME NEW c \in Chunk, c.calls # <<>>, NEW d, d = [c EXCEPT !.calls[1].name = FALSE]
  PROVE  /\ d \in Chunk
         /\ d.thinking = c.thinking /\ d.text = c.text /\ d.extra = c.extra /\ d.finish = c.finish
         /\ Len(d.calls) = Len(c.calls) /\ d.calls # <<>>
         /\ d.calls[1].name = FALSE /\ d.calls[1].index = c.calls[1].index
         /\ d.calls[1].args = c.calls[1].args
         /\ \A n \in 1..Len(d.calls) : n # 1 => d.calls[n] = c.calls[n]
<1> DEFINE e == [c.calls[1] EXCEPT !.name = FALSE]
           rest == [c.calls EXCEPT ![1] = e]
<1>1. c.calls \in Seq(Entry) /\ c.calls[1] \in Entry /\ 1 \in 1..Len(c.calls)
  BY ChunkIs
<1>2. e \in Entry /\ e.name = FALSE /\ e.index = c.calls[1].index /\ e.args = c.calls[1].args
  BY <1>1 DEF Entry
<1>3. d = [c EXCEPT !.calls = rest]
  BY DEF Chunk
<1> HIDE DEF e
<1>4. /\ rest \in Seq(Entry) /\ Len(rest) = Len(c.calls) /\ rest[1] = e
      /\ \A n \in 1..Len(rest) : n # 1 => rest[n] = c.calls[n]
  BY <1>1, <1>2
<1>5. rest # <<>>
  BY <1>1, <1>4
<1> HIDE DEF rest
<1>6. /\ d \in Chunk /\ d.calls = rest
      /\ d.thinking = c.thinking /\ d.text = c.text /\ d.extra = c.extra /\ d.finish = c.finish
  BY <1>3, <1>4 DEF Chunk
<1> QED
  BY <1>2, <1>4, <1>5, <1>6

LEMMA NothingIs == Nothing \in Chunk
<1>1. <<>> \in Seq(Entry)
  OBVIOUS
<1> QED
  BY <1>1 DEF Nothing, Chunk, Finish

(***************************************************************************)
(* An answer that is not streamed.                                         *)
(***************************************************************************)

\* A set of positions has a last one.
LEMMA LastPosition ==
  ASSUME NEW n \in Nat, NEW T \in SUBSET (1..n), T # {}
  PROVE  \E i \in T : \A j \in T : j <= i
<1> DEFINE D == {n - i : i \in T}
<1>1. D \subseteq Nat /\ D # {}
  <2>1. \A i \in T : i \in 1..n
    OBVIOUS
  <2>2. \A i \in 1..n : n - i \in Nat
    OBVIOUS
  <2> QED
    BY <2>1, <2>2
<1>2. PICK d \in D : \A e \in D : ~ (<<e, d>> \in OpToRel(<, Nat))
  BY <1>1, WFMin, NatLessThanWellFounded
<1>3. PICK i \in T : d = n - i
  OBVIOUS
<1>4. ASSUME NEW j \in T PROVE j <= i
  <2>1. n - j \in D
    OBVIOUS
  <2>2. ~ (n - j < d)
    BY <1>1, <1>2, <2>1 DEF OpToRel
  <2> QED
    BY <1>3, <2>2
<1> QED
  BY <1>4

\* The ID a call of such an answer is stored under.
AnswerId(e) == IF e.id # "none" THEN Prefixed(IdOf(e)) ELSE [name |-> Empty, prefixed |-> TRUE]

AnswerStores(e, loose) ==
  proto # "responses" /\ (e.extra \/ loose) /\ (e.id # "none" \/ proto = "anthropic")

\* The signature that is stored for it.
AnswerBrings(e) == IF e.extra THEN e.index ELSE Loose

LEMMA AnswerIdIs ==
  ASSUME NEW e \in Entry
  PROVE  /\ AnswerId(e) \in Ids /\ AnswerId(e).prefixed = TRUE
         /\ e.id # "none" => AnswerId(e) = Prefixed(IdOf(e)) /\ AnswerId(e).name = Given(e.index)
         /\ e.id = "none" => AnswerId(e).name = Empty
<1>1. IdOf(e) \in Ids /\ IdOf(e).name = Given(e.index)
  BY IdOfEntry
<1>2. Prefixed(IdOf(e)) \in Ids /\ Prefixed(IdOf(e)).name = Given(e.index)
      /\ Prefixed(IdOf(e)).prefixed = TRUE
  BY <1>1, Spelling
<1> DEFINE n == Empty
<1>3. n \in 0..(2 * MaxTools)
  BY Names
<1>4. AnswerId(e) = IF e.id # "none" THEN Prefixed(IdOf(e)) ELSE [name |-> n, prefixed |-> TRUE]
  BY DEF AnswerId
<1> HIDE DEF n
<1>5. [name |-> n, prefixed |-> TRUE] \in Ids /\ [name |-> n, prefixed |-> TRUE].name = n
      /\ [name |-> n, prefixed |-> TRUE].prefixed = TRUE
  BY <1>3 DEF Ids
<1> QED
  BY <1>2, <1>4, <1>5 DEF n

\* What is kept of the calls: under each ID, the signature of a call with that ID.
LEMMA AnswerCache ==
  ASSUME SignaturesTypeOK, NEW calls \in Seq(Entry), NEW loose \in BOOLEAN,
         NoteAnswer(calls, loose), cache = [i \in Ids |-> None]
  PROVE  /\ cache' \in [Ids -> Signatures \cup {None}]
         /\ \A i \in Ids :
              IF \E n \in DOMAIN calls : AnswerStores(calls[n], loose) /\ AnswerId(calls[n]) = i
              THEN \E n \in DOMAIN calls :
                     /\ AnswerId(calls[n]) = i /\ AnswerStores(calls[n], loose)
                     /\ cache'[i] = AnswerBrings(calls[n])
              ELSE cache'[i] = None
<1> DEFINE StoredBy(i) == {n \in DOMAIN calls : AnswerStores(calls[n], loose) /\ AnswerId(calls[n]) = i}
           LastOf(S) == CHOOSE n \in S : \A m \in S : m <= n
<1>1. cache' = [i \in Ids |-> IF StoredBy(i) = {} THEN cache[i]
                              ELSE AnswerBrings(calls[LastOf(StoredBy(i))])]
  BY DEF NoteAnswer, AnswerStores, AnswerId, AnswerBrings
<1>2. DOMAIN calls = 1..Len(calls) /\ Len(calls) \in Nat
  BY LenProperties
<1>3. \A n \in DOMAIN calls : calls[n].index \in Tools
  <2>1. \A e \in Entry : e.index \in Tools
    BY DEF Entry
  <2>2. \A n \in DOMAIN calls : calls[n] \in Entry
    BY <1>2, ElementOfSeq
  <2> QED
    BY <2>1, <2>2
<1>4. ASSUME NEW i \in Ids, StoredBy(i) # {}
      PROVE  \E n \in DOMAIN calls : /\ AnswerId(calls[n]) = i /\ AnswerStores(calls[n], loose)
                                     /\ cache'[i] = AnswerBrings(calls[n])
  <2> DEFINE S == StoredBy(i)
             n == LastOf(S)
  <2>1. S \in SUBSET (1..Len(calls))
    BY <1>2
  <2>2. cache'[i] = AnswerBrings(calls[n])
    BY <1>1, <1>4
  <2>3. n \in S
    <3> HIDE DEF StoredBy, S
    <3>1. S # {}
      BY <1>4 DEF S
    <3>2. \E k \in S : \A m \in S : m <= k
      BY <1>2, <2>1, <3>1, LastPosition
    <3> QED
      BY <3>2
  <2>4. n \in DOMAIN calls /\ AnswerId(calls[n]) = i /\ AnswerStores(calls[n], loose)
    BY <2>3
  <2> HIDE DEF n
  <2> QED
    BY <2>2, <2>4
<1>5. ASSUME NEW i \in Ids, StoredBy(i) = {}
      PROVE  cache'[i] = None
  BY <1>1, <1>5
<1>6. ASSUME NEW i \in Ids PROVE cache'[i] \in Signatures \cup {None}
  <2>1. CASE StoredBy(i) = {}
    BY <1>5, <2>1
  <2>2. CASE StoredBy(i) # {}
    <3>1. PICK n \in DOMAIN calls : cache'[i] = AnswerBrings(calls[n])
      BY <1>4, <2>2
    <3> QED
      BY <1>3, <3>1, Names DEF AnswerBrings
  <2> QED
    BY <2>1, <2>2
<1>7. cache' \in [Ids -> Signatures \cup {None}]
  <2> HIDE DEF StoredBy, LastOf
  <2>1. cache' = [i \in Ids |-> cache'[i]]
    BY <1>1
  <2> QED
    BY <1>6, <2>1
<1>8. \A i \in Ids :
        (\E n \in DOMAIN calls : AnswerStores(calls[n], loose) /\ AnswerId(calls[n]) = i) <=> StoredBy(i) # {}
  OBVIOUS
<1> HIDE DEF StoredBy
<1> QED
  BY <1>4, <1>5, <1>7, <1>8

\* Each call of such an answer has the ID it came with, and comes back with a signature
\* that came with it or beside the calls.
LEMMA AnswerIs ==
  ASSUME SignaturesTypeOK, NEW calls \in Seq(Entry), NEW loose \in BOOLEAN,
         NoteAnswer(calls, loose), \A n \in DOMAIN calls : calls[n].index = n - 1,
         cache = [i \in Ids |-> None], called = [t \in Tools |-> None], owed = [t \in Tools |-> {}]
  PROVE  SignaturesTypeOK' /\ AnswerKeeps'
<1> DEFINE Entries == {calls[n] : n \in DOMAIN calls}
           IdFor(e) == IF proto = "anthropic" THEN AnswerId(e)
                       ELSE IF e.id = "none" THEN None ELSE IdOf(e)
<1>1. DOMAIN calls = 1..Len(calls) /\ Len(calls) \in Nat /\ \A n \in DOMAIN calls : calls[n] \in Entry
  BY LenProperties, ElementOfSeq
<1>2. \A e \in Entry : e.index \in Tools
  BY DEF Entry
<1>3. \A d, e \in Entries : d.index = e.index => d = e
  <2>1. ASSUME NEW m \in DOMAIN calls, NEW n \in DOMAIN calls, calls[m].index = calls[n].index
        PROVE  calls[m] = calls[n]
    <3>1. m \in Nat /\ n \in Nat /\ m - 1 = n - 1
      BY <1>1, <2>1
    <3> QED
      BY <3>1
  <2> QED
    BY <2>1
<1>4. /\ called' = [t \in Tools |-> IF \E e \in Entries : e.index = t
                                    THEN IdFor(CHOOSE e \in Entries : e.index = t)
                                    ELSE called[t]]
      /\ owed' = [t \in Tools |-> owed[t] \cup
           {AnswerBrings(e) : e \in {d \in Entries : d.index = t /\ d.id # "none" /\ (d.extra \/ loose)}}]
      /\ proto' = proto /\ toolId' = toolId /\ last' = last /\ pending' = pending
  BY DEF NoteAnswer, AnswerId, AnswerBrings
<1>5. /\ cache' \in [Ids -> Signatures \cup {None}]
      /\ \A i \in Ids :
           IF \E n \in DOMAIN calls : AnswerStores(calls[n], loose) /\ AnswerId(calls[n]) = i
           THEN \E n \in DOMAIN calls : /\ AnswerId(calls[n]) = i /\ AnswerStores(calls[n], loose)
                                        /\ cache'[i] = AnswerBrings(calls[n])
           ELSE cache'[i] = None
  BY AnswerCache
<1>6. \A e \in Entries : e \in Entry /\ AnswerId(e) \in Ids /\ IdOf(e) \in Ids
  BY <1>1, AnswerIdIs, IdOfEntry
<1>7. ASSUME NEW t \in Tools
      PROVE  \/ called'[t] = None
             \/ \E e \in Entries : e.index = t /\ called'[t] = IdFor(e)
  <2>1. CASE \E e \in Entries : e.index = t
    <3> DEFINE e == CHOOSE e \in Entries : e.index = t
    <3>1. e \in Entries /\ e.index = t
      BY <2>1
    <3>2. called'[t] = IdFor(e)
      BY <1>4, <2>1
    <3> HIDE DEF e, Entries
    <3> QED
      BY <3>1, <3>2
  <2>2. CASE ~ \E e \in Entries : e.index = t
    BY <1>4, <2>2
  <2> QED
    BY <2>1, <2>2
<1>8. SignaturesTypeOK'
  <2>1. ASSUME NEW t \in Tools PROVE called'[t] \in Ids \cup {None}
    BY <1>6, <1>7
  <2>2. called' = [t \in Tools |-> called'[t]]
    <3> HIDE DEF Entries, IdFor
    <3> QED
      BY <1>4
  <2>3. called' \in [Tools -> Ids \cup {None}]
    BY <2>1, <2>2
  <2>4. owed' \in [Tools -> SUBSET Signatures]
    <3>1. ASSUME NEW t \in Tools PROVE owed'[t] \in SUBSET Signatures
      <4>1. owed'[t] = {AnswerBrings(e) : e \in {d \in Entries : d.index = t /\ d.id # "none"
                                                                 /\ (d.extra \/ loose)}}
        BY <1>4
      <4>2. \A e \in Entries : AnswerBrings(e) \in Signatures
        BY <1>2, <1>6, Names DEF AnswerBrings
      <4> HIDE DEF Entries
      <4> QED
        BY <4>1, <4>2
    <3>2. owed' = [t \in Tools |-> owed'[t]]
      BY <1>4
    <3> QED
      BY <3>1, <3>2
  <2> QED
    BY <1>4, <1>5, <2>3, <2>4 DEF SignaturesTypeOK
<1> HIDE DEF Entries
<1>9. \A t \in Tools : Lookup(called[t])' = LookupIn(cache', called'[t])
  BY DEF Lookup, LookupIn
<1>10. \A i \in Ids : i.prefixed = FALSE => cache'[i] = None
  BY <1>1, <1>5, AnswerIdIs
\* Under an ID of the call t only its own signature is stored.
<1>11. ASSUME NEW t \in Tools, NEW i \in Ids, i.name = Given(t)
       PROVE  cache'[i] \in {None, t, Loose}
  <2>1. CASE cache'[i] # None
    <3>1. PICK n \in DOMAIN calls : AnswerId(calls[n]) = i /\ cache'[i] \in {calls[n].index, Loose}
      BY <1>5, <2>1 DEF AnswerBrings
    <3>2. calls[n] \in Entry /\ calls[n].index \in Tools
      BY <1>1, <1>2
    <3>3. Given(calls[n].index) = Given(t)
      BY <1>11, <3>1, <3>2, AnswerIdIs, Names
    <3>4. calls[n].index = t
      BY <3>2, <3>3, Names
    <3> QED
      BY <3>1, <3>4
  <2> QED
    BY <2>1
<1>12. ASSUME NEW t \in Tools, called'[t] # None
       PROVE  /\ called'[t].name \in {Given(t), Empty}
              /\ called'[t].name # Empty => LookupIn(cache', called'[t]) \in {None, t, Loose}
              /\ owed'[t] # {} /\ proto' # "responses" =>
                   called'[t].name # Empty /\ LookupIn(cache', called'[t]) \in owed'[t]
  <2>1. PICK e \in Entries : e.index = t /\ called'[t] = IdFor(e)
    BY <1>7, <1>12
  <2>2. e \in Entry /\ IdOf(e) \in Ids /\ IdOf(e).name = Given(t)
    BY <1>6, <2>1, IdOfEntry
  <2>3. /\ called'[t] \in Ids
        /\ e.id # "none" => called'[t].name = Given(t) /\ Prefixed(called'[t]) = AnswerId(e)
        /\ e.id = "none" => called'[t].name = Empty
    <3>1. /\ AnswerId(e) \in Ids /\ AnswerId(e).prefixed = TRUE
          /\ e.id # "none" => AnswerId(e) = Prefixed(IdOf(e)) /\ AnswerId(e).name = Given(t)
          /\ e.id = "none" => AnswerId(e).name = Empty
      BY <2>1, <2>2, AnswerIdIs
    <3>2. Prefixed(AnswerId(e)) = AnswerId(e)
      BY <3>1, TwoSpellings
    <3>3. CASE proto = "anthropic"
      BY <2>1, <3>1, <3>2, <3>3
    <3>4. CASE proto # "anthropic"
      BY <1>12, <2>1, <2>2, <3>1, <3>4
    <3> QED
      BY <3>3, <3>4
  <2>4. Given(t) # Empty
    BY Names
  <2>5. LookupIn(cache', called'[t]) = cache'[Prefixed(called'[t])]
    <3> DEFINE i == called'[t]
    <3>1. i \in Ids
      BY <2>3
    <3> HIDE DEF i
    <3>2. cache'[Trimmed(i)] = None
      BY <1>10, <3>1, Spelling
    <3>3. cache' \in [Ids -> Signatures \cup {None}]
      BY <1>5
    <3>4. LookupIn(cache', i) = cache'[Prefixed(i)]
      BY <3>1, <3>2, <3>3, LookupIs
    <3> QED
      BY <3>4 DEF i
  <2>51. owed'[t] = {AnswerBrings(d) : d \in {d \in Entries : d.index = t /\ d.id # "none"
                                                               /\ (d.extra \/ loose)}}
    BY <1>4
  <2>6. CASE e.id = "none"
    <3>1. owed'[t] = {}
      <4>1. \A d \in Entries : ~(d.index = t /\ d.id # "none")
        BY <1>3, <2>1, <2>6 DEF Entries
      <4> QED
        BY <2>51, <4>1
    <3> QED
      BY <2>3, <2>6, <3>1
  <2>7. CASE e.id # "none"
    <3>1. LookupIn(cache', called'[t]) \in {None, t, Loose}
      <4>1. Prefixed(called'[t]) \in Ids /\ Prefixed(called'[t]).name = Given(t)
        BY <2>3, <2>7, Spelling
      <4> QED
        BY <1>11, <2>5, <4>1
    <3>2. ASSUME owed'[t] # {}, proto' # "responses"
          PROVE  LookupIn(cache', called'[t]) \in owed'[t]
      <4>1. PICK d \in Entries : d.id # "none" /\ (d.extra \/ loose) /\ d.index = t
        BY <2>51, <3>2
      <4>2. d = e
        BY <1>3, <2>1, <4>1 DEF Entries
      <4>3. AnswerStores(e, loose)
        BY <1>4, <2>7, <3>2, <4>1, <4>2 DEF AnswerStores
      <4>4. PICK n \in DOMAIN calls : e = calls[n]
        BY DEF Entries
      <4>5. PICK m \in DOMAIN calls : /\ AnswerId(calls[m]) = AnswerId(e)
                                      /\ cache'[AnswerId(e)] = AnswerBrings(calls[m])
        BY <1>5, <1>6, <4>3, <4>4
      <4>6. calls[m] = e
        <5>1. calls[m] \in Entry /\ calls[m] \in Entries /\ calls[m].index \in Tools /\ e.index \in Tools
          BY <1>1, <1>2, <2>2 DEF Entries
        <5>2. AnswerId(e).name = Given(t) /\ Given(t) # Empty
          BY <2>1, <2>2, <2>4, <2>7, AnswerIdIs
        <5>3. Given(calls[m].index) = Given(t)
          BY <4>5, <5>1, <5>2, AnswerIdIs
        <5>4. calls[m].index = e.index
          BY <2>1, <5>1, <5>3, Names
        <5> QED
          BY <1>3, <5>1, <5>4
      <4>7. AnswerBrings(e) \in owed'[t]
        BY <2>51, <4>1, <4>2
      <4> QED
        BY <2>3, <2>5, <2>7, <4>5, <4>6, <4>7
    <3> QED
      BY <2>3, <2>4, <2>7, <3>1, <3>2
  <2> QED
    BY <2>6, <2>7
<1>13. AnswerKeeps'
  BY <1>9, <1>12 DEF AnswerKeeps, Asked
<1> QED
  BY <1>8, <1>13

(***************************************************************************)
(* Stages and numbers are kept by every step.                              *)
(***************************************************************************)

LEMMA CallNumbered ==
  ASSUME StagesOK, pc = "call"
  PROVE  /\ chunk.calls # <<>> /\ Head(chunk.calls) \in Entry /\ Head(chunk.calls).index \in Tools
         /\ CallBlock(Head(chunk.calls).index) \in Blocks
         /\ parser.number[CallBlock(Head(chunk.calls).index)] # None
<1>1. chunk \in Chunk /\ chunk.calls # <<>>
  BY Fields
<1> QED
  BY <1>1, ChunkIs, BlocksAre DEF StagesOK

\* A part of the thinking or of the text.
LEMMA FillIs ==
  ASSUME ParserOK(parser), stream \in StreamType, NEW b \in Blocks, Fill(b)
  PROVE  ParserOK(parser') /\ stream' \in StreamType /\ pc' = pc /\ chunk' = chunk
<1>1. CASE MustStop(b) /\ StopActive(Numbered(b)) /\ UNCHANGED <<pc, chunk>>
  <2>1. ParserOK(Numbered(b)) /\ Numbered(b).active = parser.active
    BY NumberedIs
  <2>2. parser.active # None
    BY <1>1 DEF MustStop
  <2>3. ParserOK(parser') /\ stream' \in StreamType
    BY <1>1, <2>1, <2>2, StopActiveIs
  <2> QED
    BY <1>1, <2>3
<1>2. CASE /\ ~ MustStop(b) /\ b \notin parser.started
           /\ parser' = [Numbered(b) EXCEPT !.started = @ \cup {b}, !.active = Number(b)]
           /\ stream' = StartOf(Number(b))
           /\ UNCHANGED <<pc, chunk>>
  <2>1. ParserOK(parser') /\ Number(b) \in Blocks
    BY <1>2, StartBlockIs
  <2> QED
    BY <1>2, <2>1, StartIs
<1> QED
  BY <1>1, <1>2 DEF Fill

LEMMA StagesInit ==
  ASSUME Init
  PROVE  StagesOK
<1>1. /\ proto \in Protocols /\ cache = [i \in Ids |-> None] /\ toolId = [t \in Tools |-> None]
      /\ last = None /\ pending = FALSE /\ called = [t \in Tools |-> None]
      /\ owed = [t \in Tools |-> {}]
      /\ request = None /\ pc = "read" /\ chunk = Nothing /\ read = 0
      /\ parser = [begun |-> FALSE, active |-> None, number |-> [b \in Blocks |-> None], next |-> 0,
                   started |-> {}, calls |-> FALSE]
      /\ stream = [phase |-> "new", open |-> {}, closed |-> {},
                   parts |-> [n \in Blocks |-> 0], reason |-> "none"]
  BY DEF Init, SignaturesInit
<1>2. SignaturesTypeOK
  BY <1>1 DEF SignaturesTypeOK
<1>3. parser \in ParserType
  BY <1>1, ToolsAssumption DEF ParserType
<1>4. Counted = {} /\ parser.next = 0 /\ parser.active = None
  BY <1>1 DEF Counted
<1>5. Cardinality(Counted) = 0
  BY <1>4, FS_EmptySet
<1>6. stream \in StreamType
  BY <1>1 DEF StreamType
<1>7. chunk \in Chunk /\ read \in 0..MaxLines
  BY <1>1, NothingIs, LinesAssumption
<1>8. \A b \in Blocks : parser.number[b] = None
  BY <1>1
<1>9. TypeOK
  BY <1>1, <1>2, <1>3, <1>4, <1>6, <1>7, <1>8 DEF TypeOK, ParserType, StreamType, Stages
<1> QED
  BY <1>1, <1>4, <1>5, <1>9 DEF StagesOK

\* What a client is told of the reason to stop.
LEMMA ReasonIs ==
  ASSUME NEW reason \in {"none", "end_turn", "tool_use", "max_tokens"}, NEW finish, NEW calls
  PROVE  /\ ReasonOf(finish, calls) \in {"none", "end_turn", "tool_use", "max_tokens"}
         /\ ReasonOf(finish, calls) = "end_turn" => finish = "stop" /\ ~ calls
         /\ ReasonTold(reason, finish, calls) \in {"none", "end_turn", "tool_use", "max_tokens"}
         /\ proto = "anthropic" /\ ReasonTold(reason, finish, calls) = "end_turn" =>
              reason = "end_turn" \/ ~ calls
         /\ finish = "none" => ReasonTold(reason, finish, calls) = reason
<1>1. ReasonSent(finish) \in {"none", "end_turn", "tool_use", "max_tokens"}
      /\ (ReasonSent(finish) = "end_turn" => finish = "stop")
  BY DEF ReasonSent
<1>2. /\ ReasonOf(finish, calls) \in {"none", "end_turn", "tool_use", "max_tokens"}
      /\ ReasonOf(finish, calls) = "end_turn" => finish = "stop" /\ ~ calls
  BY <1>1 DEF ReasonOf
<1>3. ReasonTold(reason, finish, calls) \in {reason, ReasonOf(finish, calls), ReasonSent(finish)}
      /\ (proto = "anthropic" => ReasonTold(reason, finish, calls) \in {reason, ReasonOf(finish, calls)})
  BY DEF ReasonTold
<1>4. finish = "none" => ReasonTold(reason, finish, calls) = reason
  BY DEF ReasonTold
<1> QED
  BY <1>1, <1>2, <1>3, <1>4

LEMMA ReadKeepsStages ==
  ASSUME StagesOK, SignaturesOK,
         ReadDone \/ (\E c \in Chunks : ReadChunk(c)) \/ (\E a \in Answers : ReadAnswer(a))
  PROVE  StagesOK'
<1>1. /\ SignaturesTypeOK /\ chunk \in Chunk /\ ParserOK(parser) /\ stream \in StreamType
      /\ read \in 0..MaxLines
  BY Fields
<1>2. ASSUME ReadLine
      PROVE  read' \in 0..MaxLines /\ read' # 0 /\ request = None
  BY <1>1, <1>2, LinesAssumption DEF ReadLine
<1>3. CASE ReadDone
  <2>1. /\ ReadLine /\ pc' = "done" /\ chunk' = chunk /\ parser' = parser /\ stream' = stream
        /\ UNCHANGED svars
    BY <1>3 DEF ReadDone, Goto
  <2>2. SignaturesTypeOK' /\ request' = request
    BY <1>1, <2>1 DEF SignaturesTypeOK, svars
  <2> QED
    BY <1>1, <1>2, <2>1, <2>2, StagesStep DEF Stages
<1>4. ASSUME NEW c \in Chunks, ReadChunk(c)
      PROVE  StagesOK'
  <2>1. /\ ReadLine /\ pc' = "thinking" /\ chunk' = c
        /\ parser' = [parser EXCEPT !.begun = TRUE]
        /\ stream' = [stream EXCEPT !.phase = IF parser.begun THEN @ ELSE "begun"]
        /\ UNCHANGED svars
    BY <1>4 DEF ReadChunk, Goto
  <2>2. SignaturesTypeOK' /\ request' = request
    BY <1>1, <2>1 DEF SignaturesTypeOK, svars
  <2>3. chunk' \in Chunk
    BY <2>1, ChunksAssumption
  <2>4. /\ parser' \in ParserType /\ parser'.number = parser.number /\ parser'.next = parser.next
        /\ parser'.active = parser.active
    BY <1>1, <2>1 DEF ParserOK, ParserType
  <2>5. ParserOK(parser')
    <3>1. parser.active = None \/ \E b \in Blocks : parser.number[b] = parser.active
      BY <1>1 DEF ParserOK
    <3> QED
      BY <1>1, <2>4, <3>1, ParserNotes
  <2>6. stream' \in StreamType
    BY <1>1, <2>1 DEF StreamType
  <2> QED
    BY <1>2, <2>1, <2>2, <2>3, <2>5, <2>6, StagesStep DEF Stages
<1>5. ASSUME NEW a \in Answers, ReadAnswer(a)
      PROVE  StagesOK'
  <2>1. /\ ReadLine /\ read = 0 /\ NoteAnswer(a.calls, a.extra)
        /\ stream' = [stream EXCEPT !.reason = ReasonTold("none", a.finish, a.calls # <<>>)]
        /\ pc' = "answered" /\ chunk' = chunk /\ parser' = parser
    BY <1>5 DEF ReadAnswer, Goto
  <2>2. /\ a.calls \in Seq(Entry) /\ a.extra \in BOOLEAN /\ a.finish \in Finish
        /\ \A n \in DOMAIN a.calls : a.calls[n].index = n - 1
    <3>1. a \in Answer
      BY ChunksAssumption
    <3> QED
      BY <3>1, ChunksAssumption DEF Answer
  <2>3. cache = [i \in Ids |-> None] /\ called = [t \in Tools |-> None]
      /\ owed = [t \in Tools |-> {}]
    BY <2>1 DEF SignaturesOK
  <2>4. SignaturesTypeOK' /\ request' = request
    <3>1. SignaturesTypeOK'
      BY <1>1, <2>1, <2>2, <2>3, AnswerIs
    <3>2. request' = request
      BY <2>1 DEF NoteAnswer
    <3> QED
      BY <3>1, <3>2
  <2>5. stream' \in StreamType
    <3> DEFINE reason == ReasonTold("none", a.finish, a.calls # <<>>)
    <3>1. reason \in {"none", "end_turn", "tool_use", "max_tokens"}
      BY ReasonIs
    <3>2. stream' = [stream EXCEPT !.reason = reason]
      BY <2>1
    <3> HIDE DEF reason
    <3> QED
      BY <1>1, <3>1, <3>2 DEF StreamType
  <2> QED
    BY <1>1, <1>2, <2>1, <2>4, <2>5, StagesStep DEF Stages
<1> QED
  BY <1>3, <1>4, <1>5

\* A step that is not about calls.
LEMMA SameSignatures ==
  ASSUME SignaturesTypeOK, UNCHANGED svars
  PROVE  SignaturesTypeOK' /\ request' = request /\ proto' = proto
BY DEF SignaturesTypeOK, svars

LEMMA TextKeepsStages ==
  ASSUME StagesOK, ConvertThinking \/ ConvertText \/ PassLine
  PROVE  StagesOK'
<1>1. /\ SignaturesTypeOK /\ chunk \in Chunk /\ ParserOK(parser) /\ stream \in StreamType
      /\ read \in 0..MaxLines
  BY Fields
<1>2. /\ pc \in {"thinking", "text"} /\ read' = read /\ request = None /\ read # 0
      /\ SignaturesTypeOK' /\ request' = request /\ proto' = proto
  <2>1. pc \in {"thinking", "text"} /\ read' = read /\ UNCHANGED svars
    BY DEF ConvertThinking, ConvertText, PassLine
  <2> QED
    BY <1>1, <2>1, SameSignatures DEF StagesOK
<1>3. ASSUME NEW b \in {Thinking, Text}, Fill(b) PROVE ParserOK(parser') /\ stream' \in StreamType /\ pc' = pc /\ chunk' = chunk
  BY <1>1, <1>3, FillIs, BlocksAre
<1>4. ASSUME NEW b \in {Thinking, Text}, stream' = DeltaOf(Number(b)) PROVE stream' \in StreamType
  BY <1>1, <1>4, BlocksAre, NumberedIs, DeltaIs
<1>5. CASE ConvertThinking
  <2>1. /\ ParserOK(parser') /\ stream' \in StreamType /\ chunk' = chunk
        /\ pc' \in {"thinking", "text"}
    BY <1>1, <1>3, <1>4, <1>5 DEF ConvertThinking, Goto
  <2>2. proto = "anthropic"
    BY <1>5 DEF ConvertThinking
  <2> QED
    BY <1>1, <1>2, <2>1, <2>2, StagesStep DEF Stages
<1>6. CASE ConvertText
  <2>1. /\ ParserOK(parser') /\ stream' \in StreamType /\ chunk' = chunk
        /\ pc' \in {"text", "extra"}
    BY <1>1, <1>3, <1>4, <1>6 DEF ConvertText, Goto
  <2>2. proto = "anthropic"
    BY <1>6 DEF ConvertText, StagesOK
  <2> QED
    BY <1>1, <1>2, <2>1, <2>2, StagesStep DEF Stages
<1>7. CASE PassLine
  <2>1. parser' = parser /\ stream' = stream /\ chunk' = chunk /\ pc' = "extra"
    BY <1>7 DEF PassLine, Goto
  <2> QED
    BY <1>1, <1>2, <2>1, StagesStep DEF Stages
<1> QED
  BY <1>5, <1>6, <1>7

LEMMA ExtraKeepsStages ==
  ASSUME StagesOK, SignaturesOK, ConvertExtra
  PROVE  StagesOK'
<1>1. /\ SignaturesTypeOK /\ chunk \in Chunk /\ ParserOK(parser) /\ stream \in StreamType
      /\ read \in 0..MaxLines
  BY Fields
<1>2. /\ pc = "extra" /\ pc' = "calls" /\ chunk' = chunk /\ stream' = stream /\ read' = read
      /\ parser' = [parser EXCEPT !.calls = @ \/ chunk.calls # <<>>]
      /\ request = None /\ read # 0
  BY DEF ConvertExtra, Goto, StagesOK
<1>3. ParserOK(parser')
  <2> DEFINE calls == parser.calls \/ chunk.calls # <<>>
  <2>1. calls \in BOOLEAN /\ parser' = [parser EXCEPT !.calls = calls] /\ parser \in ParserType
    BY <1>1, <1>2 DEF ParserOK, ParserType
  <2> HIDE DEF calls
  <2>2. /\ parser' \in ParserType /\ parser'.number = parser.number /\ parser'.next = parser.next
        /\ parser'.active = parser.active
    BY <2>1 DEF ParserType
  <2>3. parser.active = None \/ \E b \in Blocks : parser.number[b] = parser.active
    BY <1>1 DEF ParserOK
  <2> QED
    BY <1>1, <2>2, <2>3, ParserNotes
<1>4. SignaturesTypeOK' /\ request' = request
  <2>1. CASE UNCHANGED svars
    BY <1>1, <2>1, SameSignatures
  <2>2. CASE NoteExtra
    <3>1. StreamKeeps
      BY <1>2 DEF SignaturesOK
    <3>2. SignaturesTypeOK'
      BY <1>1, <2>2, <3>1, ExtraKeeps
    <3> QED
      BY <2>2, <3>2 DEF NoteExtra
  <2> QED
    BY <2>1, <2>2 DEF ConvertExtra
<1> QED
  BY <1>1, <1>2, <1>3, <1>4, StagesStep DEF Stages

\* The next entry of a chunk, in the Anthropic protocol.
LEMMA EntryIs ==
  ASSUME StagesOK, ConvertEntry
  PROVE  /\ pc = "calls" /\ pc' = "call" /\ proto = "anthropic" /\ proto' = proto
         /\ chunk.calls # <<>> /\ chunk' = chunk
         /\ Head(chunk.calls) \in Entry /\ Head(chunk.calls).index \in Tools
         /\ read' = read /\ sent' = sent /\ strayed' = strayed
         /\ request = None /\ request' = None /\ called' = called /\ pending' = pending /\ read # 0
         /\ CallBlock(Head(chunk.calls).index) \in Blocks
         /\ NoteCall(Head(chunk.calls))
         /\ LET b == CallBlock(Head(chunk.calls).index)
            IN  \/ MustStop(b) /\ parser.active # None /\ StopActive(Numbered(b))
                \/ ~ MustStop(b) /\ parser' = Numbered(b) /\ stream' = stream
<1>1. chunk \in Chunk
  BY Fields
<1>2. chunk.calls # <<>> /\ Head(chunk.calls) \in Entry /\ Head(chunk.calls).index \in Tools
  BY <1>1, ChunkIs DEF ConvertEntry
<1>3. CallBlock(Head(chunk.calls).index) \in Blocks
  BY <1>2, BlocksAre
<1>4. pc = "calls" /\ pc' = "call" /\ chunk' = chunk /\ read' = read /\ sent' = sent
      /\ strayed' = strayed /\ called' = called /\ NoteCall(Head(chunk.calls)) /\ proto = "anthropic"
  BY DEF ConvertEntry, Goto
<1>5. request = None /\ read # 0
  BY <1>4 DEF StagesOK
<1>6. request' = request /\ proto' = proto /\ pending' = pending
  BY <1>4 DEF NoteCall
<1>7. LET b == CallBlock(Head(chunk.calls).index)
      IN  \/ MustStop(b) /\ parser.active # None /\ StopActive(Numbered(b))
          \/ ~ MustStop(b) /\ parser' = Numbered(b) /\ stream' = stream
  BY DEF ConvertEntry, MustStop
<1> QED
  BY <1>2, <1>3, <1>4, <1>5, <1>6, <1>7

LEMMA NoteCallType ==
  ASSUME SignaturesTypeOK, NEW e \in Entry, NoteCall(e), called' \in [Tools -> Ids \cup {None}]
  PROVE  SignaturesTypeOK'
<1>1. PICK id \in Ids \cup {None} : Notes(e.index, id)
  BY NoteCallIs
<1>2. e.index \in Tools
  BY DEF Entry
<1>3. /\ toolId' \in [Tools -> Ids \cup {None}] /\ last' \in Ids \cup {None}
      /\ cache' \in [Ids -> Signatures \cup {None}] /\ owed' \in [Tools -> SUBSET Signatures]
  BY <1>1, <1>2, NotesType
<1>4. proto' = proto /\ pending' = pending
  BY DEF NoteCall
<1> QED
  BY <1>3, <1>4 DEF SignaturesTypeOK

LEMMA EntryKeepsStages ==
  ASSUME StagesOK, ConvertEntry
  PROVE  StagesOK'
<1>1. /\ SignaturesTypeOK /\ chunk \in Chunk /\ ParserOK(parser) /\ stream \in StreamType
      /\ read \in 0..MaxLines
  BY Fields
<1> DEFINE b == CallBlock(Head(chunk.calls).index)
<1>2. /\ pc = "calls" /\ pc' = "call" /\ proto = "anthropic" /\ proto' = proto
      /\ chunk.calls # <<>> /\ chunk' = chunk /\ Head(chunk.calls) \in Entry
      /\ read' = read /\ request' = None /\ called' = called /\ read # 0
      /\ b \in Blocks /\ NoteCall(Head(chunk.calls))
  BY EntryIs
<1>3. \/ MustStop(b) /\ parser.active # None /\ StopActive(Numbered(b))
      \/ ~ MustStop(b) /\ parser' = Numbered(b) /\ stream' = stream
  BY EntryIs
<1>4. SignaturesTypeOK'
  <2>1. called \in [Tools -> Ids \cup {None}]
    BY <1>1 DEF SignaturesTypeOK
  <2> QED
    BY <1>1, <1>2, <2>1, NoteCallType
<1> HIDE DEF b
<1>5. /\ ParserOK(Numbered(b)) /\ Numbered(b).active = parser.active /\ Numbered(b).number[b] \in Blocks
  BY <1>1, <1>2, NumberedIs
<1>6. ParserOK(parser') /\ stream' \in StreamType /\ parser'.number = Numbered(b).number
  BY <1>1, <1>3, <1>5, StopActiveIs
<1>7. parser'.number[b] # None
  BY <1>5, <1>6, NoneIsNo
<1>8. parser'.number[CallBlock(Head(chunk'.calls).index)] # None
  BY <1>2, <1>7 DEF b
<1> QED
  BY <1>1, <1>2, <1>4, <1>6, <1>8, StagesStep DEF Stages

\* The name or the arguments of a call.
LEMMA CallIs ==
  ASSUME StagesOK, StartCall \/ FillCall
  PROVE  LET t == Head(chunk.calls).index
             b == CallBlock(t)
         IN  /\ pc = "call" /\ proto = "anthropic" /\ proto' = proto /\ read' = read /\ read # 0
             /\ request = None /\ request' = None
             /\ cache' = cache /\ toolId' = toolId /\ last' = last /\ pending' = pending /\ owed' = owed
             /\ sent' = sent /\ strayed' = strayed
             /\ chunk \in Chunk /\ chunk.calls # <<>> /\ Head(chunk.calls) = chunk.calls[1]
             /\ Head(chunk.calls) \in Entry
             /\ t \in Tools /\ b \in Blocks /\ parser.number[b] # None /\ parser.number[b] \in Blocks
             /\ Number(b) = parser.number[b]
             /\ \/ parser' = parser
                \/ /\ ParserOK(parser') /\ parser'.active = parser.number[b]
                   /\ parser'.number = parser.number /\ parser'.next = parser.next
                   /\ parser'.started = parser.started /\ parser'.calls = parser.calls
                   /\ parser'.begun = parser.begun
             /\ chunk' \in Chunk
<1> DEFINE t == Head(chunk.calls).index
           b == CallBlock(t)
<1>1. ParserOK(parser) /\ chunk \in Chunk
  BY Fields
<1>2. pc = "call" /\ proto = "anthropic" /\ read # 0 /\ request = None
  BY DEF StartCall, FillCall, StagesOK
<1>3. /\ proto' = proto /\ read' = read /\ request' = request /\ cache' = cache /\ toolId' = toolId
      /\ last' = last /\ pending' = pending /\ owed' = owed /\ sent' = sent /\ strayed' = strayed
  BY DEF StartCall, FillCall, svars
<1>4. /\ chunk.calls # <<>> /\ t \in Tools /\ b \in Blocks /\ parser.number[b] # None
      /\ Head(chunk.calls) \in Entry /\ Head(chunk.calls) = chunk.calls[1]
  BY <1>1, <1>2, CallNumbered, ChunkIs
<1>5. parser' = parser \/ parser' = [parser EXCEPT !.active = Number(b)]
  BY DEF StartCall, FillCall
<1>6. chunk' \in Chunk
  <2>1. CASE StartCall
    BY <1>1, <1>4, <2>1, UnnamedIs DEF StartCall
  <2>2. CASE FillCall
    BY <1>1, <1>4, <2>2, RestIs DEF FillCall
  <2> QED
    BY <2>1, <2>2
<1> HIDE DEF t, b
<1>7. Number(b) = parser.number[b] /\ parser.number[b] \in Blocks
  BY <1>1, <1>4, NumberedIs
<1>8. \/ parser' = parser
      \/ /\ ParserOK(parser') /\ parser'.active = parser.number[b]
         /\ parser'.number = parser.number /\ parser'.next = parser.next
         /\ parser'.started = parser.started /\ parser'.calls = parser.calls
         /\ parser'.begun = parser.begun
  BY <1>1, <1>4, <1>5, ActiveIsBlock
<1> QED
  BY <1>1, <1>2, <1>3, <1>4, <1>6, <1>7, <1>8 DEF t, b

LEMMA CallKeepsStages ==
  ASSUME StagesOK, StartCall \/ FillCall
  PROVE  StagesOK'
<1> DEFINE t == Head(chunk.calls).index
           b == CallBlock(t)
<1>1. /\ SignaturesTypeOK /\ ParserOK(parser) /\ stream \in StreamType /\ read \in 0..MaxLines
  BY Fields
<1>2. /\ pc = "call" /\ proto = "anthropic" /\ proto' = proto /\ read' = read /\ read # 0
      /\ request' = None
      /\ cache' = cache /\ toolId' = toolId /\ last' = last /\ pending' = pending /\ owed' = owed
      /\ chunk \in Chunk /\ chunk.calls # <<>> /\ Head(chunk.calls) = chunk.calls[1]
      /\ t \in Tools /\ b \in Blocks /\ parser.number[b] # None /\ parser.number[b] \in Blocks
      /\ Number(b) = parser.number[b] /\ chunk' \in Chunk
  BY CallIs
<1>3. ParserOK(parser') /\ parser'.number = parser.number
  <2>1. \/ parser' = parser
        \/ ParserOK(parser') /\ parser'.number = parser.number
    BY CallIs
  <2> QED
    BY <1>1, <2>1
<1>4. CASE StartCall
  <2>1. /\ stream' = StartOf(Number(b)) /\ called' = [called EXCEPT ![t] = toolId[t]]
        /\ chunk' = [chunk EXCEPT !.calls[1].name = FALSE] /\ pc' = pc
    BY <1>4 DEF StartCall
  <2>2. SignaturesTypeOK'
    <3>1. called' \in [Tools -> Ids \cup {None}]
      BY <1>1, <1>2, <2>1 DEF SignaturesTypeOK
    <3> QED
      BY <1>1, <1>2, <3>1 DEF SignaturesTypeOK
  <2>3. stream' \in StreamType
    BY <1>1, <1>2, <2>1, StartIs
  <2>4. chunk'.calls # <<>> /\ Head(chunk'.calls) = chunk'.calls[1]
        /\ chunk'.calls[1].index = chunk.calls[1].index
    <3>1. chunk'.calls # <<>> /\ chunk'.calls[1].index = chunk.calls[1].index
      BY <1>2, <2>1, UnnamedIs
    <3> QED
      BY <1>2, <3>1, ChunkIs
  <2>5. parser'.number[CallBlock(Head(chunk'.calls).index)] # None
    BY <1>2, <1>3, <2>4
  <2> QED
    BY <1>1, <1>2, <1>3, <2>1, <2>2, <2>3, <2>4, <2>5, StagesStep DEF Stages
<1>5. CASE FillCall
  <2>1. /\ stream' = DeltaOf(Number(b)) \/ stream' = stream
        /\ pc' = "calls" /\ called' = called
    BY <1>5 DEF FillCall, Goto, svars
  <2>2. SignaturesTypeOK'
    BY <1>1, <1>2, <2>1 DEF SignaturesTypeOK
  <2>3. stream' \in StreamType
    BY <1>1, <1>2, <2>1, DeltaIs
  <2> QED
    BY <1>1, <1>2, <1>3, <2>1, <2>2, <2>3, StagesStep DEF Stages
<1> QED
  BY <1>4, <1>5

LEMMA PassKeepsStages ==
  ASSUME StagesOK, PassEntry
  PROVE  StagesOK'
<1> DEFINE e == Head(chunk.calls)
           b == CallBlock(e.index)
<1>1. /\ SignaturesTypeOK /\ chunk \in Chunk /\ ParserOK(parser) /\ stream \in StreamType
      /\ read \in 0..MaxLines
  BY Fields
<1>2. /\ pc = "calls" /\ pc' = pc /\ proto # "anthropic" /\ chunk.calls # <<>>
      /\ IF proto = "responses" THEN NoteNothing(e) ELSE NoteCall(e)
      /\ parser' = [parser EXCEPT !.started = @ \cup {b}]
      /\ called' = IF called[e.index] = None /\ e.id # "none"
                      /\ (proto = "openai" \/ b \notin parser.started)
                   THEN [called EXCEPT ![e.index] = IdOf(e)] ELSE called
      /\ chunk' = [chunk EXCEPT !.calls = Tail(@)]
      /\ stream' = stream /\ read' = read
  BY DEF PassEntry
<1>3. e \in Entry /\ e.index \in Tools /\ b \in Blocks /\ chunk' \in Chunk
  BY <1>1, <1>2, ChunkIs, BlocksAre, RestIs
<1>4. request' = request /\ proto' = proto /\ read # 0 /\ request = None
  BY <1>2 DEF StagesOK, NoteNothing, NoteCall
<1>5. called' \in [Tools -> Ids \cup {None}]
  <2>1. IdOf(e) \in Ids
    BY <1>3, IdOfEntry
  <2>2. called \in [Tools -> Ids \cup {None}]
    BY <1>1 DEF SignaturesTypeOK
  <2> HIDE DEF e
  <2> QED
    BY <1>2, <1>3, <2>1, <2>2
<1>6. SignaturesTypeOK'
  <2>1. CASE proto = "responses"
    <3>1. /\ owed' = [owed EXCEPT ![e.index] = @ \cup {t \in {e.index} : e.extra /\ e.id # "none"}]
          /\ UNCHANGED <<proto, cache, toolId, last, pending>>
      BY <1>2, <2>1 DEF NoteNothing
    <3>2. owed' \in [Tools -> SUBSET Signatures]
      <4> DEFINE t == e.index
                 brought == {u \in {t} : e.extra /\ e.id # "none"}
      <4>1. t \in Tools /\ brought \in SUBSET Signatures /\ owed \in [Tools -> SUBSET Signatures]
        BY <1>1, <1>3, Names DEF SignaturesTypeOK
      <4>2. owed' = [owed EXCEPT ![t] = @ \cup brought]
        BY <3>1
      <4> HIDE DEF t, brought
      <4> QED
        BY <4>1, <4>2
    <3> QED
      BY <1>1, <1>5, <3>1, <3>2 DEF SignaturesTypeOK
  <2>2. CASE proto # "responses"
    <3> HIDE DEF e
    <3> QED
      BY <1>1, <1>2, <1>3, <1>5, <2>2, NoteCallType
  <2> QED
    BY <2>1, <2>2
<1> HIDE DEF e, b
<1>7. ParserOK(parser')
  <2> DEFINE started == parser.started \cup {b}
  <2>1. parser \in ParserType
    BY <1>1 DEF ParserOK
  <2>2. started \in SUBSET Blocks /\ parser' = [parser EXCEPT !.started = started]
    BY <1>2, <1>3, <2>1 DEF ParserType
  <2> HIDE DEF started
  <2>3. /\ parser' \in ParserType /\ parser'.number = parser.number /\ parser'.next = parser.next
        /\ parser'.active = parser.active
    BY <2>1, <2>2 DEF ParserType
  <2>4. parser.active = None \/ \E c \in Blocks : parser.number[c] = parser.active
    BY <1>1 DEF ParserOK
  <2> QED
    BY <1>1, <2>3, <2>4, ParserNotes
<1> QED
  BY <1>1, <1>2, <1>3, <1>4, <1>6, <1>7, StagesStep DEF Stages

\* The reason to stop, and the end of the message: the active block stops, or it is told.
LEMMA EndIs ==
  ASSUME StagesOK, ConvertFinish \/ FinishMessage
  PROVE  /\ pc \in {"calls", "done"} /\ pc' \in {pc, "read"} /\ UNCHANGED svars
         /\ pc = "calls" => chunk.calls = <<>>
         /\ chunk' \in {chunk, Nothing} /\ read' = read /\ sent' = sent /\ strayed' = strayed
         /\ \/ /\ parser.active # None /\ StopActive(parser) /\ proto = "anthropic"
               /\ pc' = pc /\ chunk' = chunk
            \/ /\ parser' = parser
               /\ stream' \in {stream, [stream EXCEPT !.phase = "stopped"],
                               [stream EXCEPT !.reason = ReasonTold(@, chunk.finish, parser.calls)],
                               [stream EXCEPT !.phase = "concluded",
                                              !.reason = ReasonOf(chunk.finish, parser.calls)]}
               /\ pc' = "read"
<1>1. CASE ConvertFinish
  <2>1. pc = "calls" /\ chunk.calls = <<>> /\ UNCHANGED <<svars, read, sent, strayed>>
    BY <1>1 DEF ConvertFinish
  <2> QED
    BY <1>1, <2>1 DEF ConvertFinish, Goto
<1>2. CASE FinishMessage
  <2>1. pc = "done" /\ UNCHANGED <<svars, chunk, read, sent, strayed>>
    BY <1>2 DEF FinishMessage
  <2>2. CASE parser.active # None /\ proto = "anthropic"
    BY <1>2, <2>1, <2>2 DEF FinishMessage
  <2>3. CASE ~(parser.active # None /\ proto = "anthropic")
    <3>1. stream' = [stream EXCEPT !.phase = "stopped"] /\ pc' = "read" /\ parser' = parser
      BY <1>2, <2>3 DEF FinishMessage, Goto
    <3> QED
      BY <2>1, <3>1
  <2> QED
    BY <2>2, <2>3
<1> QED
  BY <1>1, <1>2

\* The message is concluded, or stopped.
LEMMA PhaseType ==
  ASSUME stream \in StreamType, NEW reason \in {"none", "end_turn", "tool_use", "max_tokens"},
         NEW phase \in {"new", "begun", "concluded", "stopped"}
  PROVE  /\ [stream EXCEPT !.phase = phase, !.reason = reason] \in StreamType
         /\ [stream EXCEPT !.phase = phase, !.reason = reason].phase = phase
         /\ [stream EXCEPT !.phase = phase, !.reason = reason].reason = reason
         /\ [stream EXCEPT !.phase = phase, !.reason = reason].open = stream.open
         /\ [stream EXCEPT !.phase = phase, !.reason = reason].closed = stream.closed
         /\ [stream EXCEPT !.phase = phase, !.reason = reason].parts = stream.parts
         /\ [stream EXCEPT !.phase = phase] \in StreamType
         /\ [stream EXCEPT !.phase = phase].phase = phase
         /\ [stream EXCEPT !.phase = phase].reason = stream.reason
         /\ [stream EXCEPT !.phase = phase].open = stream.open
         /\ [stream EXCEPT !.phase = phase].closed = stream.closed
         /\ [stream EXCEPT !.phase = phase].parts = stream.parts
BY DEF StreamType

LEMMA EndKeepsStages ==
  ASSUME StagesOK, ConvertFinish \/ FinishMessage
  PROVE  StagesOK'
<1>1. /\ SignaturesTypeOK /\ chunk \in Chunk /\ ParserOK(parser) /\ stream \in StreamType
      /\ read \in 0..MaxLines
  BY Fields
<1>2. /\ pc \in {"calls", "done"} /\ pc' \in {pc, "read"} /\ chunk' \in {chunk, Nothing}
      /\ read' = read /\ UNCHANGED svars
  BY EndIs
<1>3. SignaturesTypeOK' /\ request' = request /\ request = None /\ read # 0
  BY <1>1, <1>2, SameSignatures DEF StagesOK
<1>4. chunk' \in Chunk
  BY <1>1, <1>2, NothingIs
<1>5. ParserOK(parser') /\ stream' \in StreamType
  <2>1. CASE parser.active # None /\ StopActive(parser)
    BY <1>1, <2>1, StopActiveIs
  <2>2. CASE /\ parser' = parser
             /\ stream' \in {stream, [stream EXCEPT !.phase = "stopped"],
                             [stream EXCEPT !.reason = ReasonTold(@, chunk.finish, parser.calls)],
                             [stream EXCEPT !.phase = "concluded",
                                            !.reason = ReasonOf(chunk.finish, parser.calls)]}
    <3> DEFINE reason == ReasonOf(chunk.finish, parser.calls)
               told == ReasonTold(stream.reason, chunk.finish, parser.calls)
    <3>1. /\ reason \in {"none", "end_turn", "tool_use", "max_tokens"}
          /\ told \in {"none", "end_turn", "tool_use", "max_tokens"}
      BY <1>1, ReasonIs DEF StreamType
    <3>2. /\ parser' = parser
          /\ stream' \in {stream, [stream EXCEPT !.phase = "stopped"],
                          [stream EXCEPT !.reason = told],
                          [stream EXCEPT !.phase = "concluded", !.reason = reason]}
      BY <2>2
    <3> HIDE DEF reason, told
    <3>5. [stream EXCEPT !.reason = told] \in StreamType
      BY <1>1, <3>1 DEF StreamType
    <3>3. [stream EXCEPT !.phase = "stopped"] \in StreamType
      BY <1>1, PhaseType
    <3>4. [stream EXCEPT !.phase = "concluded", !.reason = reason] \in StreamType
      BY <1>1, <3>1, PhaseType
    <3> QED
      BY <1>1, <3>2, <3>3, <3>4, <3>5
  <2> QED
    BY <2>1, <2>2, EndIs
<1> QED
  BY <1>1, <1>2, <1>3, <1>4, <1>5, StagesStep DEF Stages

LEMMA AskKeepsStages ==
  ASSUME StagesOK, AskAgain
  PROVE  StagesOK'
<1>1. /\ SignaturesTypeOK /\ chunk \in Chunk /\ ParserOK(parser) /\ stream \in StreamType
      /\ read \in 0..MaxLines /\ pc \in Stages
  BY Fields
<1>2. /\ pc \in {"read", "answered"} /\ read' = read /\ pc' = pc /\ chunk' = chunk /\ parser' = parser
      /\ stream' = stream
      /\ UNCHANGED <<proto, cache, toolId, last, pending, called, owed>>
  BY DEF AskAgain, NextRequest
<1>3. SignaturesTypeOK' /\ (read' = 0 => pc' = "read")
  BY <1>1, <1>2 DEF SignaturesTypeOK, StagesOK
<1> QED
  BY <1>1, <1>2, <1>3, StagesStep DEF Stages

LEMMA StagesNext ==
  ASSUME StagesOK, SignaturesOK, [Next]_vars
  PROVE  StagesOK'
<1>1. CASE UNCHANGED vars
  <2>1. /\ SignaturesTypeOK /\ chunk \in Chunk /\ ParserOK(parser) /\ stream \in StreamType
        /\ read \in 0..MaxLines /\ pc \in Stages
    BY Fields
  <2>2. /\ UNCHANGED svars /\ pc' = pc /\ chunk' = chunk /\ parser' = parser /\ stream' = stream
        /\ read' = read
    BY <1>1 DEF vars
  <2>3. SignaturesTypeOK' /\ request' = request /\ proto' = proto
    BY <2>1, <2>2, SameSignatures
  <2> QED
    BY <2>1, <2>2, <2>3, StagesStep DEF StagesOK, TypeOK
<1>2. CASE ReadDone \/ (\E c \in Chunks : ReadChunk(c)) \/ (\E a \in Answers : ReadAnswer(a))
  BY <1>2, ReadKeepsStages
<1>3. CASE Convert
  BY <1>3, TextKeepsStages, ExtraKeepsStages, EntryKeepsStages, CallKeepsStages, PassKeepsStages,
     EndKeepsStages DEF Convert
<1>4. CASE AskAgain
  BY <1>4, AskKeepsStages
<1> QED
  BY <1>1, <1>2, <1>3, <1>4 DEF Next

(***************************************************************************)
(* Signatures are kept by every step.                                      *)
(***************************************************************************)

\* Steps but for the next request.
LEMMA SignaturesStep ==
  ASSUME read' # 0, request' = None,
         IF pc' = "answered" THEN AnswerKeeps' ELSE StreamKeeps' /\ StreamNames',
         pc' = "call" /\ Head(chunk'.calls).name => toolId'[Head(chunk'.calls).index] # None
  PROVE  SignaturesOK'
BY DEF SignaturesOK

\* A step that changes nothing of what is kept.
LEMMA KeptIfSame ==
  ASSUME UNCHANGED <<proto, cache, toolId, last, called, owed>>
  PROVE  /\ AnswerKeeps => AnswerKeeps'
         /\ StreamKeeps => StreamKeeps'
         /\ StreamNames => StreamNames'
<1>1. \A i : Lookup(i)' = Lookup(i)
  BY DEF Lookup
<1>2. Asked' = Asked
  BY DEF Asked
<1>3. AnswerKeeps => AnswerKeeps'
  BY <1>2 DEF AnswerKeeps, Lookup
<1>4. StreamKeeps => StreamKeeps'
  BY DEF StreamKeeps
<1>5. StreamNames => StreamNames'
  BY DEF StreamNames
<1> QED
  BY <1>3, <1>4, <1>5

LEMMA ReadKeepsSignatures ==
  ASSUME StagesOK, SignaturesOK,
         ReadDone \/ (\E c \in Chunks : ReadChunk(c)) \/ (\E a \in Answers : ReadAnswer(a))
  PROVE  SignaturesOK'
<1>1. SignaturesTypeOK /\ read \in 0..MaxLines
  BY Fields
<1>2. /\ pc = "read" /\ read' # 0 /\ request = None
  <2>1. ReadLine
    BY DEF ReadDone, ReadChunk, ReadAnswer
  <2> QED
    BY <1>1, <2>1, LinesAssumption DEF ReadLine
<1>3. StreamKeeps /\ StreamNames
  BY <1>2 DEF SignaturesOK
<1>4. CASE ReadDone \/ (\E c \in Chunks : ReadChunk(c))
  <2>1. UNCHANGED svars /\ pc' \in {"done", "thinking"}
    BY <1>4 DEF ReadDone, ReadChunk, Goto
  <2>2. /\ UNCHANGED <<proto, cache, toolId, last, called, owed>> /\ request' = None
    BY <1>2, <2>1 DEF svars
  <2>3. StreamKeeps' /\ StreamNames'
    BY <1>3, <2>2, KeptIfSame
  <2> QED
    BY <1>2, <2>1, <2>2, <2>3, SignaturesStep
<1>5. ASSUME NEW a \in Answers, ReadAnswer(a)
      PROVE  SignaturesOK'
  <2>1. read = 0 /\ NoteAnswer(a.calls, a.extra) /\ pc' = "answered"
    BY <1>5 DEF ReadAnswer, Goto
  <2>2. /\ a.calls \in Seq(Entry) /\ a.extra \in BOOLEAN
        /\ \A n \in DOMAIN a.calls : a.calls[n].index = n - 1
    <3>1. a \in Answer
      BY ChunksAssumption
    <3> QED
      BY <3>1, ChunksAssumption DEF Answer
  <2>3. cache = [i \in Ids |-> None] /\ called = [t \in Tools |-> None]
      /\ owed = [t \in Tools |-> {}]
    BY <2>1 DEF SignaturesOK
  <2>4. AnswerKeeps'
    BY <1>1, <2>1, <2>2, <2>3, AnswerIs
  <2>5. request' = None
    BY <1>2, <2>1 DEF NoteAnswer
  <2> QED
    BY <1>2, <2>1, <2>4, <2>5, SignaturesStep
<1> QED
  BY <1>4, <1>5

LEMMA ExtraKeepsSignatures ==
  ASSUME StagesOK, SignaturesOK, ConvertExtra
  PROVE  SignaturesOK'
<1>1. SignaturesTypeOK
  BY Fields
<1>2. pc = "extra" /\ pc' = "calls" /\ read' = read /\ read # 0 /\ request = None
  BY DEF ConvertExtra, Goto, StagesOK
<1>3. StreamKeeps /\ StreamNames
  BY <1>2 DEF SignaturesOK
<1>4. CASE UNCHANGED svars
  <2>1. UNCHANGED <<proto, cache, toolId, last, called, owed>> /\ request' = None
    BY <1>2, <1>4 DEF svars
  <2>2. StreamKeeps' /\ StreamNames'
    BY <1>3, <2>1, KeptIfSame
  <2> QED
    BY <1>2, <2>1, <2>2, SignaturesStep
<1>5. CASE NoteExtra
  <2>1. UNCHANGED <<proto, toolId, called>> /\ request' = None
    BY <1>2, <1>5 DEF NoteExtra
  <2>2. StreamKeeps'
    BY <1>1, <1>3, <1>5, ExtraKeeps
  <2>3. StreamNames'
    BY <1>3, <2>1 DEF StreamNames
  <2> QED
    BY <1>2, <2>1, <2>2, <2>3, SignaturesStep
<1> QED
  BY <1>4, <1>5 DEF ConvertExtra

LEMMA EntryKeepsSignatures ==
  ASSUME StagesOK, SignaturesOK, ConvertEntry
  PROVE  SignaturesOK'
<1> DEFINE e == Head(chunk.calls)
           t == e.index
<1>1. SignaturesTypeOK
  BY Fields
<1>2. /\ pc = "calls" /\ pc' = "call" /\ proto = "anthropic" /\ proto' = proto
      /\ chunk' = chunk /\ e \in Entry /\ t \in Tools
      /\ read' = read /\ read # 0 /\ request' = None /\ called' = called
      /\ NoteCall(e)
  BY EntryIs
<1>3. StreamKeeps /\ StreamNames
  BY <1>2 DEF SignaturesOK
<1> HIDE DEF e
<1>4. PICK id \in Ids \cup {None} : Notes(t, id) /\ (proto = "anthropic" /\ e.name => id # None)
  BY <1>1, <1>2, NoteCallIs
<1>5. StreamKeeps'
  BY <1>1, <1>2, <1>3, <1>4, NotesKeep
<1>6. toolId'[t] = id /\ \A u \in Tools : toolId[u] # None \/ u # t => toolId'[u] = toolId[u]
  BY <1>1, <1>2, <1>4, NotesType
<1>7. StreamNames'
  <2>1. ASSUME NEW u \in Tools, called'[u] # None
        PROVE  called'[u] = toolId'[u]
    <3>1. called[u] = toolId[u] /\ toolId[u] # None
      BY <1>2, <1>3, <2>1 DEF StreamNames
    <3> QED
      BY <1>2, <1>6, <3>1
  <2> QED
    BY <1>2, <2>1 DEF StreamNames
<1>8. Head(chunk'.calls).name => toolId'[Head(chunk'.calls).index] # None
  BY <1>2, <1>4, <1>6 DEF e
<1> QED
  BY <1>2, <1>5, <1>7, <1>8, SignaturesStep

LEMMA CallKeepsSignatures ==
  ASSUME StagesOK, SignaturesOK, StartCall \/ FillCall
  PROVE  SignaturesOK'
<1> DEFINE t == Head(chunk.calls).index
<1>1. SignaturesTypeOK
  BY Fields
<1>2. /\ pc = "call" /\ proto = "anthropic" /\ proto' = proto /\ read' = read /\ read # 0
      /\ request' = None /\ cache' = cache /\ toolId' = toolId /\ last' = last /\ owed' = owed
      /\ chunk \in Chunk /\ chunk.calls # <<>> /\ t \in Tools /\ chunk' \in Chunk
  BY CallIs
<1>3. StreamKeeps /\ StreamNames
  BY <1>2 DEF SignaturesOK
<1>4. StreamKeeps'
  BY <1>2, <1>3 DEF StreamKeeps
<1>5. CASE StartCall
  <2>1. /\ called' = [called EXCEPT ![t] = toolId[t]] /\ pc' = pc
        /\ chunk' = [chunk EXCEPT !.calls[1].name = FALSE]
    BY <1>5 DEF StartCall
  <2>2. StreamNames'
    <3>1. called \in [Tools -> Ids \cup {None}]
      BY <1>1 DEF SignaturesTypeOK
    <3> HIDE DEF t
    <3> QED
      BY <1>2, <1>3, <2>1, <3>1 DEF StreamNames
  <2>3. Head(chunk'.calls).name = FALSE
    <3>1. chunk'.calls # <<>> /\ chunk'.calls[1].name = FALSE
      BY <1>2, <2>1, UnnamedIs
    <3> QED
      BY <1>2, <3>1, ChunkIs
  <2> QED
    BY <1>2, <1>4, <2>1, <2>2, <2>3, SignaturesStep
<1>6. CASE FillCall
  <2>1. called' = called /\ pc' = "calls"
    BY <1>6 DEF FillCall, Goto, svars
  <2>2. StreamNames'
    BY <1>2, <1>3, <2>1 DEF StreamNames
  <2> QED
    BY <1>2, <1>4, <2>1, <2>2, SignaturesStep
<1> QED
  BY <1>5, <1>6

LEMMA PassKeepsSignatures ==
  ASSUME StagesOK, SignaturesOK, PassEntry
  PROVE  SignaturesOK'
<1> DEFINE e == Head(chunk.calls)
           t == e.index
           b == CallBlock(t)
<1>1. SignaturesTypeOK /\ chunk \in Chunk
  BY Fields
<1>2. /\ pc = "calls" /\ pc' = pc /\ proto # "anthropic" /\ chunk.calls # <<>> /\ read' = read
      /\ IF proto = "responses" THEN NoteNothing(e) ELSE NoteCall(e)
      /\ called' = IF called[t] = None /\ e.id # "none" /\ (proto = "openai" \/ b \notin parser.started)
                   THEN [called EXCEPT ![t] = IdOf(e)] ELSE called
  BY DEF PassEntry
<1>3. e \in Entry /\ t \in Tools /\ IdOf(e) \in Ids /\ IdOf(e).name = Given(t) /\ IdOf(e) # None
  BY <1>1, <1>2, ChunkIs, IdOfEntry, NoneAssumption
<1>4. StreamKeeps /\ StreamNames /\ read # 0 /\ request = None
  BY <1>2 DEF SignaturesOK, StagesOK
<1>5. called \in [Tools -> Ids \cup {None}] /\ toolId \in [Tools -> Ids \cup {None}]
      /\ proto \in {"anthropic", "openai", "responses"}
  BY <1>1, ProtocolsAssumption DEF SignaturesTypeOK
<1> HIDE DEF b
<1>6. CASE proto = "responses"
  <2>1. /\ UNCHANGED <<proto, cache, toolId, last, pending, request>>
    BY <1>2, <1>6 DEF NoteNothing
  <2>2. StreamKeeps'
    BY <1>4, <1>6, <2>1 DEF StreamKeeps
  <2>3. StreamNames'
    <3> HIDE DEF e
    <3>1. ASSUME NEW u \in Tools, called'[u] # None PROVE called'[u].name = Given(u)
      BY <1>2, <1>3, <1>4, <1>5, <1>6, <3>1 DEF StreamNames
    <3> QED
      BY <1>4, <1>6, <2>1, <3>1 DEF StreamNames
  <2> QED
    BY <1>2, <1>4, <2>1, <2>2, <2>3, SignaturesStep
<1>7. CASE proto = "openai"
  <2>1. NoteCall(e)
    BY <1>2, <1>7
  <2>2. proto' = proto /\ request' = request
    BY <2>1 DEF NoteCall
  <2>3. PICK id \in Ids \cup {None} : Notes(t, id) /\ id = Identified(e)
    <3> HIDE DEF e
    <3>1. \E id \in Ids \cup {None} : Notes(e.index, id) /\ (proto # "anthropic" => id = Identified(e))
      BY <1>1, <1>3, <2>1, NoteCallIs
    <3> QED
      BY <1>2, <3>1
  <2>4. StreamKeeps'
    BY <1>1, <1>3, <1>4, <2>2, <2>3, NotesKeep
  <2>5. toolId'[t] = id /\ \A u \in Tools : toolId[u] # None \/ u # t => toolId'[u] = toolId[u]
    BY <1>1, <1>3, <2>3, NotesType
  <2>6. \A u \in Tools : /\ called[u] = None <=> toolId[u] = None
                         /\ called[u] # None => Prefixed(called[u]) = toolId[u]
    BY <1>4, <1>7 DEF StreamNames
  <2>7. ASSUME NEW u \in Tools
        PROVE  /\ called'[u] = None <=> toolId'[u] = None
               /\ called'[u] # None => Prefixed(called'[u]) = toolId'[u]
    <3>1. CASE u # t
      <4>1. called'[u] = called[u] /\ toolId'[u] = toolId[u]
        <5> HIDE DEF t
        <5> QED
          BY <1>2, <1>5, <2>5, <3>1
      <4> QED
        BY <2>6, <4>1
    <3>2. CASE u = t /\ called[t] # None
      <4>1. called'[t] = called[t] /\ toolId'[t] = toolId[t]
        BY <1>2, <1>3, <2>5, <2>6, <3>2
      <4> QED
        BY <2>6, <3>2, <4>1
    <3>3. CASE u = t /\ called[t] = None /\ e.id # "none"
      <4>1. called'[t] = IdOf(e)
        <5>1. called' = [called EXCEPT ![t] = IdOf(e)]
          BY <1>2, <1>7, <3>3
        <5> HIDE DEF t, e
        <5> QED
          BY <1>3, <1>5, <5>1
      <4>2. toolId[t] = None
        BY <1>3, <2>6, <3>3
      <4>3. toolId'[t] = Prefixed(IdOf(e))
        BY <2>3, <2>5, <3>3, <4>2 DEF Identified
      <4>4. Prefixed(IdOf(e)) # None
        BY <1>3, Spelling, NoneAssumption
      <4> QED
        BY <1>3, <3>3, <4>1, <4>3, <4>4
    <3>4. CASE u = t /\ called[t] = None /\ e.id = "none"
      <4>1. called' = called
        BY <1>2, <3>4
      <4>2. toolId[t] = None
        BY <1>3, <2>6, <3>4
      <4>3. toolId'[t] = None
        BY <2>3, <2>5, <3>4, <4>2 DEF Identified
      <4> QED
        BY <3>4, <4>1, <4>3
    <3> QED
      BY <3>1, <3>2, <3>3, <3>4
  <2>8. StreamNames'
    BY <1>7, <2>2, <2>7 DEF StreamNames
  <2> QED
    BY <1>2, <1>4, <2>2, <2>4, <2>8, SignaturesStep
<1> QED
  BY <1>2, <1>5, <1>6, <1>7

LEMMA SameKeepsSignatures ==
  ASSUME StagesOK, SignaturesOK, ConvertThinking \/ ConvertText \/ PassLine \/ ConvertFinish \/ FinishMessage
  PROVE  SignaturesOK'
<1>1. /\ pc \in {"thinking", "text", "calls", "done"} /\ pc' \in {"thinking", "text", "extra", "calls", "done", "read"}
      /\ UNCHANGED svars /\ read' = read
  <2>1. CASE ConvertThinking \/ ConvertText \/ PassLine
    BY <2>1 DEF ConvertThinking, ConvertText, PassLine, Goto, Fill
  <2>2. CASE ConvertFinish \/ FinishMessage
    BY <2>2, EndIs
  <2> QED
    BY <2>1, <2>2
<1>2. StreamKeeps /\ StreamNames /\ read # 0 /\ request = None
  BY <1>1 DEF SignaturesOK, StagesOK
<1>3. UNCHANGED <<proto, cache, toolId, last, called, owed>> /\ request' = None
  BY <1>1, <1>2 DEF svars
<1>4. StreamKeeps' /\ StreamNames'
  BY <1>2, <1>3, KeptIfSame
<1> QED
  BY <1>1, <1>2, <1>3, <1>4, SignaturesStep

LEMMA SignaturesInitially ==
  ASSUME Init
  PROVE  SignaturesOK
<1>1. /\ proto \in Protocols /\ cache = [i \in Ids |-> None] /\ toolId = [t \in Tools |-> None]
      /\ last = None /\ called = [t \in Tools |-> None] /\ owed = [t \in Tools |-> {}]
      /\ request = None /\ pc = "read"
  BY DEF Init, SignaturesInit
<1>2. StreamKeeps /\ StreamNames
  BY <1>1 DEF StreamKeeps, StreamNames
<1> QED
  BY <1>1, <1>2 DEF SignaturesOK

LEMMA SignaturesNext ==
  ASSUME StagesOK, SignaturesOK, [Next]_vars
  PROVE  SignaturesOK'
<1>1. CASE UNCHANGED vars
  <2>1. /\ UNCHANGED <<proto, cache, toolId, last, called, owed>> /\ request' = request /\ pc' = pc
        /\ chunk' = chunk /\ read' = read
    BY <1>1 DEF vars, svars
  <2>2. (AnswerKeeps => AnswerKeeps') /\ (StreamKeeps => StreamKeeps') /\ (StreamNames => StreamNames')
    BY <2>1, KeptIfSame
  <2>3. Requested => Requested'
    BY <2>1 DEF Requested, Asked, CallSentAs, ResultSentAs, Lookup
  <2> QED
    BY <2>1, <2>2, <2>3 DEF SignaturesOK
<1>2. CASE ReadDone \/ (\E c \in Chunks : ReadChunk(c)) \/ (\E a \in Answers : ReadAnswer(a))
  BY <1>2, ReadKeepsSignatures
<1>3. CASE Convert
  BY <1>3, SameKeepsSignatures, ExtraKeepsSignatures, EntryKeepsSignatures, CallKeepsSignatures,
     PassKeepsSignatures DEF Convert
<1>4. CASE AskAgain
  <2>1. /\ UNCHANGED <<proto, cache, toolId, last, called, owed>> /\ pc' = pc /\ chunk' = chunk
        /\ read' = read /\ pc \in {"read", "answered"}
        /\ request' = [calls   |-> [t \in Asked |-> [id  |-> CallSentAs(called[t]),
                                                    sig |-> Lookup(called[t])]],
                       results |-> {ResultSentAs(called[t]) : t \in Asked}]
    BY <1>4 DEF AskAgain, NextRequest
  <2>2. (AnswerKeeps => AnswerKeeps') /\ (StreamKeeps => StreamKeeps') /\ (StreamNames => StreamNames')
    BY <2>1, KeptIfSame
  <2>3. Requested'
    BY <2>1 DEF Requested, Asked, CallSentAs, ResultSentAs, Lookup
  <2> QED
    BY <2>1, <2>2, <2>3 DEF SignaturesOK
<1> QED
  BY <1>1, <1>2, <1>3, <1>4 DEF Next

(***************************************************************************)
(* The reason to stop is kept by every step.                               *)
(***************************************************************************)

LEMMA ReasonsInit ==
  ASSUME Init
  PROVE  ReasonsOK
<1>1. /\ called = [t \in Tools |-> None] /\ pc = "read" /\ strayed = FALSE
      /\ stream = [phase |-> "new", open |-> {}, closed |-> {},
                   parts |-> [n \in Blocks |-> 0], reason |-> "none"]
  BY DEF Init, SignaturesInit
<1>2. stream.reason = "none"
  BY <1>1
<1> QED
  BY <1>1, <1>2 DEF ReasonsOK, Converting

LEMMA ReadKeepsReasons ==
  ASSUME StagesOK, SignaturesOK, ReasonsOK,
         ReadDone \/ (\E c \in Chunks : ReadChunk(c)) \/ (\E a \in Answers : ReadAnswer(a))
  PROVE  ReasonsOK'
<1>1. ParserOK(parser) /\ stream \in StreamType
  BY Fields
<1>2. parser \in ParserType
  BY <1>1 DEF ParserOK
<1>3. pc = "read"
  BY DEF ReadDone, ReadChunk, ReadAnswer, ReadLine
<1>4. /\ (\E t \in Tools : called[t] # None) => parser.calls
      /\ proto = "anthropic" /\ stream.reason = "end_turn" /\ ~ strayed =>
           (\A t \in Tools : called[t] = None) /\ sent.finished
  BY <1>3 DEF ReasonsOK
<1>5. CASE ReadDone
  <2>1. /\ UNCHANGED <<svars, chunk, parser, stream>> /\ pc' = "done"
        /\ sent' = [sent EXCEPT !.finished = TRUE] /\ strayed' = (strayed \/ stream.phase = "stopped")
    BY <1>5 DEF ReadDone, Goto
  <2>2. called' = called /\ proto' = proto
    BY <2>1 DEF svars
  <2>3. proto = "anthropic" /\ stream.reason = "end_turn" /\ ~ strayed => sent'.finished
    <3>1. ASSUME sent.finished PROVE [sent EXCEPT !.finished = TRUE].finished
      BY <3>1
    <3> QED
      BY <1>4, <2>1, <3>1
  <2> QED
    BY <1>4, <2>1, <2>2, <2>3 DEF ReasonsOK, Converting
<1>6. ASSUME NEW c \in Chunks, ReadChunk(c)
      PROVE  ReasonsOK'
  <2>1. /\ UNCHANGED svars /\ pc' = "thinking" /\ chunk' = c /\ sent' = SentAfter(c)
        /\ strayed' = (strayed \/ ~ GoesOn(c))
        /\ parser' = [parser EXCEPT !.begun = TRUE]
        /\ stream' = [stream EXCEPT !.phase = IF parser.begun THEN @ ELSE "begun"]
    BY <1>6 DEF ReadChunk, Goto
  <2>2. /\ called' = called /\ proto' = proto
        /\ parser'.calls = parser.calls /\ stream'.reason = stream.reason
    BY <1>1, <1>2, <2>1 DEF svars, ParserType, StreamType
  <2>3. sent'.finished = (sent.finished \/ c.finish # "none")
    BY <2>1 DEF SentAfter
  <2>4. GoesOn(c) => ~ sent.finished
    BY DEF GoesOn
  <2> QED
    BY <1>4, <2>1, <2>2, <2>3, <2>4 DEF ReasonsOK
<1>7. ASSUME NEW a \in Answers, ReadAnswer(a)
      PROVE  ReasonsOK'
  <2>1. /\ read = 0 /\ NoteAnswer(a.calls, a.extra) /\ pc' = "answered"
        /\ stream' = [stream EXCEPT !.reason = ReasonTold("none", a.finish, a.calls # <<>>)]
        /\ UNCHANGED <<chunk, parser, sent, strayed>>
    BY <1>7 DEF ReadAnswer, Goto
  <2>2. (\A t \in Tools : called[t] = None) /\ proto' = proto
    BY <2>1 DEF SignaturesOK, NoteAnswer
  <2>3. stream'.reason = ReasonTold("none", a.finish, a.calls # <<>>)
    <3> DEFINE reason == ReasonTold("none", a.finish, a.calls # <<>>)
    <3>1. stream' = [stream EXCEPT !.reason = reason]
      BY <2>1
    <3> HIDE DEF reason
    <3>2. stream'.reason = reason
      BY <1>1, <3>1 DEF StreamType
    <3> QED
      BY <3>2 DEF reason
  <2>4. ASSUME proto = "anthropic", stream'.reason = "end_turn"
        PROVE  \A t \in Tools : called'[t] = None
    <3>1. a.calls = <<>>
      <4>1. ReasonTold("none", a.finish, a.calls # <<>>) = "end_turn"
        BY <2>3, <2>4
      <4>2. "none" = "end_turn" \/ ~ (a.calls # <<>>)
        BY <2>4, <4>1, ReasonIs
      <4> QED
        BY <4>2
    <3>2. {a.calls[n] : n \in DOMAIN a.calls} = {}
      BY <3>1
    <3>3. \A t \in Tools : called'[t] = called[t]
      BY <2>1, <3>2 DEF NoteAnswer
    <3> QED
      BY <2>2, <3>3
  <2> QED
    BY <2>1, <2>2, <2>4 DEF ReasonsOK, Converting
<1> QED
  BY <1>5, <1>6, <1>7

\* The conversion up to the chunk's end.
LEMMA ConvertKeepsReasons ==
  ASSUME StagesOK, ReasonsOK, Convert, ~ ConvertFinish, ~ FinishMessage
  PROVE  /\ ReasonsOK'
         /\ pc \in {"thinking", "text", "extra", "calls", "call"} /\ stream'.reason = stream.reason
<1>1. chunk \in Chunk /\ ParserOK(parser) /\ stream \in StreamType
  BY Fields
<1>2. parser \in ParserType
  BY <1>1 DEF ParserOK
<1>3. /\ pc \in {"thinking", "text", "extra", "calls", "call"}
      /\ pc' \in {"thinking", "text", "extra", "calls", "call"} /\ sent' = sent /\ strayed' = strayed
      /\ proto' = proto
  BY DEF Convert, ConvertThinking, ConvertText, PassLine, ConvertExtra, ConvertEntry, StartCall,
         FillCall, PassEntry, Goto, Fill, svars, NoteExtra, NoteCall, NoteNothing
\* Only the start of a call, or an entry that is passed on, tells the client of a call.
<1>4. /\ (\E t \in Tools : called'[t] # None) =>
           (\E t \in Tools : called[t] # None) \/ (pc \in {"calls", "call"} /\ chunk.calls # <<>>)
      /\ parser.calls => parser'.calls
      /\ stream'.reason = stream.reason /\ chunk'.finish = chunk.finish
      /\ pc' \in {"calls", "call"} /\ chunk'.calls # <<>> =>
           parser'.calls \/ (pc \in {"calls", "call"} /\ chunk.calls # <<>>)
  <2>1. ASSUME NEW b \in {Thinking, Text}, Fill(b)
        PROVE  parser'.calls = parser.calls /\ stream'.reason = stream.reason
    <3>1. b \in Blocks
      BY BlocksAre
    <3>2. /\ ParserOK(Numbered(b)) /\ Numbered(b).active = parser.active /\ Number(b) \in Blocks
          /\ Numbered(b).calls = parser.calls
      BY <1>1, <3>1, NumberedIs
    <3>3. CASE MustStop(b) /\ StopActive(Numbered(b))
      <4>1. parser.active # None
        BY <3>3 DEF MustStop
      <4>2. parser.active \in Blocks
        BY <1>2, <4>1 DEF ParserType
      <4> QED
        BY <1>1, <3>2, <3>3, <4>1, <4>2, StopActiveIs, StopIs
    <3>4. CASE /\ parser' = [Numbered(b) EXCEPT !.started = @ \cup {b}, !.active = Number(b)]
               /\ stream' = StartOf(Number(b))
      BY <1>1, <3>1, <3>2, <3>4, StartBlockIs, StartIs
    <3> QED
      BY <2>1, <3>3, <3>4 DEF Fill
  <2>2. ASSUME NEW b \in {Thinking, Text}, stream' = DeltaOf(Number(b))
        PROVE  stream'.reason = stream.reason
    <3> DEFINE n == Number(b)
    <3>1. n \in Blocks
      BY <1>1, BlocksAre, NumberedIs
    <3>2. stream' = DeltaOf(n)
      BY <2>2
    <3> HIDE DEF n
    <3> QED
      BY <1>1, <3>1, <3>2, DeltaIs
  <2>3. CASE ConvertThinking \/ ConvertText \/ PassLine
    <3>1. called' = called /\ chunk' = chunk /\ pc' \notin {"calls", "call"}
      BY <2>3 DEF ConvertThinking, ConvertText, PassLine, svars, Fill, Goto
    <3>2. parser'.calls = parser.calls /\ stream'.reason = stream.reason
      BY <2>1, <2>2, <2>3 DEF ConvertThinking, ConvertText, PassLine
    <3> QED
      BY <3>1, <3>2
  <2>4. CASE ConvertExtra
    <3>1. called' = called /\ chunk' = chunk /\ stream' = stream
          /\ parser' = [parser EXCEPT !.calls = @ \/ chunk.calls # <<>>]
      BY <2>4 DEF ConvertExtra, NoteExtra, svars
    <3>2. parser'.calls = (parser.calls \/ chunk.calls # <<>>)
      BY <1>2, <3>1 DEF ParserType
    <3> QED
      BY <3>1, <3>2
  <2>5. CASE ConvertEntry
    <3> DEFINE b == CallBlock(Head(chunk.calls).index)
    <3>1. /\ called' = called /\ chunk' = chunk /\ b \in Blocks /\ pc = "calls" /\ chunk.calls # <<>>
          /\ \/ MustStop(b) /\ parser.active # None /\ StopActive(Numbered(b))
             \/ ~ MustStop(b) /\ parser' = Numbered(b) /\ stream' = stream
      BY <2>5, EntryIs
    <3> HIDE DEF b
    <3>2. ParserOK(Numbered(b)) /\ Numbered(b).active = parser.active /\ Numbered(b).calls = parser.calls
      BY <1>1, <3>1, NumberedIs
    <3>3. parser'.calls = parser.calls /\ stream'.reason = stream.reason
      BY <1>1, <3>1, <3>2, StopActiveIs, StopIs
    <3> QED
      BY <3>1, <3>3
  <2>6. CASE StartCall \/ FillCall
    <3> DEFINE t == Head(chunk.calls).index
               b == CallBlock(t)
    <3>1. /\ pc = "call" /\ chunk \in Chunk /\ chunk.calls # <<>> /\ b \in Blocks
          /\ Number(b) = parser.number[b] /\ parser.number[b] \in Blocks
      BY <2>6, CallIs
    <3>2. parser'.calls = parser.calls
      <4>1. parser' = parser \/ parser'.calls = parser.calls
        BY <2>6, CallIs
      <4> QED
        BY <4>1
    <3>3. stream' \in {StartOf(Number(b)), DeltaOf(Number(b)), stream}
      BY <2>6 DEF StartCall, FillCall
    <3>4. stream'.reason = stream.reason
      <4> DEFINE n == Number(b)
      <4>1. n \in Blocks /\ stream' \in {StartOf(n), DeltaOf(n), stream}
        BY <3>1, <3>3
      <4> HIDE DEF n
      <4>2. StartOf(n).reason = stream.reason
        BY <1>1, <4>1, StartIs
      <4>3. DeltaOf(n).reason = stream.reason
        BY <1>1, <4>1, DeltaIs
      <4> QED
        BY <4>1, <4>2, <4>3
    <3>5. chunk'.finish = chunk.finish
      <4>1. CASE StartCall
        BY <3>1, <4>1, UnnamedIs DEF StartCall
      <4>2. CASE FillCall
        BY <3>1, <4>2, RestIs DEF FillCall
      <4> QED
        BY <2>6, <4>1, <4>2
    <3> QED
      BY <3>1, <3>2, <3>4, <3>5
  <2>7. CASE PassEntry
    <3>1. /\ pc = "calls" /\ chunk.calls # <<>> /\ stream' = stream
          /\ chunk' = [chunk EXCEPT !.calls = Tail(@)]
          /\ parser' = [parser EXCEPT !.started = @ \cup {CallBlock(Head(chunk.calls).index)}]
      BY <2>7 DEF PassEntry
    <3>2. chunk'.finish = chunk.finish
      BY <1>1, <3>1, RestIs
    <3>3. parser'.calls = parser.calls
      BY <1>2, <3>1 DEF ParserType
    <3> QED
      BY <3>1, <3>2, <3>3
  <2> QED
    BY <2>3, <2>4, <2>5, <2>6, <2>7 DEF Convert
<1>5. /\ (\E t \in Tools : called[t] # None) => parser.calls
      /\ pc \in {"calls", "call"} /\ chunk.calls # <<>> => parser.calls
      /\ ~ strayed /\ chunk.finish # "none" => sent.finished
      /\ ~(proto = "anthropic" /\ stream.reason = "end_turn" /\ ~ strayed)
  BY <1>3 DEF ReasonsOK, Converting
<1> QED
  BY <1>3, <1>4, <1>5 DEF ReasonsOK, Converting

LEMMA EndKeepsReasons ==
  ASSUME StagesOK, ReasonsOK, ConvertFinish \/ FinishMessage
  PROVE  ReasonsOK'
<1>1. chunk \in Chunk /\ ParserOK(parser) /\ stream \in StreamType
  BY Fields
<1>2. /\ pc \in {"calls", "done"} /\ pc' \in {pc, "read"} /\ UNCHANGED svars
      /\ pc = "calls" => chunk.calls = <<>>
      /\ chunk' \in {chunk, Nothing} /\ sent' = sent /\ strayed' = strayed
  BY EndIs
<1>3. called' = called /\ proto' = proto
  BY <1>2 DEF svars
<1>4. /\ (\E t \in Tools : called[t] # None) => parser.calls
      /\ pc = "calls" /\ ~ strayed /\ chunk.finish # "none" => sent.finished
      /\ proto = "anthropic" /\ stream.reason = "end_turn" /\ ~ strayed =>
           (\A t \in Tools : called[t] = None) /\ sent.finished /\ pc = "done"
  BY <1>2 DEF ReasonsOK, Converting
<1>5. CASE parser.active # None /\ StopActive(parser) /\ pc' = pc /\ chunk' = chunk
  <2>1. parser'.calls = parser.calls /\ stream'.reason = stream.reason
    BY <1>1, <1>5, StopActiveIs, StopIs
  <2> QED
    BY <1>2, <1>3, <1>4, <1>5, <2>1 DEF ReasonsOK, Converting
<1>6. CASE parser' = parser /\ pc' = "read" /\ (proto = "anthropic" => stream'.reason = stream.reason)
  BY <1>2, <1>3, <1>4, <1>6 DEF ReasonsOK, Converting
<1>7. CASE /\ parser' = parser /\ pc' = "read" /\ pc = "calls" /\ chunk.finish # "none"
           /\ stream'.reason = ReasonOf(chunk.finish, parser.calls)
  <2>1. stream'.reason = "end_turn" => ~ parser.calls
    <3> DEFINE finish == chunk.finish
    <3>1. stream'.reason = ReasonOf(finish, parser.calls) /\ "none" \in {"none", "end_turn", "tool_use", "max_tokens"}
      BY <1>7
    <3> HIDE DEF finish
    <3>2. ReasonOf(finish, parser.calls) = "end_turn" => ~ parser.calls
      BY <3>1, ReasonIs, Zenon
    <3> QED
      BY <3>1, <3>2, Zenon
  <2>2. stream'.reason = "end_turn" => \A t \in Tools : called'[t] = None
    BY <1>3, <1>4, <2>1, Zenon
  <2>3. ~ strayed' => sent'.finished
    BY <1>2, <1>4, <1>7
  <2>4. (\E t \in Tools : called'[t] # None) => parser'.calls
    BY <1>3, <1>4, <1>7
  <2> QED
    BY <1>7, <2>2, <2>3, <2>4 DEF ReasonsOK, Converting
<1> DEFINE reason == ReasonOf(chunk.finish, parser.calls)
<1>8. CASE ConvertFinish
  <2>1. CASE chunk.finish = "none" \/ proto # "anthropic"
    <3> DEFINE told == ReasonTold(stream.reason, chunk.finish, parser.calls)
    <3>1. stream' = [stream EXCEPT !.reason = told] /\ pc' = "read" /\ parser' = parser
      BY <1>8, <2>1 DEF ConvertFinish, Goto
    <3>2. proto = "anthropic" => told = stream.reason
      BY <1>1, <2>1, ReasonIs DEF StreamType
    <3> HIDE DEF told
    <3>3. stream'.reason = told
      BY <1>1, <3>1 DEF StreamType
    <3> QED
      BY <1>6, <3>1, <3>2, <3>3
  <2>2. CASE chunk.finish # "none" /\ proto = "anthropic" /\ parser.active # None
    BY <1>5, <1>8, <2>2 DEF ConvertFinish
  <2>3. CASE chunk.finish # "none" /\ proto = "anthropic" /\ parser.active = None
    <3>1. /\ pc = "calls" /\ pc' = "read" /\ parser' = parser
          /\ stream' = [stream EXCEPT !.phase = "concluded", !.reason = reason]
      BY <1>8, <2>3 DEF ConvertFinish, Goto
    <3>2. reason \in {"none", "end_turn", "tool_use", "max_tokens"}
      BY ReasonIs
    <3> HIDE DEF reason
    <3>3. stream'.reason = reason
      BY <1>1, <3>1, <3>2, PhaseType
    <3> QED
      BY <1>7, <2>3, <3>1, <3>3 DEF reason
  <2> QED
    BY <2>1, <2>2, <2>3
<1>9. CASE FinishMessage
  <2>1. CASE parser.active # None /\ proto = "anthropic"
    BY <1>5, <1>9, <2>1 DEF FinishMessage
  <2>2. CASE ~ (parser.active # None /\ proto = "anthropic")
    <3>1. stream' = [stream EXCEPT !.phase = "stopped"] /\ pc' = "read" /\ parser' = parser
      BY <1>9, <2>2 DEF FinishMessage, Goto
    <3>2. stream'.reason = stream.reason
      BY <1>1, <3>1, PhaseType
    <3> QED
      BY <1>6, <3>1, <3>2
  <2> QED
    BY <2>1, <2>2
<1> QED
  BY <1>8, <1>9

LEMMA ReasonsNext ==
  ASSUME StagesOK, SignaturesOK, ReasonsOK, [Next]_vars
  PROVE  ReasonsOK'
<1>1. CASE UNCHANGED vars \/ AskAgain
  <2>1. /\ called' = called /\ pc' = pc /\ chunk' = chunk /\ parser' = parser /\ stream' = stream
        /\ sent' = sent /\ strayed' = strayed /\ proto' = proto
    BY <1>1 DEF vars, svars, AskAgain, NextRequest
  <2> QED
    BY <2>1 DEF ReasonsOK, Converting
<1>2. CASE ReadDone \/ (\E c \in Chunks : ReadChunk(c)) \/ (\E a \in Answers : ReadAnswer(a))
  BY <1>2, ReadKeepsReasons
<1>3. CASE Convert
  BY <1>3, ConvertKeepsReasons, EndKeepsReasons
<1> QED
  BY <1>1, <1>2, <1>3 DEF Next

(***************************************************************************)
(* What the invariant implies.                                             *)
(***************************************************************************)

\* The signature that a call of a stream is sent back with.
LEMMA StreamReturns ==
  ASSUME SignaturesTypeOK, StreamKeeps, StreamNames, NEW t \in Tools, called[t] # None
  PROVE  /\ called[t] \in Ids
         /\ called[t].name \in {Given(t), Generated(t)} /\ called[t].name # Empty
         /\ Lookup(called[t]) \in {None, t, Loose}
         /\ owed[t] # {} /\ proto # "responses" => Lookup(called[t]) \in owed[t]
<1>1. /\ cache \in [Ids -> Signatures \cup {None}] /\ toolId \in [Tools -> Ids \cup {None}]
      /\ called \in [Tools -> Ids \cup {None}] /\ proto \in {"anthropic", "openai", "responses"}
  BY ProtocolsAssumption DEF SignaturesTypeOK
<1> DEFINE i == called[t]
<1>2. i \in Ids
  BY <1>1
<1>3. toolId[t] # None => /\ toolId[t] \in Ids /\ toolId[t].prefixed = TRUE
                          /\ toolId[t].name \in {Given(t), Generated(t)}
  BY OwnIdIs DEF StreamKeeps
<1>4. proto # "responses" => toolId[t] # None /\ Prefixed(i) = toolId[t]
  <2>1. CASE proto = "anthropic"
    <3>1. i = toolId[t]
      BY <2>1 DEF StreamNames
    <3>2. i.prefixed = TRUE
      BY <1>3, <3>1
    <3> QED
      BY <1>2, <3>1, <3>2, TwoSpellings
  <2>2. CASE proto = "openai"
    BY <2>2 DEF StreamNames
  <2> QED
    BY <1>1, <2>1, <2>2
<1>5. i.name \in {Given(t), Generated(t)} /\ i.name # Empty
  <2>1. Given(t) # Empty /\ Generated(t) # Empty
    BY Names
  <2>2. CASE proto # "responses"
    <3>1. i.name = Prefixed(i).name
      BY <1>2, Spelling
    <3>2. Prefixed(i).name \in {Given(t), Generated(t)}
      BY <1>3, <1>4, <2>2
    <3> QED
      BY <2>1, <3>1, <3>2
  <2>3. CASE proto = "responses"
    <3>1. i.name = Given(t)
      BY <2>3 DEF StreamNames
    <3> QED
      BY <2>1, <3>1
  <2> QED
    BY <2>2, <2>3
\* Nothing is kept under an ID that has no prefix, or that another call has.
<1>6. ASSUME NEW j \in Ids, cache[j] # None
      PROVE  \E u \in Tools : /\ toolId[u] = j /\ cache[j] \in {u, Loose} /\ j.prefixed = TRUE
                              /\ j.name \in {Given(u), Generated(u)}
  <2>1. PICK u \in Tools : toolId[u] = j /\ cache[j] \in {u, Loose}
    BY <1>6 DEF StreamKeeps
  <2>2. j \in OwnIds(u)
    BY <2>1, NoneAssumption DEF StreamKeeps
  <2> QED
    BY <2>1, <2>2, OwnIdIs
<1> HIDE DEF i
<1>7. cache[Trimmed(i)] = None
  BY <1>2, <1>6, Spelling
<1>8. Lookup(i) = cache[Prefixed(i)]
  <2>1. LookupIn(cache, i) = cache[Prefixed(i)]
    BY <1>1, <1>2, <1>7, LookupIs
  <2> QED
    BY <2>1 DEF Lookup, LookupIn
<1>9. cache[Prefixed(i)] \in {None, t, Loose}
  <2>1. CASE cache[Prefixed(i)] # None
    <3>1. PICK u \in Tools : /\ cache[Prefixed(i)] \in {u, Loose}
                             /\ Prefixed(i).name \in {Given(u), Generated(u)}
      BY <1>2, <1>6, <2>1, Spelling
    <3>2. i.name \in {Given(u), Generated(u)}
      BY <1>2, <3>1, Spelling
    <3>3. u = t
      BY <1>5, <3>2, Names DEF i
    <3> QED
      BY <3>1, <3>3
  <2> QED
    BY <2>1
<1>10. owed[t] # {} /\ proto # "responses" => cache[Prefixed(i)] \in owed[t]
  <2>1. ASSUME owed[t] # {}, proto # "responses"
        PROVE  cache[Prefixed(i)] \in owed[t]
    <3>1. cache[toolId[t]] \in owed[t]
      BY <2>1 DEF StreamKeeps
    <3> QED
      BY <1>4, <2>1, <3>1
  <2> QED
    BY <2>1
<1> QED
  BY <1>2, <1>5, <1>8, <1>9, <1>10 DEF i

\* The name of the ID a call is known by, and what a lookup finds under that ID.
LEMMA CalledIs ==
  ASSUME StagesOK, SignaturesOK, NEW t \in Asked
  PROVE  /\ t \in Tools /\ called[t] \in Ids /\ called[t].name \in {Given(t), Generated(t), Empty}
         /\ called[t].name # Empty => Lookup(called[t]) \in {None, t, Loose}
         /\ owed[t] # {} /\ proto # "responses" => Lookup(called[t]) \in owed[t]
<1>1. SignaturesTypeOK
  BY Fields
<1>2. t \in Tools /\ called[t] # None /\ called[t] \in Ids
  BY <1>1 DEF Asked, SignaturesTypeOK
<1>3. CASE pc = "answered"
  BY <1>2, <1>3 DEF SignaturesOK, AnswerKeeps
<1>4. CASE pc # "answered"
  <2>1. StreamKeeps /\ StreamNames
    BY <1>4 DEF SignaturesOK
  <2>2. /\ called[t].name \in {Given(t), Generated(t)} /\ called[t].name # Empty
        /\ Lookup(called[t]) \in {None, t, Loose}
        /\ owed[t] # {} /\ proto # "responses" => Lookup(called[t]) \in owed[t]
    BY <1>1, <1>2, <2>1, StreamReturns
  <2> QED
    BY <1>2, <2>2
<1> QED
  BY <1>3, <1>4

LEMMA RequestIs ==
  ASSUME SignaturesOK, request # None
  PROVE  /\ DOMAIN request.calls = Asked
         /\ \A t \in Asked : request.calls[t].id = CallSentAs(called[t])
                             /\ request.calls[t].sig = Lookup(called[t])
         /\ request.results = {ResultSentAs(called[t]) : t \in Asked}
BY DEF SignaturesOK, Requested

LEMMA SafeSignatures ==
  ASSUME StagesOK, SignaturesOK
  PROVE  /\ OwnSignatures /\ ResultsMatch
         /\ proto # "responses" => SignaturesReturned
<1>1. OwnSignatures
  <2>1. ASSUME request # None, NEW t \in Asked
        PROVE  called[t].name # Empty => request.calls[t].sig \in {None, t, Loose}
    BY <2>1, CalledIs, RequestIs
  <2> QED
    BY <2>1 DEF OwnSignatures
<1>2. ASSUME proto # "responses"
      PROVE  SignaturesReturned
  <2>1. ASSUME request # None, NEW t \in Asked, owed[t] # {}
        PROVE  Returned(t)
    BY <1>2, <2>1, CalledIs, RequestIs DEF Returned
  <2> QED
    BY <2>1 DEF SignaturesReturned
<1>3. ResultsMatch
  <2>1. ASSUME request # None
        PROVE  request.results = {request.calls[t].id : t \in DOMAIN request.calls}
    <3>1. \A t \in Asked : request.calls[t].id = ResultSentAs(called[t])
      BY <2>1, RequestIs DEF CallSentAs, ResultSentAs
    <3>2. DOMAIN request.calls = Asked /\ request.results = {ResultSentAs(called[t]) : t \in Asked}
      BY <2>1, RequestIs
    <3> QED
      BY <3>1, <3>2
  <2>2. ASSUME request # None, NEW t \in Asked, NEW u \in Asked,
               called[t].name # Empty, request.calls[t].id = request.calls[u].id
        PROVE  t = u
    <3>1. CallSentAs(called[t]) = CallSentAs(called[u])
      BY <2>2, RequestIs
    <3>2. /\ t \in Tools /\ called[t] \in Ids /\ called[t].name \in {Given(t), Generated(t), Empty}
          /\ u \in Tools /\ called[u] \in Ids /\ called[u].name \in {Given(u), Generated(u), Empty}
      BY CalledIs
    <3>3. Trimmed(called[t]).name = called[t].name /\ Trimmed(called[u]).name = called[u].name
      BY <3>2, Spelling
    <3>4. called[t].name = called[u].name
      BY <3>1, <3>3 DEF CallSentAs
    <3> QED
      BY <2>2, <3>2, <3>4, Names
  <2> QED
    BY <2>1, <2>2 DEF ResultsMatch
<1> QED
  BY <1>1, <1>2, <1>3

LEMMA SafeReasons ==
  ASSUME ReasonsOK
  PROVE  ReasonTellsCalls
BY DEF ReasonsOK, ReasonTellsCalls

Kept == StagesOK /\ SignaturesOK /\ ReasonsOK

\* The parts of the invariant that are about stages, signatures and the reason to stop hold
\* always, whatever the backend does.
THEOREM AlwaysKept == Spec => []Kept
<1>1. Init => Kept
  BY StagesInit, SignaturesInitially, ReasonsInit DEF Kept
<1>2. Kept /\ [Next]_vars => Kept'
  BY StagesNext, SignaturesNext, ReasonsNext DEF Kept
<1> QED
  BY <1>1, <1>2, PTL DEF Spec

\* Every variable has its type, a block's number is not used again, and the block that is
\* active has one (parser.blockIndex, currentIndex).
THEOREM TypeCorrect == Spec => []TypeOK
<1>1. Kept => TypeOK
  BY DEF Kept, StagesOK
<1> QED
  BY <1>1, AlwaysKept, PTL

\* No call is sent back with the signature of another: what is cached under an ID came with
\* the call that has it, or beside the calls (CacheThoughtSignature, GetThoughtSignature).
THEOREM SignaturesStayOwn == Spec => []OwnSignatures
<1>1. Kept => OwnSignatures
  BY SafeSignatures DEF Kept
<1> QED
  BY <1>1, AlwaysKept, PTL

\* In the Anthropic and the OpenAI protocol a call goes back with a signature that came for
\* it when its ID was known, if one did, under whatever spelling the client holds its ID: its
\* own, where nothing was kept for it of what came beside the calls.
\* (Streams of the Responses protocol are converted without a look at signatures.)
THEOREM SignaturesComeBack ==
  ASSUME Protocols \subseteq {"anthropic", "openai"}
  PROVE  Spec => []SignaturesReturned
<1>1. Kept => SignaturesReturned
  <2>1. Kept => proto \in Protocols
    BY Fields DEF Kept, SignaturesTypeOK
  <2>2. Kept /\ proto # "responses" => SignaturesReturned
    BY SafeSignatures DEF Kept
  <2> QED
    BY <2>1, <2>2
<1> QED
  BY <1>1, AlwaysKept, PTL

\* The results of the next request answer the calls of that request, and no two of its
\* calls have the same ID (buildOpenAIMessages trims the IDs of both).
THEOREM ResultsAnswerCalls == Spec => []ResultsMatch
<1>1. Kept => ResultsMatch
  BY SafeSignatures DEF Kept
<1> QED
  BY <1>1, AlwaysKept, PTL

\* An Anthropic client that has been asked to call tools is not told that the turn has ended,
\* by a backend that sends nothing after its reason to stop.
THEOREM ReasonsTellCalls == Spec => []ReasonTellsCalls
<1>1. Kept => ReasonTellsCalls
  BY SafeReasons DEF Kept
<1> QED
  BY <1>1, AlwaysKept, PTL

(***************************************************************************)
(* What is left of a chunk.                                                *)
(***************************************************************************)

LEMMA LeftIs ==
  ASSUME StagesOK
  PROVE  /\ CallsLeft \in Seq(Entry) /\ Len(CallsLeft) \in Nat
         /\ \A n \in 1..Len(CallsLeft) :
              /\ CallsLeft[n].index \in Tools
              /\ CallsLeft[n].name \in BOOLEAN /\ CallsLeft[n].args \in BOOLEAN
         /\ CallsLeft # <<>> => 1 \in 1..Len(CallsLeft) /\ Len(CallsLeft) \in 1..Len(CallsLeft)
<1>1. chunk \in Chunk
  BY Fields
<1>2. CASE Converting
  <2>1. CallsLeft = chunk.calls
    BY <1>2 DEF CallsLeft
  <2> QED
    BY <1>1, <2>1, ChunkIs
<1>3. CASE ~ Converting
  <2>1. CallsLeft = <<>>
    BY <1>3 DEF CallsLeft
  <2> QED
    BY <2>1
<1> QED
  BY <1>2, <1>3

LEMMA BlocksApart ==
  /\ Thinking # Text
  /\ \A t \in Tools : CallBlock(t) # Thinking /\ CallBlock(t) # Text
  /\ \A t, u \in Tools : CallBlock(t) = CallBlock(u) => t = u
BY ToolsAssumption DEF Thinking, Text, CallBlock, Tools

\* The block that comes next in the chunk is numbered, started or stopped before, and nothing
\* of the chunk is used up.
LEMMA RestStays ==
  ASSUME StagesOK, RestOK, NEW b \in Blocks,
         ThinkingLeft' = ThinkingLeft, TextLeft' = TextLeft, CallsLeft' = CallsLeft,
         sent' = sent,
         \A t \in Tools : Told(CallBlock(t))' = Told(CallBlock(t)),
         Counted' = Counted \cup {b}, Latest(b)',
         \A c \in Blocks \ {b} : parser'.number[c] = parser.number[c],
         \/ b = Thinking /\ ThinkingLeft
         \/ b = Text /\ TextLeft /\ ~ ThinkingLeft
         \/ CallsLeft # <<>> /\ b = CallBlock(CallsLeft[1].index) /\ ~ TextLeft /\ ~ ThinkingLeft,
         pc' = "call" => b = CallBlock(Head(chunk'.calls).index)
  PROVE  RestOK'
<1>1. /\ Len(CallsLeft) \in Nat
      /\ \A n \in 1..Len(CallsLeft) : CallsLeft[n].index \in Tools
      /\ CallsLeft # <<>> => 1 \in 1..Len(CallsLeft)
  BY LeftIs
<1>2. \A c \in Blocks \ {b} : Fresh(c) => Fresh(c)'
  BY DEF Fresh
<1>3. Thinking \in Blocks /\ Text \in Blocks /\ \A t \in Tools : CallBlock(t) \in Blocks
  BY BlocksAre
<1>4. ThinkingLeft' => Fresh(Thinking)' \/ Latest(Thinking)'
  OBVIOUS
<1>5. TextLeft' => Fresh(Text)' \/ (Latest(Text)' /\ ~ ThinkingLeft')
  <2>1. CASE b = Thinking /\ ThinkingLeft
    <3>1. TextLeft => Fresh(Text)
      BY <2>1 DEF RestOK, RestGoesOn
    <3> QED
      BY <1>2, <1>3, <2>1, <3>1, BlocksApart
  <2> QED
    BY <2>1
<1>6. ASSUME NEW n \in 1..Len(CallsLeft)
      PROVE  LET c == CallBlock(CallsLeft[n].index)
             IN  IF n = 1 THEN Fresh(c)' \/ (Latest(c)' /\ ~ TextLeft' /\ ~ ThinkingLeft')
                 ELSE \/ CallsLeft[n].index = CallsLeft[n - 1].index
                      \/ Fresh(c)' /\ \A m \in 1..(n - 1) : CallsLeft[m].index # CallsLeft[n].index
  <2> DEFINE t == CallsLeft[n].index
             c == CallBlock(t)
  <2>1. IF n = 1 THEN Fresh(c) \/ (Latest(c) /\ ~ TextLeft /\ ~ ThinkingLeft)
        ELSE \/ CallsLeft[n].index = CallsLeft[n - 1].index
             \/ Fresh(c) /\ \A m \in 1..(n - 1) : CallsLeft[m].index # CallsLeft[n].index
    BY DEF RestOK, RestGoesOn
  <2>2. t \in Tools /\ c \in Blocks /\ c # Thinking /\ c # Text
    BY <1>1, <1>3, BlocksApart
  <2>3. CASE n = 1
    <3>1. CASE b \in {Thinking, Text} /\ (TextLeft \/ ThinkingLeft)
      BY <1>2, <2>1, <2>2, <2>3, <3>1
    <3>2. CASE b = CallBlock(CallsLeft[1].index) /\ ~ TextLeft /\ ~ ThinkingLeft
      BY <2>3, <3>2
    <3> QED
      BY <2>3, <3>1, <3>2
  <2>4. CASE n # 1 /\ CallsLeft[n].index # CallsLeft[n - 1].index
    <3>1. Fresh(c) /\ \A m \in 1..(n - 1) : CallsLeft[m].index # CallsLeft[n].index
      BY <2>1, <2>4
    <3>2. 1 \in 1..(n - 1) /\ 1 \in 1..Len(CallsLeft)
      BY <1>1, <2>4
    <3>3. CallsLeft[1].index # t /\ CallsLeft[1].index \in Tools
      BY <1>1, <3>1, <3>2
    <3>4. c # b
      BY <2>2, <3>3, BlocksApart
    <3>5. Fresh(c)'
      BY <1>2, <2>2, <3>1, <3>4
    <3> QED
      BY <2>4, <3>1, <3>5
  <2>5. CASE n # 1 /\ CallsLeft[n].index = CallsLeft[n - 1].index
    BY <2>5
  <2> QED
    BY <2>3, <2>4, <2>5
<1>7. RestGoesOn'
  BY <1>4, <1>5, <1>6 DEF RestGoesOn
<1>8. RestNames'
  <2>1. \A n \in 1..Len(CallsLeft) : NamedBefore(CallsLeft[n].index, n)' = NamedBefore(CallsLeft[n].index, n)
    BY <1>1 DEF NamedBefore
  <2> QED
    BY <2>1 DEF RestOK, RestNames
<1>9. SentIs'
  <2>1. b \in {c \in {Thinking} : ThinkingLeft} \cup {c \in {Text} : TextLeft}
             \cup {CallBlock(CallsLeft[n].index) : n \in 1..Len(CallsLeft)}
    BY <1>1
  <2>2. sent'.blocks = Counted' \cup {c \in {Thinking} : ThinkingLeft'} \cup {c \in {Text} : TextLeft'}
                       \cup {CallBlock(CallsLeft[n].index) : n \in 1..Len(CallsLeft)}
    BY <2>1 DEF RestOK, SentIs
  <2>3. CallsLeft # <<>> \/ TextLeft \/ ThinkingLeft
    OBVIOUS
  <2>4. IF CallsLeft # <<>> THEN sent.at = CallBlock(CallsLeft[Len(CallsLeft)].index)
        ELSE IF TextLeft THEN sent.at = Text ELSE sent.at = Thinking
    BY <2>3 DEF RestOK, SentIs
  <2>5. sent'.named = {t \in Tools : Told(CallBlock(t))'}
                      \cup {CallsLeft[n].index : n \in {m \in 1..Len(CallsLeft) : CallsLeft[m].name}}
    BY DEF RestOK, SentIs
  <2> QED
    BY <2>2, <2>3, <2>4, <2>5 DEF SentIs
<1> QED
  BY <1>7, <1>8, <1>9 DEF RestOK

\* The same is left, and nothing was numbered.
LEMMA RestSame ==
  ASSUME StagesOK, RestOK,
         ThinkingLeft' = ThinkingLeft, TextLeft' = TextLeft, CallsLeft' = CallsLeft,
         sent'.blocks = sent.blocks, sent'.at = sent.at, sent'.named = sent.named,
         parser'.number = parser.number, parser'.next = parser.next,
         \A t \in Tools : Told(CallBlock(t))' = Told(CallBlock(t)),
         pc' # "call"
  PROVE  RestOK'
<1>1. /\ Len(CallsLeft) \in Nat
      /\ \A n \in 1..Len(CallsLeft) : CallsLeft[n].index \in Tools
  BY LeftIs
<1>2. \A c : Fresh(c)' = Fresh(c) /\ Latest(c)' = Latest(c)
  BY DEF Fresh, Latest
<1>3. RestGoesOn'
  BY <1>2 DEF RestOK, RestGoesOn
<1>4. RestNames'
  <2>1. \A n \in 1..Len(CallsLeft) : NamedBefore(CallsLeft[n].index, n)' = NamedBefore(CallsLeft[n].index, n)
    BY <1>1 DEF NamedBefore
  <2> QED
    BY <2>1 DEF RestOK, RestNames
<1>5. SentIs'
  <2>1. Counted' = Counted
    BY DEF Counted
  <2>2. Latest(sent.at)' = Latest(sent.at)
    BY DEF Latest
  <2> QED
    BY <2>1, <2>2 DEF RestOK, SentIs
<1> QED
  BY <1>3, <1>4, <1>5 DEF RestOK

(***************************************************************************)
(* Numbers and blocks.                                                     *)
(***************************************************************************)

\* What ActiveIs and OpenIs say of numbers: blocks with a number below the next.
LEMMA NumbersBelow ==
  ASSUME StagesOK
  PROVE  /\ parser.next \in Nat
         /\ \A c \in Blocks : parser.number[c] # None => parser.number[c] \in Nat /\ parser.number[c] < parser.next
         /\ \A c, d \in Blocks : parser.number[c] # None /\ parser.number[c] = parser.number[d] => c = d
         /\ parser.active # None => parser.active \in Nat /\ parser.active < parser.next
<1>1. ParserOK(parser) /\ parser \in ParserType
  BY Fields DEF ParserOK
<1>2. parser.next \in Nat
  BY <1>1, ToolsAssumption DEF ParserType
<1>3. \A c \in Blocks : parser.number[c] # None => parser.number[c] \in Nat /\ parser.number[c] < parser.next
  BY <1>1, BlocksFinite DEF ParserOK, ParserType, NumbersIn
<1>4. \A c, d \in Blocks : parser.number[c] # None /\ parser.number[c] = parser.number[d] => c = d
  BY <1>1 DEF ParserOK, NumbersIn
<1>5. parser.active # None => parser.active \in Nat /\ parser.active < parser.next
  <2>1. ASSUME parser.active # None
        PROVE  parser.active \in Nat /\ parser.active < parser.next
    <3>1. PICK c \in Blocks : parser.number[c] = parser.active
      BY <1>1, <2>1 DEF ParserOK
    <3> QED
      BY <1>3, <2>1, <3>1
  <2> QED
    BY <2>1
<1> QED
  BY <1>2, <1>3, <1>4, <1>5

\* A block is given its number, or has it, while nothing of the answer is over: the last
\* block is then this one, and the client has been told of no other.
LEMMA NumberKeeps ==
  ASSUME StagesOK, OpenIs, ActiveIs, ~ Over, NEW b \in Blocks, Fresh(b) \/ Latest(b),
         parser'.number = Numbered(b).number, parser'.next = Numbered(b).next
  PROVE  /\ Latest(b)' /\ Counted' = Counted \cup {b}
         /\ \A c \in Blocks \ {b} : parser'.number[c] = parser.number[c]
         /\ Number(b) = parser'.number[b] /\ Number(b) = parser'.next - 1 /\ Number(b) \in Nat
         /\ parser'.next \in Nat
         /\ \A n \in stream.closed : n < Number(b) /\ n \in Nat
         /\ MustStop(b) => Fresh(b) /\ parser.active # None
         /\ ~ MustStop(b) /\ parser.active # None => Latest(b) /\ Number(b) = parser.active
         /\ Fresh(b) => Number(b) = parser.next
         /\ Latest(b) => Number(b) = parser.number[b]
<1>1. ParserOK(parser) /\ stream \in StreamType
  BY Fields
<1>2. /\ Number(b) = Numbered(b).number[b] /\ Numbered(b).number[b] \in Blocks
      /\ \A c \in Blocks \ {b} : Numbered(b).number[c] = parser.number[c]
      /\ IF parser.number[b] = None
         THEN Numbered(b).number[b] = parser.next /\ Numbered(b).next = parser.next + 1
         ELSE Numbered(b) = parser
  BY <1>1, NumberedIs
<1>3. /\ parser.next \in Nat
      /\ parser.active # None => parser.active \in Nat /\ parser.active < parser.next
      /\ \A c \in Blocks : parser.number[c] # None => parser.number[c] \in Nat /\ parser.number[c] < parser.next
  BY NumbersBelow
<1>4. Number(b) \in Nat /\ Number(b) # None
  BY <1>2, BlocksFinite, NoneIsNo
<1>5. Number(b) = parser'.number[b] /\ Number(b) = parser'.next - 1 /\ parser'.next \in Nat
  <2>1. CASE Fresh(b)
    BY <1>2, <1>3, <2>1 DEF Fresh
  <2>2. CASE Latest(b)
    BY <1>2, <1>3, <2>2 DEF Latest
  <2> QED
    BY <2>1, <2>2
<1>6. Latest(b)'
  BY <1>4, <1>5 DEF Latest
<1>7. \A c \in Blocks \ {b} : parser'.number[c] = parser.number[c]
  BY <1>2
<1>8. Counted' = Counted \cup {b}
  BY <1>4, <1>5, <1>7 DEF Counted
<1>9. Fresh(b) => Number(b) = parser.next
  BY <1>2 DEF Fresh
<1>10. Latest(b) => Number(b) = parser.number[b] /\ Number(b) = parser.next - 1
  BY <1>2 DEF Latest
<1>11. ASSUME NEW n \in stream.closed PROVE n < Number(b) /\ n \in Nat
  <2>1. n \in Nat
    BY <1>1, BlocksFinite DEF StreamType
  <2>2. n < parser.next - 1
    BY <1>3, <2>1 DEF ActiveIs
  <2> QED
    BY <1>3, <1>9, <1>10, <2>1, <2>2
<1>12. parser.active # None => parser.active = parser.next - 1
  BY DEF ActiveIs
<1>13. MustStop(b) => Fresh(b) /\ parser.active # None
  BY <1>10, <1>12 DEF MustStop
<1>14. ~ MustStop(b) /\ parser.active # None => Latest(b) /\ Number(b) = parser.active
  <2>1. ~ MustStop(b) /\ parser.active # None => Number(b) = parser.active
    BY DEF MustStop
  <2>2. parser.next # parser.next - 1
    BY <1>3
  <2> QED
    BY <1>9, <1>12, <2>1, <2>2
<1> QED
  BY <1>4, <1>5, <1>6, <1>7, <1>8, <1>9, <1>10, <1>11, <1>13, <1>14

\* Another block stops first: the client is told of no block that it was not told of before.
LEMMA StopKeeps ==
  ASSUME StagesOK, OpenIs, ActiveIs, ~ Over, NEW b \in Blocks, Fresh(b) \/ Latest(b),
         MustStop(b), StopActive(Numbered(b))
  PROVE  /\ Latest(b)' /\ Counted' = Counted \cup {b}
         /\ \A c \in Blocks \ {b} : parser'.number[c] = parser.number[c]
         /\ \A c \in Blocks : Told(c)' = Told(c)
         /\ OpenIs' /\ ActiveIs'
         /\ stream'.phase = stream.phase /\ parser'.begun = parser.begun
         /\ Client!Next
<1>1. ParserOK(parser) /\ stream \in StreamType
  BY Fields
<1>2. /\ ParserOK(Numbered(b)) /\ Numbered(b).active = parser.active
      /\ Numbered(b).started = parser.started /\ Numbered(b).begun = parser.begun
  BY <1>1, NumberedIs
<1>3. parser.active # None
  BY DEF MustStop
<1>4. /\ stream' = StopOf(parser.active) /\ parser.active \in Blocks
      /\ parser'.active = None /\ parser'.number = Numbered(b).number
      /\ parser'.next = Numbered(b).next /\ parser'.started = Numbered(b).started
      /\ parser'.begun = Numbered(b).begun
  BY <1>1, <1>2, <1>3, StopActiveIs
<1>5. /\ Latest(b)' /\ Counted' = Counted \cup {b}
      /\ \A c \in Blocks \ {b} : parser'.number[c] = parser.number[c]
      /\ Number(b) = parser'.number[b] /\ Number(b) = parser'.next - 1 /\ Number(b) \in Nat
      /\ parser'.next \in Nat
      /\ \A n \in stream.closed : n < Number(b) /\ n \in Nat
      /\ Fresh(b) /\ Number(b) = parser.next
  BY <1>4, NumberKeeps
<1>6. /\ stream'.phase = stream.phase /\ stream'.parts = stream.parts
      /\ stream'.open = stream.open \ {parser.active}
      /\ stream'.closed = stream.closed \cup {parser.active}
  BY <1>1, <1>4, StopIs
<1>7. stream.open = {parser.active}
  BY <1>3 DEF OpenIs
<1>8. parser.active = Number(b) - 1 /\ parser.active \in Nat /\ parser.active < Number(b)
  BY <1>3, <1>5, NumbersBelow DEF ActiveIs
<1>9. stream'.open = {} /\ stream'.open \cup stream'.closed = stream.open \cup stream.closed
  BY <1>6, <1>7
<1>10. Number(b) \notin stream.open \cup stream.closed
  BY <1>5, <1>7, <1>8
<1>11. ASSUME NEW c \in Blocks PROVE Told(c)' = Told(c)
  <2>1. CASE c = b
    BY <1>5, <1>9, <1>10, <2>1 DEF Told, Fresh
  <2>2. CASE c # b
    BY <1>5, <1>9, <2>2 DEF Told
  <2> QED
    BY <2>1, <2>2
<1>12. OpenIs'
  BY <1>4, <1>9 DEF OpenIs
<1>13. ActiveIs'
  <2>1. ASSUME NEW n \in stream'.closed PROVE n < parser'.next /\ n # parser'.next - 1
    BY <1>5, <1>6, <1>8
  <2>2. \A c \in {Thinking, Text} : c \in parser'.started <=> Told(c)'
    BY <1>2, <1>4, <1>11, BlocksAre DEF ActiveIs
  <2> QED
    BY <1>4, <2>1, <2>2 DEF ActiveIs
<1>14. Client!Stop(parser.active)
  BY <1>6, <1>7 DEF Client!Stop
<1>15. Client!Next
  BY <1>4, <1>14 DEF Client!Next
<1> QED
  BY <1>2, <1>4, <1>5, <1>6, <1>11, <1>12, <1>13, <1>15

\* A block starts that the client has not been told of, when no other is active.
LEMMA StartKeeps ==
  ASSUME StagesOK, OpenIs, ActiveIs, ~ Over, stream.phase = "begun",
         NEW b \in Blocks, Fresh(b) \/ Latest(b), ~ MustStop(b), ~ Told(b),
         parser'.number = Numbered(b).number, parser'.next = Numbered(b).next,
         parser'.active = Number(b),
         \A c \in {Thinking, Text} : c \in parser'.started <=> c \in parser.started \/ c = b,
         stream' = StartOf(Number(b))
  PROVE  /\ Latest(b)' /\ Counted' = Counted \cup {b}
         /\ \A c \in Blocks \ {b} : parser'.number[c] = parser.number[c]
         /\ Told(b)' /\ \A c \in Blocks \ {b} : Told(c)' = Told(c)
         /\ OpenIs' /\ ActiveIs'
         /\ stream'.phase = stream.phase
         /\ Client!Next
<1>1. ParserOK(parser) /\ stream \in StreamType
  BY Fields
<1>2. Number(b) \in Blocks
  BY <1>1, NumberedIs
<1>3. /\ Latest(b)' /\ Counted' = Counted \cup {b}
      /\ \A c \in Blocks \ {b} : parser'.number[c] = parser.number[c]
      /\ Number(b) = parser'.number[b] /\ Number(b) = parser'.next - 1 /\ Number(b) \in Nat
      /\ parser'.next \in Nat
      /\ \A n \in stream.closed : n < Number(b) /\ n \in Nat
      /\ parser.active # None => Latest(b) /\ Number(b) = parser.active
      /\ Latest(b) => Number(b) = parser.number[b]
      /\ Fresh(b) => Number(b) = parser.next
  BY NumberKeeps
<1>4. parser.active = None
  <2>1. ASSUME parser.active # None PROVE FALSE
    <3>1. parser.number[b] = parser.active
      BY <1>3, <2>1
    <3> QED
      BY <2>1, <3>1 DEF OpenIs, Told
  <2> QED
    BY <2>1
<1>5. stream.open = {}
  BY <1>4 DEF OpenIs
<1> DEFINE n == Number(b)
<1> HIDE DEF n
<1>6. /\ stream'.phase = stream.phase /\ stream'.parts = stream.parts
      /\ stream'.open = {n} /\ stream'.closed = stream.closed
  <2>1. n \in Blocks /\ stream' = StartOf(n)
    BY <1>2 DEF n
  <2> QED
    BY <1>1, <1>5, <2>1, StartIs
<1>7. Told(b)'
  <2>1. n # None
    BY <1>3, NoneIsNo DEF n
  <2> QED
    BY <1>3, <1>6, <2>1 DEF Told, n
<1>8. ASSUME NEW c \in Blocks \ {b} PROVE Told(c)' = Told(c)
  <2>1. parser'.number[c] = parser.number[c]
    BY <1>3
  <2>2. parser.number[c] # None => parser.number[c] # n
    <3>1. CASE Fresh(b)
      <4>1. n = parser.next /\ parser.next \in Nat
        BY <1>3, <3>1, NumbersBelow DEF n
      <4>2. parser.number[c] # None => parser.number[c] \in Nat /\ parser.number[c] < parser.next
        BY NumbersBelow
      <4> QED
        BY <4>1, <4>2
    <3>2. CASE Latest(b)
      <4>1. n = parser.number[b] /\ parser.number[b] # None
        BY <1>3, <3>2 DEF n, Latest
      <4> QED
        BY <4>1, NumbersBelow
    <3> QED
      BY <3>1, <3>2
  <2> QED
    BY <1>5, <1>6, <2>1, <2>2 DEF Told
<1>9. OpenIs'
  <2>1. n # None
    BY <1>3, NoneIsNo DEF n
  <2> QED
    BY <1>6, <2>1 DEF OpenIs, n
<1>10. ActiveIs'
  <2>1. ASSUME NEW m \in stream'.closed PROVE m < parser'.next /\ m # parser'.next - 1
    BY <1>3, <1>6
  <2>2. ASSUME NEW c \in {Thinking, Text} PROVE c \in parser'.started <=> Told(c)'
    <3>1. c \in Blocks
      BY BlocksAre
    <3>2. CASE c = b
      BY <1>7, <3>2
    <3>3. CASE c # b
      BY <1>8, <3>1, <3>3 DEF ActiveIs
    <3> QED
      BY <3>2, <3>3
  <2> QED
    BY <1>3, <2>1, <2>2 DEF ActiveIs
<1>11. Client!Start(n)
  <2>1. \A m \in stream.closed : m < n
    BY <1>3 DEF n
  <2> QED
    BY <1>5, <1>6, <2>1 DEF Client!Start
<1>12. Client!Next
  BY <1>2, <1>11 DEF Client!Next, n
<1> QED
  BY <1>3, <1>6, <1>7, <1>8, <1>9, <1>10, <1>12

\* A part of the latest block, which the client has been told of: the block is open.
LEMMA DeltaKeeps ==
  ASSUME StagesOK, OpenIs, ActiveIs, ~ Over, NEW b \in Blocks, Latest(b), Told(b),
         parser'.number = parser.number, parser'.next = parser.next,
         parser'.active \in {parser.active, Number(b)}, parser'.started = parser.started,
         stream' = DeltaOf(Number(b))
  PROVE  /\ \A c \in Blocks : Told(c)' = Told(c)
         /\ OpenIs' /\ ActiveIs' /\ parser'.active = parser.active
         /\ stream'.phase = stream.phase
         /\ Client!Next
<1>1. ParserOK(parser) /\ stream \in StreamType
  BY Fields
<1> DEFINE n == Number(b)
<1>2. n = parser.number[b] /\ n \in Blocks /\ n = parser.next - 1
  BY <1>1, NumberedIs DEF Latest
<1>3. n \in stream.open
  BY <1>2 DEF Told, ActiveIs
<1>4. stream.open = {parser.active} /\ parser.active = n
  BY <1>3 DEF OpenIs
<1>5. stream' = DeltaOf(n)
  OBVIOUS
<1> HIDE DEF n
<1>6. /\ stream'.phase = stream.phase /\ stream'.parts = [stream.parts EXCEPT ![n] = @ + 1]
      /\ stream'.open = stream.open /\ stream'.closed = stream.closed
  BY <1>1, <1>2, <1>5, DeltaIs
<1>7. parser'.active = parser.active
  BY <1>4 DEF n
<1>8. \A c \in Blocks : Told(c)' = Told(c)
  BY <1>6 DEF Told
<1>9. OpenIs'
  BY <1>6, <1>7 DEF OpenIs
<1>10. ActiveIs'
  <2>1. \A c \in {Thinking, Text} : c \in parser'.started <=> Told(c)'
    BY <1>8, BlocksAre DEF ActiveIs
  <2>2. \A m \in stream'.closed : m < parser'.next /\ m # parser'.next - 1
    BY <1>6 DEF ActiveIs
  <2> QED
    BY <1>7, <2>1, <2>2 DEF ActiveIs
<1>11. Client!Delta(n)
  BY <1>3, <1>6 DEF Client!Delta
<1>12. Client!Next
  BY <1>2, <1>11 DEF Client!Next
<1> QED
  BY <1>6, <1>7, <1>8, <1>9, <1>10, <1>12

(***************************************************************************)
(* The blocks are kept in order by every step that does not stray.         *)
(***************************************************************************)

\* The client sees nothing, or an event that it may see.
ClientSees == Client!Next \/ UNCHANGED <<stream.phase, stream.open, stream.closed, stream.parts>>

TidyNow ==
  /\ PhaseIs
  /\ OpenIs
  /\ proto # "anthropic" => parser.active = None
  /\ proto = "anthropic" => ActiveIs /\ RestOK

LEMMA PhaseKeeps ==
  ASSUME PhaseIs, stream'.phase = stream.phase, parser'.begun = parser.begun,
         sent'.finished = sent.finished, Converting' => Converting, pc' = "done" => pc = "done"
  PROVE  PhaseIs'
BY DEF PhaseIs

\* The part of the thinking or of the text has been passed on.
LEMMA RestUsed ==
  ASSUME StagesOK, RestOK, NEW b \in Blocks, Latest(b),
         \/ b = Thinking /\ ThinkingLeft
         \/ b = Text /\ TextLeft /\ ~ ThinkingLeft,
         ~ ThinkingLeft', TextLeft' <=> TextLeft /\ b = Thinking, CallsLeft' = CallsLeft,
         sent' = sent, parser'.number = parser.number, parser'.next = parser.next,
         \A t \in Tools : Told(CallBlock(t))' = Told(CallBlock(t)),
         pc' # "call"
  PROVE  RestOK'
<1>1. /\ Len(CallsLeft) \in Nat
      /\ \A n \in 1..Len(CallsLeft) : CallsLeft[n].index \in Tools
  BY LeftIs
<1>2. \A c : Fresh(c)' = Fresh(c) /\ Latest(c)' = Latest(c)
  BY DEF Fresh, Latest
<1>3. RestGoesOn'
  <2>1. TextLeft' => Fresh(Text)
    BY BlocksApart DEF RestOK, RestGoesOn
  <2>2. ASSUME NEW n \in 1..Len(CallsLeft)
        PROVE  LET c == CallBlock(CallsLeft[n].index)
               IN  IF n = 1 THEN Fresh(c)
                   ELSE \/ CallsLeft[n].index = CallsLeft[n - 1].index
                        \/ Fresh(c) /\ \A m \in 1..(n - 1) : CallsLeft[m].index # CallsLeft[n].index
    BY DEF RestOK, RestGoesOn
  <2> QED
    BY <1>2, <2>1, <2>2 DEF RestGoesOn
<1>4. RestNames'
  <2>1. \A n \in 1..Len(CallsLeft) : NamedBefore(CallsLeft[n].index, n)' = NamedBefore(CallsLeft[n].index, n)
    BY <1>1 DEF NamedBefore
  <2> QED
    BY <2>1 DEF RestOK, RestNames
<1>5. SentIs'
  <2>1. Counted' = Counted /\ b \in Counted
    BY DEF Counted, Latest
  <2>2. sent.blocks = Counted \cup {c \in {Text} : TextLeft'} \cup {CallBlock(CallsLeft[n].index) : n \in 1..Len(CallsLeft)}
    BY <2>1 DEF RestOK, SentIs
  <2>3. parser.next # 0
    BY NumbersBelow DEF Latest
  <2>4. IF CallsLeft # <<>> THEN sent.at = CallBlock(CallsLeft[Len(CallsLeft)].index)
        ELSE IF TextLeft' THEN sent.at = Text ELSE sent.at = b
    BY BlocksApart DEF RestOK, SentIs
  <2>5. Latest(b)'
    BY <1>2
  <2>6. sent.named = {t \in Tools : Told(CallBlock(t))}
                     \cup {CallsLeft[n].index : n \in {m \in 1..Len(CallsLeft) : CallsLeft[m].name}}
    BY DEF RestOK, SentIs
  <2>7. sent.at = b => Latest(sent.at)'
    BY <2>5 DEF Latest
  <2> QED
    BY <2>1, <2>2, <2>3, <2>4, <2>6, <2>7 DEF SentIs
<1> QED
  BY <1>3, <1>4, <1>5 DEF RestOK

\* A part of the thinking or of the text, for a block that has to stop another or to start.
LEMMA FillKeeps ==
  ASSUME StagesOK, TidyNow, proto = "anthropic", ~ Over, NEW b \in {Thinking, Text}, Fill(b),
         UNCHANGED <<svars, read, sent, strayed>>, Converting,
         \/ b = Thinking /\ ThinkingLeft
         \/ b = Text /\ TextLeft /\ ~ ThinkingLeft
  PROVE  TidyNow' /\ ClientSees
<1>1. ParserOK(parser) /\ b \in Blocks
  BY Fields, BlocksAre
<1>2. PhaseIs /\ OpenIs /\ ActiveIs /\ RestOK /\ stream.phase = "begun" /\ proto' = proto
  BY DEF TidyNow, PhaseIs, svars
<1>3. Fresh(b) \/ Latest(b)
  BY <1>2 DEF RestOK, RestGoesOn
<1>4. pc' = pc /\ chunk' = chunk
  BY DEF Fill
<1>5. /\ ThinkingLeft' = ThinkingLeft /\ TextLeft' = TextLeft /\ CallsLeft' = CallsLeft
      /\ Converting' = Converting
  BY <1>4 DEF ThinkingLeft, TextLeft, CallsLeft, Converting
<1>6. pc' # "call"
  BY <1>4 DEF ThinkingLeft, TextLeft
<1>7. \A t \in Tools : CallBlock(t) \in Blocks \ {b}
  BY BlocksAre, BlocksApart
<1>8. CASE MustStop(b) /\ StopActive(Numbered(b))
  <2>1. /\ Latest(b)' /\ Counted' = Counted \cup {b}
        /\ \A c \in Blocks \ {b} : parser'.number[c] = parser.number[c]
        /\ \A c \in Blocks : Told(c)' = Told(c)
        /\ OpenIs' /\ ActiveIs'
        /\ stream'.phase = stream.phase /\ parser'.begun = parser.begun
        /\ Client!Next
    BY <1>1, <1>2, <1>3, <1>8, StopKeeps
  <2>2. RestOK'
    BY <1>1, <1>2, <1>5, <1>6, <1>7, <2>1, RestStays
  <2>3. PhaseIs'
    BY <1>2, <1>4, <1>5, <2>1, PhaseKeeps
  <2> QED
    BY <1>2, <2>1, <2>2, <2>3 DEF TidyNow, ClientSees
<1>9. CASE /\ ~ MustStop(b) /\ b \notin parser.started
           /\ parser' = [Numbered(b) EXCEPT !.started = @ \cup {b}, !.active = Number(b)]
           /\ stream' = StartOf(Number(b))
  <2>1. /\ parser'.active = Number(b) /\ parser'.number = Numbered(b).number
        /\ parser'.next = Numbered(b).next /\ parser'.started = parser.started \cup {b}
        /\ parser'.begun = parser.begun
    BY <1>1, <1>9, StartBlockIs
  <2>2. ~ Told(b)
    BY <1>2, <1>9 DEF ActiveIs
  <2>3. \A c \in {Thinking, Text} : c \in parser'.started <=> c \in parser.started \/ c = b
    BY <2>1
  <2>4. /\ Latest(b)' /\ Counted' = Counted \cup {b}
        /\ \A c \in Blocks \ {b} : parser'.number[c] = parser.number[c]
        /\ Told(b)' /\ \A c \in Blocks \ {b} : Told(c)' = Told(c)
        /\ OpenIs' /\ ActiveIs'
        /\ stream'.phase = stream.phase
        /\ Client!Next
    BY <1>1, <1>2, <1>3, <1>9, <2>1, <2>2, <2>3, StartKeeps
  <2>5. RestOK'
    BY <1>1, <1>2, <1>5, <1>6, <1>7, <2>4, RestStays
  <2>6. PhaseIs'
    BY <1>2, <1>4, <1>5, <2>1, <2>4, PhaseKeeps
  <2> QED
    BY <1>2, <2>4, <2>5, <2>6 DEF TidyNow, ClientSees
<1> QED
  BY <1>8, <1>9 DEF Fill

\* The part itself: the block is open.
LEMMA PartKeeps ==
  ASSUME StagesOK, TidyNow, proto = "anthropic", ~ Over, NEW b \in {Thinking, Text},
         b \in parser.started, stream' = DeltaOf(Number(b)), parser' = parser, chunk' = chunk,
         UNCHANGED <<svars, read, sent, strayed>>, Converting, Converting', pc' # "call",
         \/ b = Thinking /\ ThinkingLeft
         \/ b = Text /\ TextLeft /\ ~ ThinkingLeft,
         ~ ThinkingLeft', TextLeft' <=> TextLeft /\ b = Thinking
  PROVE  TidyNow' /\ ClientSees
<1>1. b \in Blocks /\ \A t \in Tools : CallBlock(t) \in Blocks
  BY BlocksAre
<1>2. PhaseIs /\ OpenIs /\ ActiveIs /\ RestOK /\ proto' = proto
  BY DEF TidyNow, svars
<1>3. Told(b)
  BY <1>2 DEF ActiveIs
<1>4. Latest(b)
  BY <1>2, <1>3 DEF RestOK, RestGoesOn, Fresh, Told
<1>5. /\ \A c \in Blocks : Told(c)' = Told(c)
      /\ OpenIs' /\ ActiveIs' /\ stream'.phase = stream.phase /\ Client!Next
  BY <1>1, <1>2, <1>3, <1>4, DeltaKeeps
<1>6. CallsLeft' = CallsLeft
  BY DEF CallsLeft
<1>7. RestOK'
  BY <1>1, <1>2, <1>4, <1>5, <1>6, RestUsed
<1>8. pc' # "done"
  BY DEF Converting
<1>9. PhaseIs'
  BY <1>2, <1>5, <1>8, PhaseKeeps
<1> QED
  BY <1>2, <1>5, <1>7, <1>9 DEF TidyNow, ClientSees

\* The client sees nothing and the blocks stay as they are.
LEMMA QuietKeeps ==
  ASSUME StagesOK, TidyNow, proto' = proto,
         stream'.phase = stream.phase, stream'.open = stream.open, stream'.closed = stream.closed,
         stream'.parts = stream.parts,
         parser'.number = parser.number, parser'.next = parser.next,
         parser'.active = parser.active, parser'.begun = parser.begun,
         proto = "anthropic" => parser'.started = parser.started,
         sent' = sent, pc' # "call", pc' = "done" => pc = "done", Converting' => Converting,
         proto = "anthropic" =>
           /\ ThinkingLeft' = ThinkingLeft /\ TextLeft' = TextLeft /\ CallsLeft' = CallsLeft
           /\ Over => Over'
  PROVE  TidyNow' /\ ClientSees
<1>1. PhaseIs /\ OpenIs
  BY DEF TidyNow
<1>2. PhaseIs'
  BY <1>1, PhaseKeeps
<1>3. OpenIs'
  BY <1>1 DEF OpenIs
<1>4. \A c : Told(c)' = Told(c)
  BY DEF Told
<1>5. ASSUME proto = "anthropic"
      PROVE  ActiveIs' /\ RestOK'
  <2>1. ActiveIs /\ RestOK
    BY <1>5 DEF TidyNow
  <2>2. ActiveIs'
    BY <1>4, <1>5, <2>1 DEF ActiveIs
  <2>3. RestOK'
    BY <1>4, <1>5, <2>1, RestSame
  <2> QED
    BY <2>2, <2>3
<1> QED
  BY <1>2, <1>3, <1>5 DEF TidyNow, ClientSees

LEMMA TextKeepsTidy ==
  ASSUME StagesOK, TidyNow, ConvertThinking \/ ConvertText
  PROVE  TidyNow' /\ ClientSees
<1>1. /\ pc \in {"thinking", "text"} /\ proto = "anthropic" /\ ~ Over /\ Converting
      /\ UNCHANGED <<svars, read, sent, strayed>>
  BY DEF ConvertThinking, ConvertText, Over, Converting, StagesOK
<1>2. ASSUME pc' \in {"text", "extra"}, chunk' = chunk, parser' = parser, stream' = stream,
             ThinkingLeft' = ThinkingLeft, TextLeft' = TextLeft
      PROVE  TidyNow' /\ ClientSees
  <2>1. Converting' /\ CallsLeft' = CallsLeft /\ proto' = proto
    BY <1>1, <1>2 DEF Converting, CallsLeft, svars
  <2>2. pc' # "call" /\ pc' # "done" /\ ~ Over /\ sent' = sent
    BY <1>1, <1>2
  <2>3. stream'.phase = stream.phase /\ stream'.open = stream.open /\ stream'.closed = stream.closed
        /\ stream'.parts = stream.parts
    BY <1>2
  <2>4. /\ parser'.number = parser.number /\ parser'.next = parser.next
        /\ parser'.active = parser.active /\ parser'.begun = parser.begun
        /\ parser'.started = parser.started
    BY <1>2
  <2> QED
    BY <1>1, <1>2, <2>1, <2>2, <2>3, <2>4, QuietKeeps
<1>3. CASE ConvertThinking
  <2>1. pc = "thinking"
    BY <1>3 DEF ConvertThinking
  <2>2. CASE chunk.thinking
    <3>1. ThinkingLeft
      BY <2>1, <2>2 DEF ThinkingLeft
    <3>2. CASE Fill(Thinking)
      BY <1>1, <3>1, <3>2, FillKeeps
    <3>3. CASE /\ Thinking \in parser.started
               /\ stream' = DeltaOf(Number(Thinking))
               /\ Goto("text") /\ UNCHANGED <<chunk, parser>>
      <4>1. ~ ThinkingLeft' /\ TextLeft' = TextLeft /\ Converting' /\ pc' = "text"
        BY <2>1, <3>3 DEF ThinkingLeft, TextLeft, Converting, Goto
      <4> QED
        BY <1>1, <3>1, <3>3, <4>1, PartKeeps
    <3> QED
      BY <1>3, <2>2, <3>2, <3>3 DEF ConvertThinking
  <2>3. CASE ~ chunk.thinking
    <3>1. pc' = "text" /\ chunk' = chunk /\ parser' = parser /\ stream' = stream
      BY <1>3, <2>3 DEF ConvertThinking, Goto
    <3>2. ThinkingLeft' = ThinkingLeft /\ TextLeft' = TextLeft
      BY <2>1, <2>3, <3>1 DEF ThinkingLeft, TextLeft
    <3> QED
      BY <1>2, <3>1, <3>2
  <2> QED
    BY <2>2, <2>3
<1>4. CASE ConvertText
  <2>1. pc = "text" /\ ~ ThinkingLeft
    BY <1>4 DEF ConvertText, ThinkingLeft
  <2>2. CASE chunk.text
    <3>1. TextLeft
      BY <2>1, <2>2 DEF TextLeft
    <3>2. CASE Fill(Text)
      BY <1>1, <2>1, <3>1, <3>2, FillKeeps
    <3>3. CASE /\ Text \in parser.started
               /\ stream' = DeltaOf(Number(Text))
               /\ Goto("extra") /\ UNCHANGED <<chunk, parser>>
      <4>1. ~ ThinkingLeft' /\ ~ TextLeft' /\ Converting' /\ pc' = "extra"
        BY <2>1, <3>3 DEF ThinkingLeft, TextLeft, Converting, Goto
      <4> QED
        BY <1>1, <2>1, <3>1, <3>3, <4>1, BlocksApart, PartKeeps
    <3> QED
      BY <1>4, <2>2, <3>2, <3>3 DEF ConvertText
  <2>3. CASE ~ chunk.text
    <3>1. pc' = "extra" /\ chunk' = chunk /\ parser' = parser /\ stream' = stream
      BY <1>4, <2>3 DEF ConvertText, Goto
    <3>2. ThinkingLeft' = ThinkingLeft /\ TextLeft' = TextLeft
      BY <2>1, <2>3, <3>1 DEF ThinkingLeft, TextLeft
    <3> QED
      BY <1>2, <3>1, <3>2
  <2> QED
    BY <2>2, <2>3
<1> QED
  BY <1>3, <1>4

LEMMA PassKeepsTidy ==
  ASSUME StagesOK, TidyNow, PassLine \/ ConvertExtra \/ PassEntry
  PROVE  TidyNow' /\ ClientSees
<1>1. ParserOK(parser) /\ parser \in ParserType
  BY Fields DEF ParserOK
<1>2. /\ pc \in {"thinking", "extra", "calls"} /\ pc' \in {"extra", "calls"} /\ stream' = stream
      /\ sent' = sent
  BY DEF PassLine, ConvertExtra, PassEntry, Goto
<1>3. proto' = proto
  BY DEF PassLine, ConvertExtra, PassEntry, svars, NoteExtra, NoteNothing, NoteCall
<1>4. /\ parser'.number = parser.number /\ parser'.next = parser.next
      /\ parser'.active = parser.active /\ parser'.begun = parser.begun
      /\ proto = "anthropic" => parser'.started = parser.started
  <2>1. CASE PassLine
    BY <2>1 DEF PassLine
  <2>2. CASE ConvertExtra
    <3> DEFINE calls == parser.calls \/ chunk.calls # <<>>
    <3>1. parser' = [parser EXCEPT !.calls = calls]
      BY <1>1, <2>2 DEF ConvertExtra, ParserType
    <3> HIDE DEF calls
    <3> QED
      BY <1>1, <3>1 DEF ParserType
  <2>3. CASE PassEntry
    <3>1. proto # "anthropic"
          /\ parser' = [parser EXCEPT !.started = @ \cup {CallBlock(Head(chunk.calls).index)}]
      BY <2>3 DEF PassEntry
    <3> QED
      BY <1>1, <3>1 DEF ParserType
  <2> QED
    BY <2>1, <2>2, <2>3
<1>5. ASSUME proto = "anthropic"
      PROVE  /\ ThinkingLeft' = ThinkingLeft /\ TextLeft' = TextLeft /\ CallsLeft' = CallsLeft
             /\ ~ Over
  <2>1. pc = "extra" /\ pc' = "calls" /\ chunk' = chunk
    BY <1>5 DEF PassLine, PassEntry, ConvertExtra, Goto
  <2> QED
    BY <2>1 DEF ThinkingLeft, TextLeft, CallsLeft, Converting, Over
<1>6. pc' # "call" /\ pc' # "done" /\ Converting
  BY <1>2 DEF Converting
<1> QED
  BY <1>2, <1>3, <1>4, <1>5, <1>6, QuietKeeps

\* An answer that is not streamed, and the next request.
LEMMA AnswerKeepsTidy ==
  ASSUME StagesOK, TidyNow, AskAgain \/ \E a \in Answers : ReadAnswer(a)
  PROVE  TidyNow' /\ ClientSees
<1>1. stream \in StreamType
  BY Fields
<1>2. /\ pc \in {"read", "answered"} /\ pc' \in {"read", "answered"} /\ (pc = "answered" => pc' = "answered")
      /\ UNCHANGED <<chunk, parser, sent>> /\ proto' = proto
  BY DEF AskAgain, ReadAnswer, NextRequest, NoteAnswer, ReadLine, Goto
<1>3. /\ stream'.phase = stream.phase /\ stream'.open = stream.open /\ stream'.closed = stream.closed
      /\ stream'.parts = stream.parts
  <2>1. CASE AskAgain
    BY <2>1 DEF AskAgain
  <2>2. ASSUME NEW a \in Answers, ReadAnswer(a)
        PROVE  /\ stream'.phase = stream.phase /\ stream'.open = stream.open
               /\ stream'.closed = stream.closed /\ stream'.parts = stream.parts
    <3> DEFINE reason == ReasonTold("none", a.finish, a.calls # <<>>)
    <3>1. stream' = [stream EXCEPT !.reason = reason]
      BY <2>2 DEF ReadAnswer
    <3> HIDE DEF reason
    <3> QED
      BY <1>1, <3>1 DEF StreamType
  <2> QED
    BY <2>1, <2>2
<1>4. /\ ThinkingLeft' = ThinkingLeft /\ TextLeft' = TextLeft /\ CallsLeft' = CallsLeft
      /\ Over => Over'
  BY <1>2 DEF ThinkingLeft, TextLeft, CallsLeft, Converting, Over
<1>5. pc' # "call" /\ pc' # "done" /\ ~ Converting'
  BY <1>2 DEF Converting
<1>6. /\ parser'.number = parser.number /\ parser'.next = parser.next
      /\ parser'.active = parser.active /\ parser'.begun = parser.begun
      /\ parser'.started = parser.started
  BY <1>2
<1> QED
  BY <1>2, <1>3, <1>4, <1>5, <1>6, QuietKeeps

LEMMA DoneKeepsTidy ==
  ASSUME StagesOK, TidyNow, ReadDone, ~ strayed'
  PROVE  TidyNow' /\ ClientSees
<1>1. /\ pc = "read" /\ pc' = "done" /\ sent' = [sent EXCEPT !.finished = TRUE]
      /\ UNCHANGED <<svars, chunk, parser, stream>> /\ stream.phase # "stopped"
  BY DEF ReadDone, ReadLine, Goto
<1>2. /\ ThinkingLeft' = ThinkingLeft /\ TextLeft' = TextLeft /\ CallsLeft' = CallsLeft
  BY <1>1 DEF ThinkingLeft, TextLeft, CallsLeft, Converting
<1>3. sent'.blocks = sent.blocks /\ sent'.at = sent.at /\ sent'.named = sent.named
  BY <1>1
<1>4. \A c : Told(c)' = Told(c)
  BY <1>1 DEF Told
<1>5. proto' = proto
  BY <1>1 DEF svars
<1>6. PhaseIs' /\ OpenIs'
  BY <1>1 DEF TidyNow, PhaseIs, OpenIs, Converting
<1>7. ASSUME proto = "anthropic"
      PROVE  ActiveIs' /\ RestOK'
  <2>1. ActiveIs /\ RestOK
    BY <1>7 DEF TidyNow
  <2>2. Over => Over'
    BY <1>1 DEF Over
  <2>3. ActiveIs'
    BY <1>1, <1>4, <2>1, <2>2 DEF ActiveIs
  <2>4. RestOK'
    BY <1>1, <1>2, <1>3, <1>4, <2>1, RestSame
  <2> QED
    BY <2>3, <2>4
<1> QED
  BY <1>1, <1>5, <1>6, <1>7 DEF TidyNow, ClientSees

LEMMA EntryKeepsTidy ==
  ASSUME StagesOK, TidyNow, ConvertEntry
  PROVE  TidyNow' /\ ClientSees
<1>0. PICK b \in Blocks : b = CallBlock(Head(chunk.calls).index)
  BY EntryIs
<1>1. /\ pc = "calls" /\ pc' = "call" /\ proto = "anthropic" /\ proto' = proto
      /\ chunk.calls # <<>> /\ chunk' = chunk /\ sent' = sent /\ b \in Blocks
      /\ \/ MustStop(b) /\ parser.active # None /\ StopActive(Numbered(b))
         \/ ~ MustStop(b) /\ parser' = Numbered(b) /\ stream' = stream
  BY <1>0, EntryIs
<1>2. PhaseIs /\ OpenIs /\ ActiveIs /\ RestOK
  BY <1>1 DEF TidyNow
<1>3. /\ CallsLeft = chunk.calls /\ CallsLeft' = CallsLeft /\ ~ ThinkingLeft /\ ~ TextLeft
      /\ ThinkingLeft' = ThinkingLeft /\ TextLeft' = TextLeft /\ ~ Over
  BY <1>1 DEF CallsLeft, Converting, ThinkingLeft, TextLeft, Over
<1>4. CallsLeft # <<>> /\ b = CallBlock(CallsLeft[1].index)
  <2>1. Head(chunk.calls) = chunk.calls[1]
    BY <1>1, Fields, ChunkIs
  <2> QED
    BY <1>0, <1>1, <1>3, <2>1
<1>5. Fresh(b) \/ Latest(b)
  <2>1. 1 \in 1..Len(CallsLeft)
    BY <1>4, LeftIs
  <2> QED
    BY <1>2, <1>4, <2>1 DEF RestOK, RestGoesOn
<1>6. b = CallBlock(Head(chunk'.calls).index)
  BY <1>0, <1>1
<1>7. \A t \in Tools : CallBlock(t) \in Blocks
  BY BlocksAre
<1>8. /\ Latest(b)' /\ Counted' = Counted \cup {b}
      /\ \A c \in Blocks \ {b} : parser'.number[c] = parser.number[c]
      /\ \A c \in Blocks : Told(c)' = Told(c)
      /\ OpenIs' /\ ActiveIs'
      /\ stream'.phase = stream.phase /\ parser'.begun = parser.begun
      /\ ClientSees
  <2>1. CASE MustStop(b) /\ StopActive(Numbered(b))
    BY <1>1, <1>2, <1>3, <1>5, <2>1, StopKeeps DEF ClientSees
  <2>2. CASE ~ MustStop(b) /\ parser' = Numbered(b) /\ stream' = stream
    <3>1. /\ parser'.active = parser.active /\ parser'.started = parser.started
          /\ parser'.begun = parser.begun /\ parser'.number = Numbered(b).number
          /\ parser'.next = Numbered(b).next
      BY <1>1, <2>2, Fields, NumberedIs
    <3>2. /\ Latest(b)' /\ Counted' = Counted \cup {b}
          /\ \A c \in Blocks \ {b} : parser'.number[c] = parser.number[c]
          /\ Number(b) = parser'.number[b] /\ Number(b) = parser'.next - 1 /\ Number(b) \in Nat
          /\ parser'.next \in Nat
          /\ \A n \in stream.closed : n < Number(b) /\ n \in Nat
          /\ parser.active # None => Latest(b) /\ Number(b) = parser.active
          /\ Fresh(b) => Number(b) = parser.next
          /\ Latest(b) => Number(b) = parser.number[b]
      BY <1>1, <1>2, <1>3, <1>5, <2>2, <3>1, NumberKeeps
    <3>3. Told(b)' = Told(b)
      <4>1. CASE Latest(b)
        BY <2>2, <3>2, <4>1 DEF Told, Latest
      <4>2. CASE Fresh(b)
        <5>1. parser.active = None
          BY <3>2, <4>2 DEF Fresh, Latest
        <5>2. Number(b) \notin stream.open \cup stream.closed
          BY <1>2, <3>2, <5>1 DEF OpenIs
        <5> QED
          BY <2>2, <3>2, <4>2, <5>2 DEF Told, Fresh
      <4> QED
        BY <1>5, <4>1, <4>2
    <3>4. \A c \in Blocks : Told(c)' = Told(c)
      BY <2>2, <3>2, <3>3 DEF Told
    <3>5. OpenIs'
      BY <1>2, <2>2, <3>1 DEF OpenIs
    <3>6. ActiveIs'
      <4>1. \A n \in stream'.closed : n < parser'.next /\ n # parser'.next - 1
        BY <2>2, <3>2
      <4>2. \A c \in {Thinking, Text} : c \in parser'.started <=> Told(c)'
        BY <1>2, <3>1, <3>4, BlocksAre DEF ActiveIs
      <4>3. parser'.active # None => parser'.active = parser'.next - 1
        BY <3>1, <3>2
      <4> QED
        BY <4>1, <4>2, <4>3 DEF ActiveIs
    <3> QED
      BY <2>2, <3>1, <3>2, <3>4, <3>5, <3>6 DEF ClientSees
  <2> QED
    BY <1>1, <2>1, <2>2
<1>9. RestOK'
  BY <1>1, <1>2, <1>3, <1>4, <1>6, <1>7, <1>8, RestStays
<1>10. PhaseIs'
  BY <1>1, <1>2, <1>8, PhaseKeeps DEF Converting
<1> QED
  BY <1>1, <1>8, <1>9, <1>10 DEF TidyNow

\* What is left at a call.
LEMMA AtCall ==
  ASSUME StagesOK, TidyNow, pc = "call"
  PROVE  /\ proto = "anthropic" /\ PhaseIs /\ OpenIs /\ ActiveIs /\ RestOK /\ stream.phase = "begun"
         /\ ~ Over /\ ~ ThinkingLeft /\ ~ TextLeft /\ Converting
         /\ CallsLeft = chunk.calls /\ chunk.calls # <<>> /\ Head(chunk.calls) = chunk.calls[1]
         /\ 1 \in 1..Len(CallsLeft)
         /\ Latest(CallBlock(CallsLeft[1].index))
<1>1. proto = "anthropic" /\ chunk \in Chunk /\ chunk.calls # <<>>
  BY Fields DEF StagesOK
<1>2. Head(chunk.calls) = chunk.calls[1]
  BY <1>1, ChunkIs
<1>3. /\ ~ Over /\ ~ ThinkingLeft /\ ~ TextLeft /\ Converting /\ CallsLeft = chunk.calls
  BY DEF Over, ThinkingLeft, TextLeft, Converting, CallsLeft
<1>4. PhaseIs /\ OpenIs /\ ActiveIs /\ RestOK /\ stream.phase = "begun"
  BY <1>1, <1>3 DEF TidyNow, PhaseIs
<1>5. Latest(CallBlock(CallsLeft[1].index))
  BY <1>2, <1>3, <1>4 DEF RestOK, RestGoesOn
<1>6. 1 \in 1..Len(CallsLeft)
  BY <1>1, <1>3, LeftIs
<1> QED
  BY <1>1, <1>2, <1>3, <1>4, <1>5, <1>6

\* The name of a call has been passed on.
LEMMA RestNamed ==
  ASSUME StagesOK, TidyNow, pc = "call", pc' = "call",
         chunk' = [chunk EXCEPT !.calls[1].name = FALSE], CallsLeft[1].name,
         sent' = sent, parser'.number = parser.number, parser'.next = parser.next,
         NEW b \in Blocks, b = CallBlock(CallsLeft[1].index),
         Told(b)', \A c \in Blocks \ {b} : Told(c)' = Told(c)
  PROVE  RestOK'
<1>1. /\ RestOK /\ ~ ThinkingLeft /\ ~ TextLeft /\ CallsLeft = chunk.calls /\ chunk.calls # <<>>
      /\ 1 \in 1..Len(CallsLeft) /\ Latest(CallBlock(CallsLeft[1].index)) /\ chunk \in Chunk
  BY AtCall, Fields
<1>2. /\ Len(CallsLeft) \in Nat
      /\ \A n \in 1..Len(CallsLeft) : CallsLeft[n].index \in Tools
  BY LeftIs
<1>3. /\ chunk' \in Chunk /\ Len(chunk'.calls) = Len(chunk.calls) /\ chunk'.calls # <<>>
      /\ chunk'.calls[1].name = FALSE /\ chunk'.calls[1].index = chunk.calls[1].index
      /\ \A n \in 1..Len(chunk'.calls) : n # 1 => chunk'.calls[n] = chunk.calls[n]
  <2>1. chunk \in Chunk /\ chunk.calls # <<>>
    BY <1>1
  <2>2. \A n \in 1..Len(chunk'.calls) : n # 1 => chunk'.calls[n] = chunk.calls[n]
    BY <2>1, UnnamedIs
  <2>3. chunk' \in Chunk /\ Len(chunk'.calls) = Len(chunk.calls) /\ chunk'.calls # <<>>
    BY <2>1, UnnamedIs
  <2>4. chunk'.calls[1].name = FALSE /\ chunk'.calls[1].index = chunk.calls[1].index
    BY <2>1, UnnamedIs
  <2> QED
    BY <2>2, <2>3, <2>4
<1>4. /\ CallsLeft' = chunk'.calls /\ ~ ThinkingLeft' /\ ~ TextLeft'
  BY DEF CallsLeft, Converting, ThinkingLeft, TextLeft
<1>5. /\ Len(CallsLeft') = Len(CallsLeft) /\ CallsLeft' # <<>> /\ CallsLeft'[1].name = FALSE
      /\ \A n \in 1..Len(CallsLeft) : CallsLeft'[n].index = CallsLeft[n].index
      /\ \A n \in 1..Len(CallsLeft) : n # 1 => CallsLeft'[n] = CallsLeft[n]
  BY <1>1, <1>3, <1>4
<1>6. \A c : Fresh(c)' = Fresh(c) /\ Latest(c)' = Latest(c)
  BY DEF Fresh, Latest
<1>7. RestGoesOn'
  <2>1. Head(chunk'.calls).index = CallsLeft[1].index
    BY <1>1, <1>3, ChunkIs
  <2>2. ASSUME NEW n \in 1..Len(CallsLeft)
        PROVE  LET c == CallBlock(CallsLeft'[n].index)
               IN  IF n = 1 THEN Latest(c)
                   ELSE \/ CallsLeft'[n].index = CallsLeft'[n - 1].index
                        \/ Fresh(c) /\ \A m \in 1..(n - 1) : CallsLeft'[m].index # CallsLeft'[n].index
    <3>1. CASE n = 1
      BY <1>1, <1>5, <3>1
    <3>2. CASE n # 1
      <4>1. \A m \in 1..(n - 1) : m \in 1..Len(CallsLeft)
        BY <1>2
      <4>2. n - 1 \in 1..Len(CallsLeft)
        BY <1>2, <3>2
      <4>3. \/ CallsLeft[n].index = CallsLeft[n - 1].index
            \/ Fresh(CallBlock(CallsLeft[n].index)) /\ \A m \in 1..(n - 1) : CallsLeft[m].index # CallsLeft[n].index
        BY <1>1, <3>2 DEF RestOK, RestGoesOn
      <4> QED
        BY <1>5, <3>2, <4>1, <4>2, <4>3
    <3> QED
      BY <3>1, <3>2
  <2>3. Latest(CallBlock(Head(chunk.calls).index))'
    BY <1>1, <2>1 DEF Latest
  <2>4. \A n \in 1..Len(CallsLeft') :
          LET c == CallBlock(CallsLeft'[n].index)
          IN  IF n = 1 THEN Latest(c)
              ELSE \/ CallsLeft'[n].index = CallsLeft'[n - 1].index
                   \/ Fresh(c) /\ \A m \in 1..(n - 1) : CallsLeft'[m].index # CallsLeft'[n].index
    BY <1>5, <2>2
  <2> QED
    BY <1>4, <1>6, <2>3, <2>4 DEF RestGoesOn
\* The call that was named in the chunk has been named now.
<1>8. ASSUME NEW n \in 1..Len(CallsLeft), NEW t \in Tools, t = CallsLeft[n].index, n # 1
      PROVE  NamedBefore(t, n)' = NamedBefore(t, n)
  <2>1. 1 \in 1..(n - 1) /\ \A m \in 1..(n - 1) : m \in 1..Len(CallsLeft)
    BY <1>2, <1>8
  <2>2. CallBlock(t) \in Blocks /\ CallsLeft[1].index \in Tools
    BY <1>1, <1>2, BlocksAre
  <2>3. CASE t = CallsLeft[1].index
    BY <2>1, <2>3 DEF NamedBefore
  <2>4. CASE t # CallsLeft[1].index
    <3>1. CallBlock(t) # b
      BY <2>2, <2>4, BlocksApart
    <3>2. Told(CallBlock(t))' = Told(CallBlock(t))
      BY <2>2, <3>1
    <3>3. \A m \in 1..(n - 1) : (CallsLeft'[m].index = t /\ CallsLeft'[m].name)
                                <=> (CallsLeft[m].index = t /\ CallsLeft[m].name)
      BY <1>5, <2>1, <2>4
    <3> QED
      BY <3>2, <3>3 DEF NamedBefore
  <2> QED
    BY <2>3, <2>4
<1>9. RestNames'
  <2>1. ASSUME NEW n \in 1..Len(CallsLeft)
        PROVE  IF CallsLeft'[n].name THEN ~ NamedBefore(CallsLeft[n].index, n)'
               ELSE CallsLeft'[n].args => NamedBefore(CallsLeft[n].index, n)'
    <3>1. CASE n = 1
      <4>1. NamedBefore(CallsLeft[1].index, 1)'
        <5>1. Told(CallBlock(CallsLeft[1].index))'
          BY <1>1, <1>5 DEF Told
        <5> QED
          BY <5>1 DEF NamedBefore
      <4> QED
        BY <1>5, <3>1, <4>1
    <3>2. CASE n # 1
      <4>1. PICK t \in Tools : t = CallsLeft[n].index
        BY <1>2
      <4>2. NamedBefore(t, n)' = NamedBefore(t, n)
        BY <1>8, <3>2, <4>1
      <4>3. IF CallsLeft[n].name THEN ~ NamedBefore(t, n) ELSE CallsLeft[n].args => NamedBefore(t, n)
        BY <1>1, <4>1 DEF RestOK, RestNames
      <4>4. NamedBefore(CallsLeft[n].index, n)' = NamedBefore(t, n)'
        BY <1>5, <4>1 DEF NamedBefore
      <4> QED
        BY <1>5, <3>2, <4>2, <4>3, <4>4
    <3> QED
      BY <3>1, <3>2
  <2> QED
    BY <1>5, <2>1 DEF RestNames
<1>10. SentIs'
  <2>1. Counted' = Counted
    BY DEF Counted
  <2>2. sent'.blocks = Counted' \cup {c \in {Thinking} : ThinkingLeft'} \cup {c \in {Text} : TextLeft'}
                       \cup {CallBlock(CallsLeft'[n].index) : n \in 1..Len(CallsLeft')}
    BY <1>1, <1>4, <1>5, <2>1 DEF RestOK, SentIs
  <2>3. sent'.at = CallBlock(CallsLeft'[Len(CallsLeft')].index)
    <3>1. Len(CallsLeft) \in 1..Len(CallsLeft)
      BY <1>1, LeftIs
    <3>2. sent.at = CallBlock(CallsLeft[Len(CallsLeft)].index)
      BY <1>1 DEF RestOK, SentIs
    <3> QED
      BY <1>5, <3>1, <3>2
  <2>4. sent'.named = {t \in Tools : Told(CallBlock(t))'}
                      \cup {CallsLeft'[n].index : n \in {m \in 1..Len(CallsLeft') : CallsLeft'[m].name}}
    <3>1. \A t \in Tools : Told(CallBlock(t))' <=> Told(CallBlock(t)) \/ t = CallsLeft[1].index
      <4>1. \A t \in Tools : CallBlock(t) \in Blocks /\ (CallBlock(t) = b <=> t = CallsLeft[1].index)
        BY <1>1, <1>2, BlocksAre, BlocksApart
      <4>2. ASSUME NEW t \in Tools PROVE Told(CallBlock(t))' <=> Told(CallBlock(t)) \/ t = CallsLeft[1].index
        BY <4>1
      <4> QED
        BY <4>2
    <3>2. {CallsLeft[n].index : n \in {m \in 1..Len(CallsLeft) : CallsLeft[m].name}}
          = {CallsLeft[1].index}
            \cup {CallsLeft'[n].index : n \in {m \in 1..Len(CallsLeft') : CallsLeft'[m].name}}
      BY <1>1, <1>5
    <3>3. sent.named = {t \in Tools : Told(CallBlock(t))}
                       \cup {CallsLeft[n].index : n \in {m \in 1..Len(CallsLeft) : CallsLeft[m].name}}
      BY <1>1 DEF RestOK, SentIs
    <3>4. CallsLeft[1].index \in Tools
      BY <1>1, <1>2
    <3> QED
      BY <3>1, <3>2, <3>3, <3>4
  <2> QED
    BY <1>5, <2>2, <2>3, <2>4 DEF SentIs
<1> QED
  BY <1>7, <1>9, <1>10 DEF RestOK

LEMMA StartCallKeepsTidy ==
  ASSUME StagesOK, TidyNow, StartCall
  PROVE  TidyNow' /\ ClientSees
<1>0. PICK b \in Blocks : b = CallBlock(Head(chunk.calls).index)
  BY CallIs
<1>1. /\ pc = "call" /\ proto' = proto /\ sent' = sent /\ parser.number[b] # None
      /\ Number(b) = parser.number[b]
  BY <1>0, CallIs
<1>2. /\ parser' = [parser EXCEPT !.active = Number(b)] /\ stream' = StartOf(Number(b))
      /\ chunk' = [chunk EXCEPT !.calls[1].name = FALSE] /\ pc' = pc /\ Head(chunk.calls).name
  BY <1>0 DEF StartCall
<1>3. /\ proto = "anthropic" /\ PhaseIs /\ OpenIs /\ ActiveIs /\ RestOK /\ stream.phase = "begun"
      /\ ~ Over /\ Converting /\ CallsLeft = chunk.calls /\ Head(chunk.calls) = chunk.calls[1]
      /\ 1 \in 1..Len(CallsLeft)
  BY <1>1, AtCall
<1>4. b = CallBlock(CallsLeft[1].index) /\ CallsLeft[1].name
  BY <1>0, <1>2, <1>3
<1>5. Latest(b)
  BY <1>1, <1>4, AtCall
<1>6. ~ Told(b)
  <2>1. ~ NamedBefore(CallsLeft[1].index, 1)
    BY <1>3, <1>4 DEF RestOK, RestNames
  <2> QED
    BY <1>4, <2>1 DEF NamedBefore
<1>7. ~ MustStop(b)
  BY <1>1, <1>3, <1>5 DEF MustStop, ActiveIs, Latest
<1>8. Numbered(b) = parser
  BY <1>1 DEF Numbered
<1>9. /\ parser'.active = Number(b) /\ parser'.number = parser.number /\ parser'.next = parser.next
      /\ parser'.started = parser.started /\ parser'.begun = parser.begun
  BY <1>1, <1>2, Fields, ActiveIsBlock
<1>10. \A c \in {Thinking, Text} : c # b
  <2>1. CallsLeft[1].index \in Tools
    BY <1>3, LeftIs
  <2> QED
    BY <1>4, <2>1, BlocksApart
<1>11. parser'.number = Numbered(b).number /\ parser'.next = Numbered(b).next
  BY <1>8, <1>9
<1>12. \A c \in {Thinking, Text} : c \in parser'.started <=> c \in parser.started \/ c = b
  BY <1>9, <1>10
<1>13. /\ Told(b)' /\ \A c \in Blocks \ {b} : Told(c)' = Told(c)
       /\ OpenIs' /\ ActiveIs'
       /\ stream'.phase = stream.phase
       /\ Client!Next
  BY <1>2, <1>3, <1>5, <1>6, <1>7, <1>9, <1>11, <1>12, StartKeeps
<1>14. RestOK'
  BY <1>1, <1>2, <1>4, <1>9, <1>13, RestNamed
<1>15. PhaseIs'
  BY <1>1, <1>2, <1>3, <1>9, <1>13, PhaseKeeps
<1> QED
  BY <1>1, <1>3, <1>13, <1>14, <1>15 DEF TidyNow, ClientSees

\* The arguments of a call have been passed on, or there were none.
LEMMA RestFilled ==
  ASSUME StagesOK, TidyNow, pc = "call", pc' = "calls",
         chunk' = [chunk EXCEPT !.calls = Tail(@)], ~ CallsLeft[1].name,
         sent' = sent, parser'.number = parser.number, parser'.next = parser.next,
         NEW b \in Blocks, b = CallBlock(CallsLeft[1].index),
         \A c \in Blocks : Told(c)' = Told(c)
  PROVE  RestOK'
<1>1. /\ RestOK /\ ~ ThinkingLeft /\ ~ TextLeft /\ CallsLeft = chunk.calls /\ chunk.calls # <<>>
      /\ 1 \in 1..Len(CallsLeft) /\ Latest(b) /\ chunk \in Chunk
  BY AtCall, Fields
<1>2. /\ Len(CallsLeft) \in Nat /\ Len(CallsLeft) \in 1..Len(CallsLeft)
      /\ \A n \in 1..Len(CallsLeft) : CallsLeft[n].index \in Tools
  BY <1>1, LeftIs
<1>3. /\ chunk' \in Chunk /\ Len(chunk'.calls) = Len(chunk.calls) - 1
      /\ \A n \in 1..Len(chunk'.calls) : chunk'.calls[n] = chunk.calls[n + 1]
  BY <1>1, RestIs
<1>4. /\ CallsLeft' = chunk'.calls /\ ~ ThinkingLeft' /\ ~ TextLeft'
  BY DEF CallsLeft, Converting, ThinkingLeft, TextLeft
<1>5. /\ Len(CallsLeft') = Len(CallsLeft) - 1 /\ Len(CallsLeft') \in Nat
      /\ \A n \in 1..Len(CallsLeft') : CallsLeft'[n] = CallsLeft[n + 1] /\ n + 1 \in 1..Len(CallsLeft)
      /\ CallsLeft' # <<>> <=> Len(CallsLeft') # 0
  <2>1. CallsLeft' # <<>> <=> Len(CallsLeft') # 0
    <3>1. chunk'.calls \in Seq(Entry)
      BY <1>3 DEF Chunk
    <3> QED
      BY <1>4, <3>1, EmptySeq
  <2> QED
    BY <1>1, <1>2, <1>3, <1>4, <2>1
<1>6. \A c : Fresh(c)' = Fresh(c) /\ Latest(c)' = Latest(c)
  BY DEF Fresh, Latest
<1>7. RestGoesOn'
  <2>1. ASSUME NEW n \in 1..Len(CallsLeft')
        PROVE  LET c == CallBlock(CallsLeft'[n].index)
               IN  IF n = 1 THEN Fresh(c) \/ Latest(c)
                   ELSE \/ CallsLeft'[n].index = CallsLeft'[n - 1].index
                        \/ Fresh(c) /\ \A m \in 1..(n - 1) : CallsLeft'[m].index # CallsLeft'[n].index
    <3>1. n + 1 \in 1..Len(CallsLeft) /\ n + 1 # 1 /\ (n + 1) - 1 = n /\ CallsLeft'[n] = CallsLeft[n + 1]
      BY <1>5
    <3>2. \/ CallsLeft[n + 1].index = CallsLeft[n].index
          \/ Fresh(CallBlock(CallsLeft[n + 1].index)) /\ \A m \in 1..n : CallsLeft[m].index # CallsLeft[n + 1].index
      <4> DEFINE k == n + 1
      <4>1. \/ CallsLeft[k].index = CallsLeft[k - 1].index
            \/ Fresh(CallBlock(CallsLeft[k].index)) /\ \A m \in 1..(k - 1) : CallsLeft[m].index # CallsLeft[k].index
        BY <1>1, <3>1 DEF RestOK, RestGoesOn
      <4> QED
        BY <3>1, <4>1
    <3>3. CASE n = 1
      BY <1>1, <3>1, <3>2, <3>3
    <3>4. CASE n # 1
      <4>1. n - 1 \in 1..Len(CallsLeft') /\ (n - 1) + 1 = n
        BY <1>5, <3>4
      <4>2. CallsLeft'[n - 1] = CallsLeft[n]
        BY <1>5, <4>1
      <4>3. \A m \in 1..(n - 1) : CallsLeft'[m] = CallsLeft[m + 1] /\ m + 1 \in 1..n
        BY <1>5, <3>4
      <4> QED
        BY <3>1, <3>2, <3>4, <4>2, <4>3
    <3> QED
      BY <3>3, <3>4
  <2> QED
    BY <1>4, <1>6, <2>1 DEF RestGoesOn
<1>8. ASSUME NEW n \in 1..Len(CallsLeft'), NEW t \in Tools
      PROVE  NamedBefore(t, n)' = NamedBefore(t, n + 1)
  <2>1. CallBlock(t) \in Blocks
    BY BlocksAre
  <2>2. \A m \in 1..(n - 1) : CallsLeft'[m] = CallsLeft[m + 1] /\ m + 1 \in 1..((n + 1) - 1)
    BY <1>5
  <2>3. \A m \in 1..((n + 1) - 1) : m = 1 \/ (m - 1 \in 1..(n - 1) /\ CallsLeft'[m - 1] = CallsLeft[m])
    <3>1. ASSUME NEW m \in 1..((n + 1) - 1), m # 1
          PROVE  m - 1 \in 1..(n - 1) /\ CallsLeft'[m - 1] = CallsLeft[m]
      <4>1. m - 1 \in 1..(n - 1) /\ (m - 1) + 1 = m
        BY <1>5, <3>1
      <4> QED
        BY <2>2, <4>1
    <3> QED
      BY <3>1
  <2>4. (\E m \in 1..(n - 1) : CallsLeft'[m].index = t /\ CallsLeft'[m].name)
        <=> (\E m \in 1..((n + 1) - 1) : CallsLeft[m].index = t /\ CallsLeft[m].name)
    BY <2>2, <2>3
  <2>5. Told(CallBlock(t))' = Told(CallBlock(t))
    BY <2>1
  <2> QED
    BY <2>4, <2>5 DEF NamedBefore
<1>9. RestNames'
  <2>1. ASSUME NEW n \in 1..Len(CallsLeft')
        PROVE  IF CallsLeft'[n].name THEN ~ NamedBefore(CallsLeft[n].index, n)'
               ELSE CallsLeft'[n].args => NamedBefore(CallsLeft[n].index, n)'
    <3>1. n + 1 \in 1..Len(CallsLeft) /\ CallsLeft'[n] = CallsLeft[n + 1]
      BY <1>5
    <3>2. PICK t \in Tools : t = CallsLeft[n + 1].index
      BY <1>2, <3>1
    <3>3. NamedBefore(t, n)' = NamedBefore(t, n + 1)
      BY <1>8
    <3>4. IF CallsLeft[n + 1].name THEN ~ NamedBefore(t, n + 1) ELSE CallsLeft[n + 1].args => NamedBefore(t, n + 1)
      BY <1>1, <3>1, <3>2 DEF RestOK, RestNames
    <3>5. t = CallsLeft'[n].index
      BY <3>1, <3>2
    <3>6. NamedBefore(CallsLeft[n].index, n)' = NamedBefore(t, n)'
      BY <3>5 DEF NamedBefore
    <3> QED
      BY <3>1, <3>3, <3>4, <3>6
  <2> QED
    BY <1>5, <2>1 DEF RestNames
<1>10. SentIs'
  <2>1. Counted' = Counted /\ b \in Counted
    BY <1>1 DEF Counted, Latest
  <2>2. sent'.blocks = Counted' \cup {c \in {Thinking} : ThinkingLeft'} \cup {c \in {Text} : TextLeft'}
                       \cup {CallBlock(CallsLeft'[n].index) : n \in 1..Len(CallsLeft')}
    <3>1. sent.blocks = Counted \cup {CallBlock(CallsLeft[n].index) : n \in 1..Len(CallsLeft)}
      BY <1>1 DEF RestOK, SentIs
    <3>2. \A n \in 1..Len(CallsLeft) : n = 1 \/ (n - 1 \in 1..Len(CallsLeft') /\ CallsLeft'[n - 1] = CallsLeft[n])
      <4>1. ASSUME NEW n \in 1..Len(CallsLeft), n # 1
            PROVE  n - 1 \in 1..Len(CallsLeft') /\ CallsLeft'[n - 1] = CallsLeft[n]
        <5>1. n - 1 \in 1..Len(CallsLeft') /\ (n - 1) + 1 = n
          BY <1>2, <1>5, <4>1
        <5> QED
          BY <1>5, <5>1
      <4> QED
        BY <4>1
    <3>3. {CallBlock(CallsLeft[n].index) : n \in 1..Len(CallsLeft)}
          = {b} \cup {CallBlock(CallsLeft'[n].index) : n \in 1..Len(CallsLeft')}
      BY <1>1, <1>5, <3>2
    <3> QED
      BY <1>4, <2>1, <3>1, <3>3
  <2>3. IF CallsLeft' # <<>> THEN sent'.at = CallBlock(CallsLeft'[Len(CallsLeft')].index)
        ELSE sent'.at = b
    <3>1. sent.at = CallBlock(CallsLeft[Len(CallsLeft)].index)
      BY <1>1 DEF RestOK, SentIs
    <3>2. CASE CallsLeft' # <<>>
      <4>1. Len(CallsLeft') \in 1..Len(CallsLeft') /\ Len(CallsLeft') + 1 = Len(CallsLeft)
        BY <1>2, <1>5, <3>2
      <4> QED
        BY <1>5, <3>1, <3>2, <4>1
    <3>3. CASE CallsLeft' = <<>>
      <4>1. Len(CallsLeft) = 1
        BY <1>2, <1>5, <3>3
      <4> QED
        BY <3>1, <3>3, <4>1
    <3> QED
      BY <3>2, <3>3
  <2>4. parser'.next # 0 /\ Latest(b)'
    BY <1>1, NumbersBelow DEF Latest
  <2>5. sent'.named = {t \in Tools : Told(CallBlock(t))'}
                      \cup {CallsLeft'[n].index : n \in {m \in 1..Len(CallsLeft') : CallsLeft'[m].name}}
    <3>1. \A t \in Tools : Told(CallBlock(t))' = Told(CallBlock(t))
      BY BlocksAre
    <3>2. \A n \in 1..Len(CallsLeft) : CallsLeft[n].name
            => n - 1 \in 1..Len(CallsLeft') /\ CallsLeft'[n - 1] = CallsLeft[n]
      <4>1. ASSUME NEW n \in 1..Len(CallsLeft), CallsLeft[n].name
            PROVE  n - 1 \in 1..Len(CallsLeft') /\ CallsLeft'[n - 1] = CallsLeft[n]
        <5>1. n # 1
          BY <4>1
        <5>2. n - 1 \in 1..Len(CallsLeft') /\ (n - 1) + 1 = n
          BY <1>2, <1>5, <5>1
        <5> QED
          BY <1>5, <5>2
      <4> QED
        BY <4>1
    <3>3. {CallsLeft[n].index : n \in {m \in 1..Len(CallsLeft) : CallsLeft[m].name}}
          = {CallsLeft'[n].index : n \in {m \in 1..Len(CallsLeft') : CallsLeft'[m].name}}
      BY <1>5, <3>2
    <3>4. sent.named = {t \in Tools : Told(CallBlock(t))}
                       \cup {CallsLeft[n].index : n \in {m \in 1..Len(CallsLeft) : CallsLeft[m].name}}
      BY <1>1 DEF RestOK, SentIs
    <3>5. {t \in Tools : Told(CallBlock(t))'} = {t \in Tools : Told(CallBlock(t))}
      BY <3>1
    <3> QED
      BY <3>3, <3>4, <3>5
  <2>6. sent.at = b => sent'.at \in Blocks /\ Latest(sent.at)'
    BY <2>4 DEF Latest
  <2> QED
    BY <1>4, <2>2, <2>3, <2>4, <2>5, <2>6 DEF SentIs
<1> QED
  BY <1>7, <1>9, <1>10 DEF RestOK

LEMMA FillCallKeepsTidy ==
  ASSUME StagesOK, TidyNow, FillCall
  PROVE  TidyNow' /\ ClientSees
<1>0. PICK b \in Blocks : b = CallBlock(Head(chunk.calls).index)
  BY CallIs
<1>1. /\ pc = "call" /\ proto' = proto /\ sent' = sent /\ parser.number[b] # None
      /\ Number(b) = parser.number[b]
  BY <1>0, CallIs
<1>2. /\ IF Head(chunk.calls).args
         THEN parser' = [parser EXCEPT !.active = Number(b)] /\ stream' = DeltaOf(Number(b))
         ELSE UNCHANGED <<parser, stream>>
      /\ chunk' = [chunk EXCEPT !.calls = Tail(@)] /\ pc' = "calls" /\ ~ Head(chunk.calls).name
  BY <1>0 DEF FillCall, Goto
<1>3. /\ proto = "anthropic" /\ PhaseIs /\ OpenIs /\ ActiveIs /\ RestOK
      /\ ~ Over /\ Converting /\ CallsLeft = chunk.calls /\ Head(chunk.calls) = chunk.calls[1]
      /\ 1 \in 1..Len(CallsLeft)
  BY <1>1, AtCall
<1>4. b = CallBlock(CallsLeft[1].index) /\ ~ CallsLeft[1].name
  BY <1>0, <1>2, <1>3
<1>5. Latest(b)
  BY <1>1, <1>4, AtCall
<1>6. /\ parser'.number = parser.number /\ parser'.next = parser.next
      /\ parser'.active \in {parser.active, Number(b)}
      /\ parser'.started = parser.started /\ parser'.begun = parser.begun
  <2>1. CASE Head(chunk.calls).args
    BY <1>1, <1>2, <2>1, Fields, ActiveIsBlock
  <2>2. CASE ~ Head(chunk.calls).args
    BY <1>2, <2>2
  <2> QED
    BY <2>1, <2>2
<1>7. /\ \A c \in Blocks : Told(c)' = Told(c)
      /\ OpenIs' /\ ActiveIs' /\ stream'.phase = stream.phase /\ ClientSees
  <2>1. CASE Head(chunk.calls).args
    <3>1. NamedBefore(CallsLeft[1].index, 1)
      BY <1>3, <1>4, <2>1 DEF RestOK, RestNames
    <3>2. Told(b)
      BY <1>4, <3>1 DEF NamedBefore
    <3>3. stream' = DeltaOf(Number(b))
      BY <1>2, <2>1
    <3> QED
      BY <1>3, <1>5, <1>6, <3>2, <3>3, DeltaKeeps DEF ClientSees
  <2>2. CASE ~ Head(chunk.calls).args
    <3>1. UNCHANGED <<parser, stream>>
      BY <1>2, <2>2
    <3>2. \A c : Told(c)' = Told(c)
      BY <3>1 DEF Told
    <3>3. OpenIs'
      BY <1>3, <3>1 DEF OpenIs
    <3>4. ActiveIs'
      BY <1>3, <3>1, <3>2 DEF ActiveIs
    <3> QED
      BY <3>1, <3>2, <3>3, <3>4 DEF ClientSees
  <2> QED
    BY <2>1, <2>2
<1>8. RestOK'
  BY <1>1, <1>2, <1>4, <1>6, <1>7, RestFilled
<1>9. PhaseIs'
  BY <1>1, <1>2, <1>3, <1>6, <1>7, PhaseKeeps DEF Converting
<1> QED
  BY <1>1, <1>3, <1>7, <1>8, <1>9 DEF TidyNow

\* The last block stops when nothing is left of the answer but its end.
LEMMA LastStops ==
  ASSUME StagesOK, TidyNow, proto = "anthropic", Over, pc # "call", parser.active # None,
         StopActive(parser), UNCHANGED <<svars, pc, chunk, sent>>
  PROVE  TidyNow' /\ ClientSees
<1>1. ParserOK(parser) /\ stream \in StreamType /\ PhaseIs /\ OpenIs /\ ActiveIs /\ RestOK
  BY Fields DEF TidyNow
<1>2. /\ stream' = StopOf(parser.active) /\ parser.active \in Blocks
      /\ parser'.active = None /\ parser'.number = parser.number /\ parser'.next = parser.next
      /\ parser'.started = parser.started /\ parser'.begun = parser.begun
  BY <1>1, StopActiveIs
<1>3. /\ stream'.phase = stream.phase /\ stream'.parts = stream.parts
      /\ stream'.open = stream.open \ {parser.active}
      /\ stream'.closed = stream.closed \cup {parser.active}
  BY <1>1, <1>2, StopIs
<1>4. stream.open = {parser.active}
  BY <1>1 DEF OpenIs
<1>5. stream'.open = {} /\ stream'.open \cup stream'.closed = stream.open \cup stream.closed
  BY <1>3, <1>4
<1>6. \A c : Told(c)' = Told(c)
  BY <1>2, <1>5 DEF Told
<1>7. /\ ThinkingLeft' = ThinkingLeft /\ TextLeft' = TextLeft /\ CallsLeft' = CallsLeft /\ Over'
      /\ Converting' = Converting
  BY DEF ThinkingLeft, TextLeft, CallsLeft, Converting, Over
<1>8. OpenIs'
  BY <1>2, <1>5 DEF OpenIs
<1>9. ActiveIs'
  <2>1. parser.active < parser.next
    BY NumbersBelow
  <2>2. \A n \in stream'.closed : n < parser'.next
    BY <1>1, <1>2, <1>3, <2>1 DEF ActiveIs
  <2>3. \A c \in {Thinking, Text} : c \in parser'.started <=> Told(c)'
    BY <1>1, <1>2, <1>6 DEF ActiveIs
  <2> QED
    BY <1>2, <1>7, <2>2, <2>3 DEF ActiveIs
<1>10. PhaseIs'
  BY <1>1, <1>2, <1>3, <1>7, PhaseKeeps
<1>11. RestOK'
  BY <1>1, <1>2, <1>6, <1>7, RestSame
<1>12. Client!Stop(parser.active)
  BY <1>3, <1>4 DEF Client!Stop
<1>13. ClientSees
  BY <1>2, <1>12 DEF Client!Next, ClientSees
<1> QED
  BY <1>8, <1>9, <1>10, <1>11, <1>13 DEF TidyNow, svars

\* The message is concluded, or stopped, when no block is active.
LEMMA MessageEnds ==
  ASSUME StagesOK, TidyNow, sent.finished, parser.active = None,
         pc \in {"calls", "done"}, pc = "calls" => chunk.calls = <<>>, pc' = "read",
         UNCHANGED <<svars, parser, sent>>,
         stream'.open = stream.open, stream'.closed = stream.closed, stream'.parts = stream.parts
  PROVE  TidyNow' /\ stream.open = {}
<1>1. PhaseIs /\ OpenIs /\ proto' = proto
  BY DEF TidyNow, svars
<1>2. /\ ThinkingLeft' = ThinkingLeft /\ TextLeft' = TextLeft /\ CallsLeft' = CallsLeft
      /\ Over' /\ ~ Converting'
  BY DEF ThinkingLeft, TextLeft, CallsLeft, Converting, Over
<1>3. \A c : Told(c)' = Told(c)
  BY DEF Told
<1>4. PhaseIs'
  BY <1>2 DEF PhaseIs
<1>5. OpenIs' /\ stream.open = {}
  BY <1>1 DEF OpenIs
<1>6. ASSUME proto = "anthropic"
      PROVE  ActiveIs' /\ RestOK'
  <2>1. ActiveIs /\ RestOK
    BY <1>6 DEF TidyNow
  <2>2. ActiveIs'
    BY <1>2, <1>3, <2>1 DEF ActiveIs
  <2>3. RestOK'
    BY <1>2, <1>3, <2>1, RestSame
  <2> QED
    BY <2>2, <2>3
<1> QED
  BY <1>1, <1>4, <1>5, <1>6 DEF TidyNow

LEMMA EndKeepsTidy ==
  ASSUME StagesOK, ReasonsOK, ~ strayed, TidyNow, ConvertFinish \/ FinishMessage
  PROVE  TidyNow' /\ ClientSees
<1>1. stream \in StreamType /\ PhaseIs /\ OpenIs
  BY Fields DEF TidyNow
<1>2. CASE ConvertFinish
  <2>1. pc = "calls" /\ chunk.calls = <<>> /\ UNCHANGED <<svars, read, sent, strayed>> /\ Converting
    BY <1>2 DEF ConvertFinish, Converting
  <2>2. chunk.finish # "none" => sent.finished
    BY <2>1 DEF ReasonsOK
  <2>3. CASE chunk.finish = "none" \/ proto # "anthropic"
    <3> DEFINE told == ReasonTold(stream.reason, chunk.finish, parser.calls)
    <3>1. /\ pc' = "read" /\ parser' = parser /\ proto' = proto
          /\ stream' = [stream EXCEPT !.reason = told]
      BY <1>2, <2>1, <2>3 DEF ConvertFinish, Goto, svars
    <3> HIDE DEF told
    <3>2. /\ ThinkingLeft' = ThinkingLeft /\ TextLeft' = TextLeft /\ CallsLeft' = CallsLeft
          /\ Over => Over' /\ ~ Converting'
      BY <2>1, <3>1 DEF ThinkingLeft, TextLeft, CallsLeft, Converting, Over
    <3>3. ~ Converting'
      BY <3>1 DEF Converting
    <3>4. /\ stream'.phase = stream.phase /\ stream'.open = stream.open
          /\ stream'.closed = stream.closed /\ stream'.parts = stream.parts
          /\ parser'.number = parser.number /\ parser'.next = parser.next
          /\ parser'.active = parser.active /\ parser'.begun = parser.begun
          /\ parser'.started = parser.started
      BY <1>1, <3>1 DEF StreamType
    <3> QED
      BY <2>1, <3>1, <3>2, <3>3, <3>4, QuietKeeps
  <2>4. CASE chunk.finish # "none" /\ proto = "anthropic" /\ parser.active # None
    <3>1. StopActive(parser) /\ UNCHANGED <<pc, chunk>>
      BY <1>2, <2>4 DEF ConvertFinish
    <3>2. Over
      BY <2>1, <2>2, <2>4 DEF Over
    <3> QED
      BY <2>1, <2>4, <3>1, <3>2, LastStops
  <2>5. CASE chunk.finish # "none" /\ proto = "anthropic" /\ parser.active = None
    <3> DEFINE reason == ReasonOf(chunk.finish, parser.calls)
    <3>1. stream' = [stream EXCEPT !.phase = "concluded", !.reason = reason] /\ pc' = "read" /\ parser' = parser
      BY <1>2, <2>5 DEF ConvertFinish, Goto
    <3> HIDE DEF reason
    <3>2. /\ stream'.phase = "concluded" /\ stream'.open = stream.open /\ stream'.closed = stream.closed
          /\ stream'.parts = stream.parts
      BY <1>1, <3>1 DEF StreamType
    <3>3. TidyNow' /\ stream.open = {}
      BY <2>1, <2>2, <2>5, <3>1, <3>2, MessageEnds
    <3>4. stream.phase = "begun"
      BY <1>1, <2>1 DEF PhaseIs
    <3>5. Client!Conclude
      BY <3>2, <3>3, <3>4 DEF Client!Conclude
    <3> QED
      BY <3>3, <3>5 DEF Client!Next, ClientSees
  <2> QED
    BY <2>3, <2>4, <2>5
<1>3. CASE FinishMessage
  <2>1. pc = "done" /\ UNCHANGED <<svars, chunk, read, sent, strayed>>
    BY <1>3 DEF FinishMessage
  <2>2. sent.finished /\ stream.phase # "stopped"
    BY <1>1, <2>1 DEF PhaseIs
  <2>3. CASE parser.active # None /\ proto = "anthropic"
    <3>1. StopActive(parser) /\ pc' = pc
      BY <1>3, <2>3 DEF FinishMessage
    <3>2. Over
      BY <2>1, <2>2 DEF Over
    <3> QED
      BY <2>1, <2>3, <3>1, <3>2, LastStops
  <2>4. CASE ~ (parser.active # None /\ proto = "anthropic")
    <3>1. stream' = [stream EXCEPT !.phase = "stopped"] /\ pc' = "read" /\ parser' = parser
      BY <1>3, <2>4 DEF FinishMessage, Goto
    <3>2. parser.active = None
      BY <2>4 DEF TidyNow
    <3>3. /\ stream'.phase = "stopped" /\ stream'.open = stream.open /\ stream'.closed = stream.closed
          /\ stream'.parts = stream.parts
      BY <1>1, <3>1 DEF StreamType
    <3>4. TidyNow' /\ stream.open = {}
      BY <2>1, <2>2, <3>1, <3>2, <3>3, MessageEnds
    <3>5. Client!End
      BY <2>2, <3>3, <3>4 DEF Client!End
    <3> QED
      BY <3>4, <3>5 DEF Client!Next, ClientSees
  <2> QED
    BY <2>3, <2>4
<1> QED
  BY <1>2, <1>3

\* The blocks that a chunk has parts of: k of thinking and text, then those of its calls.
LEMMA VisitsAre ==
  ASSUME NEW c \in Chunk
  PROVE  \E k \in 0..2 :
           /\ Visits(c) \in Seq(Blocks) /\ Len(Visits(c)) = k + Len(c.calls)
           /\ \A n \in 1..Len(c.calls) : Visits(c)[k + n] = CallBlock(c.calls[n].index)
           /\ k = 0 <=> ~ c.thinking /\ ~ c.text
           /\ k = 2 <=> c.thinking /\ c.text
           /\ c.thinking => Visits(c)[1] = Thinking
           /\ c.text => Visits(c)[k] = Text
<1> DEFINE a == IF c.thinking THEN <<Thinking>> ELSE <<>>
           b == IF c.text THEN <<Text>> ELSE <<>>
           calls == [n \in 1..Len(c.calls) |-> CallBlock(c.calls[n].index)]
<1>1. /\ c.thinking \in BOOLEAN /\ c.text \in BOOLEAN /\ Len(c.calls) \in Nat
      /\ \A n \in 1..Len(c.calls) : c.calls[n].index \in Tools
  BY ChunkIs
<1>2. Thinking \in Blocks /\ Text \in Blocks /\ \A t \in Tools : CallBlock(t) \in Blocks
  BY BlocksAre
<1>3. a \in Seq(Blocks) /\ b \in Seq(Blocks)
  BY <1>2
<1>4. calls \in Seq(Blocks) /\ Len(calls) = Len(c.calls)
      /\ \A n \in 1..Len(c.calls) : calls[n] = CallBlock(c.calls[n].index)
  BY <1>1, <1>2
<1>5. /\ Len(a) = IF c.thinking THEN 1 ELSE 0
      /\ c.thinking => a[1] = Thinking
      /\ Len(b) = IF c.text THEN 1 ELSE 0
      /\ c.text => b[1] = Text
  OBVIOUS
<1>6. Visits(c) = (a \o b) \o calls
  BY DEF Visits
<1> HIDE DEF a, b, calls
<1> DEFINE front == a \o b
           k == Len(a) + Len(b)
<1>7. /\ front \in Seq(Blocks) /\ Len(front) = k
      /\ \A i \in 1..k : front[i] = IF i <= Len(a) THEN a[i] ELSE b[i - Len(a)]
  BY <1>3, ConcatProperties
<1>8. k \in 0..2 /\ (k = 0 <=> ~ c.thinking /\ ~ c.text) /\ (k = 2 <=> c.thinking /\ c.text)
  BY <1>1, <1>5
<1>9. c.thinking => 1 \in 1..k /\ front[1] = Thinking
  BY <1>1, <1>5, <1>7
<1>10. c.text => k \in 1..k /\ front[k] = Text
  BY <1>1, <1>5, <1>7
<1>11. Visits(c) = front \o calls
  BY <1>6
<1> HIDE DEF front, k
<1>12. /\ Visits(c) \in Seq(Blocks) /\ Len(Visits(c)) = k + Len(c.calls)
       /\ \A i \in 1..(k + Len(c.calls)) : Visits(c)[i] = IF i <= k THEN front[i] ELSE calls[i - k]
  <2>1. calls \in Seq(Blocks) /\ front \in Seq(Blocks) /\ Len(front) = k /\ Len(calls) = Len(c.calls)
    BY <1>4, <1>7
  <2>2. /\ front \o calls \in Seq(Blocks) /\ Len(front \o calls) = Len(front) + Len(calls)
        /\ \A i \in 1..(Len(front) + Len(calls)) :
             (front \o calls)[i] = IF i <= Len(front) THEN front[i] ELSE calls[i - Len(front)]
    BY <2>1, ConcatProperties
  <2> QED
    BY <1>11, <2>1, <2>2
<1>13. ASSUME NEW n \in 1..Len(c.calls)
       PROVE  Visits(c)[k + n] = CallBlock(c.calls[n].index)
  <2>1. k + n \in 1..(k + Len(c.calls)) /\ ~ (k + n <= k) /\ (k + n) - k = n
    BY <1>1, <1>8
  <2> QED
    BY <1>4, <1>12, <2>1
<1>14. \A i \in 1..k : Visits(c)[i] = front[i]
  BY <1>1, <1>8, <1>12
<1> QED
  BY <1>8, <1>9, <1>10, <1>12, <1>13, <1>14

\* Between chunks a block is the last one that was seen, or a new one.
LEMMA SeenOrFresh ==
  ASSUME StagesOK, SentIs, pc = "read", NEW b \in Blocks
  PROVE  /\ sent.at = b => Latest(b)
         /\ b \notin sent.blocks => Fresh(b)
         /\ sent.blocks = Counted
         /\ \A t \in Tools : t \in sent.named <=> Told(CallBlock(t))
<1>1. CallsLeft = <<>> /\ ~ TextLeft /\ ~ ThinkingLeft
  BY DEF CallsLeft, Converting, TextLeft, ThinkingLeft
<1>2. sent.blocks = Counted
  BY <1>1 DEF SentIs
<1>3. sent.at = b => Latest(b)
  BY <1>1, NoneIsNo DEF SentIs
<1>4. sent.named = {t \in Tools : Told(CallBlock(t))}
  BY <1>1 DEF SentIs
<1> QED
  BY <1>2, <1>3, <1>4 DEF Counted, Fresh

\* A chunk of a backend that does not go back.
LEMMA RestRead ==
  ASSUME StagesOK, SentIs, pc = "read", NEW c \in Chunk, GoesOn(c),
         pc' = "thinking", chunk' = c, sent' = SentAfter(c),
         parser'.number = parser.number, parser'.next = parser.next,
         \A t \in Tools : Told(CallBlock(t))' = Told(CallBlock(t))
  PROVE  RestOK'
<1>1. PICK k \in 0..2 :
           /\ Visits(c) \in Seq(Blocks) /\ Len(Visits(c)) = k + Len(c.calls)
           /\ \A n \in 1..Len(c.calls) : Visits(c)[k + n] = CallBlock(c.calls[n].index)
           /\ k = 0 <=> ~ c.thinking /\ ~ c.text
           /\ k = 2 <=> c.thinking /\ c.text
           /\ c.thinking => Visits(c)[1] = Thinking
           /\ c.text => Visits(c)[k] = Text
  BY VisitsAre
<1> DEFINE v == Visits(c)
<1>2. /\ c.thinking \in BOOLEAN /\ c.text \in BOOLEAN /\ Len(c.calls) \in Nat /\ c.calls \in Seq(Entry)
      /\ \A n \in 1..Len(c.calls) : c.calls[n].index \in Tools /\ c.calls[n].name \in BOOLEAN
  BY ChunkIs
<1>3. /\ ~ sent.finished
      /\ \A n \in 1..Len(v) : \/ v[n] = IF n = 1 THEN sent.at ELSE v[n - 1]
                              \/ v[n] \notin sent.blocks /\ \A m \in 1..(n - 1) : v[m] # v[n]
  BY DEF GoesOn
<1>4. \A n \in 1..Len(c.calls) :
        LET named == \/ c.calls[n].index \in sent.named
                     \/ \E m \in 1..(n - 1) : c.calls[m].index = c.calls[n].index /\ c.calls[m].name
        IN  IF c.calls[n].name THEN ~ named ELSE c.calls[n].args => named
  BY DEF GoesOn
<1>5. \A b \in Blocks : (sent.at = b => Latest(b)) /\ (b \notin sent.blocks => Fresh(b))
  BY SeenOrFresh
<1>6. sent.blocks = Counted /\ \A t \in Tools : t \in sent.named <=> Told(CallBlock(t))
  BY SeenOrFresh, BlocksAre
<1>7. /\ Thinking \in Blocks /\ Text \in Blocks /\ Thinking # Text
      /\ \A t \in Tools : CallBlock(t) \in Blocks /\ CallBlock(t) # Thinking /\ CallBlock(t) # Text
  BY BlocksAre, BlocksApart
<1> HIDE DEF v
<1>8. /\ ThinkingLeft' = c.thinking /\ TextLeft' = c.text /\ CallsLeft' = c.calls
  BY <1>2 DEF ThinkingLeft, TextLeft, CallsLeft, Converting
<1>9. \A b : Fresh(b)' = Fresh(b) /\ Latest(b)' = Latest(b)
  BY DEF Fresh, Latest
<1>10. Len(v) = k + Len(c.calls)
  BY <1>1 DEF v
<1>11. c.thinking => Fresh(Thinking) \/ Latest(Thinking)
  <2>1. ASSUME c.thinking
        PROVE  Fresh(Thinking) \/ Latest(Thinking)
    <3>1. v[1] = Thinking /\ 1 \in 1..Len(v)
      BY <1>1, <1>2, <1>10, <2>1 DEF v
    <3>2. sent.at = Thinking \/ Thinking \notin sent.blocks
      BY <1>3, <3>1
    <3> QED
      BY <1>5, <1>7, <3>2
  <2> QED
    BY <2>1
<1>12. c.text => Fresh(Text) \/ (Latest(Text) /\ ~ c.thinking)
  <2>1. ASSUME c.text
        PROVE  Fresh(Text) \/ (Latest(Text) /\ ~ c.thinking)
    <3>1. CASE c.thinking
      <4>1. k = 2 /\ v[1] = Thinking /\ v[2] = Text /\ 2 \in 1..Len(v)
        BY <1>1, <1>2, <1>10, <2>1, <3>1 DEF v
      <4>2. Text \notin sent.blocks
        <5>1. \/ v[2] = v[2 - 1]
              \/ v[2] \notin sent.blocks
          BY <1>3, <4>1
        <5> QED
          BY <1>7, <4>1, <5>1
      <4> QED
        BY <1>5, <1>7, <4>2
    <3>2. CASE ~ c.thinking
      <4>1. k = 1 /\ v[1] = Text /\ 1 \in 1..Len(v)
        BY <1>1, <1>2, <1>10, <2>1, <3>2 DEF v
      <4>2. sent.at = Text \/ Text \notin sent.blocks
        BY <1>3, <4>1
      <4> QED
        BY <1>5, <1>7, <3>2, <4>2
    <3> QED
      BY <3>1, <3>2
  <2> QED
    BY <2>1
<1>13. ASSUME NEW n \in 1..Len(c.calls)
       PROVE  LET b == CallBlock(c.calls[n].index)
              IN  IF n = 1 THEN Fresh(b) \/ (Latest(b) /\ ~ c.text /\ ~ c.thinking)
                  ELSE \/ c.calls[n].index = c.calls[n - 1].index
                       \/ Fresh(b) /\ \A m \in 1..(n - 1) : c.calls[m].index # c.calls[n].index
  <2>1. PICK b \in Blocks : b = CallBlock(c.calls[n].index)
    BY <1>2, <1>7
  <2>2. b # Thinking /\ b # Text
    BY <1>2, <1>7, <2>1
  <2>3. v[k + n] = b /\ k + n \in 1..Len(v)
    BY <1>1, <1>2, <1>10, <2>1 DEF v
  <2>4. \/ b = IF k + n = 1 THEN sent.at ELSE v[(k + n) - 1]
        \/ b \notin sent.blocks /\ \A m \in 1..((k + n) - 1) : v[m] # b
    <3>1. PICK i \in 1..Len(v) : i = k + n
      BY <2>3
    <3>2. \/ v[i] = IF i = 1 THEN sent.at ELSE v[i - 1]
          \/ v[i] \notin sent.blocks /\ \A m \in 1..(i - 1) : v[m] # v[i]
      BY <1>3
    <3> QED
      BY <2>3, <3>1, <3>2
  <2>5. CASE n = 1 /\ k = 0
    <3>1. sent.at = b \/ b \notin sent.blocks
      BY <2>4, <2>5
    <3>2. ~ c.text /\ ~ c.thinking
      BY <1>1, <2>5
    <3> QED
      BY <1>5, <2>1, <2>5, <3>1, <3>2
  <2>6. CASE n = 1 /\ k # 0
    <3>1. v[k] \in {Thinking, Text} /\ (k + n) - 1 = k /\ k + n # 1
      <4>1. CASE c.text
        BY <1>1, <2>6, <4>1 DEF v
      <4>2. CASE ~ c.text
        <5>1. k = 1 /\ c.thinking
          BY <1>1, <1>2, <2>6, <4>2
        <5> QED
          BY <1>1, <2>6, <5>1 DEF v
      <4> QED
        BY <4>1, <4>2
    <3>2. b \notin sent.blocks
      BY <2>2, <2>4, <3>1
    <3> QED
      BY <1>5, <2>1, <2>6, <3>2
  <2>7. CASE n # 1
    <3>1. n - 1 \in 1..Len(c.calls) /\ (k + n) - 1 = k + (n - 1) /\ k + n # 1
      BY <1>2, <2>7
    <3>2. v[(k + n) - 1] = CallBlock(c.calls[n - 1].index)
      BY <1>1, <3>1 DEF v
    <3>3. CASE b = v[(k + n) - 1]
      <4>1. c.calls[n].index = c.calls[n - 1].index
        BY <1>2, <2>1, <3>1, <3>2, <3>3, BlocksApart
      <4> QED
        BY <2>7, <4>1
    <3>4. CASE b \notin sent.blocks /\ \A m \in 1..((k + n) - 1) : v[m] # b
      <4>1. ASSUME NEW m \in 1..(n - 1)
            PROVE  c.calls[m].index # c.calls[n].index
        <5>1. m \in 1..Len(c.calls) /\ k + m \in 1..((k + n) - 1)
          BY <1>2
        <5>2. v[k + m] = CallBlock(c.calls[m].index)
          BY <1>1, <5>1 DEF v
        <5> QED
          BY <2>1, <3>4, <5>1, <5>2
      <4> QED
        BY <1>5, <2>1, <2>7, <3>4, <4>1
    <3> QED
      BY <2>4, <3>1, <3>3, <3>4
  <2> QED
    BY <2>5, <2>6, <2>7
<1>14. RestGoesOn'
  BY <1>8, <1>9, <1>11, <1>12, <1>13 DEF RestGoesOn
<1>15. RestNames'
  <2>1. ASSUME NEW n \in 1..Len(c.calls)
        PROVE  IF c.calls[n].name THEN ~ NamedBefore(chunk.calls[n].index, n)'
               ELSE c.calls[n].args => NamedBefore(chunk.calls[n].index, n)'
    <3>1. PICK t \in Tools : t = c.calls[n].index
      BY <1>2
    <3>2. NamedBefore(t, n)' <=> t \in sent.named \/ \E m \in 1..(n - 1) : c.calls[m].index = t /\ c.calls[m].name
      BY <1>6, <1>8 DEF NamedBefore
    <3>3. IF c.calls[n].name THEN ~ NamedBefore(t, n)' ELSE c.calls[n].args => NamedBefore(t, n)'
      BY <1>4, <3>1, <3>2
    <3>4. NamedBefore(chunk.calls[n].index, n)' = NamedBefore(t, n)'
      BY <3>1 DEF NamedBefore
    <3> QED
      BY <3>3, <3>4
  <2>2. ASSUME NEW n \in 1..Len(c.calls)
        PROVE  NamedBefore(CallsLeft[n].index, n)' = NamedBefore(chunk.calls[n].index, n)'
    BY <1>8 DEF NamedBefore
  <2> QED
    BY <1>8, <2>1, <2>2 DEF RestNames
<1>16. SentIs'
  <2>1. Counted' = Counted
    BY DEF Counted
  <2>2. /\ sent'.blocks = sent.blocks \cup {v[n] : n \in 1..Len(v)}
        /\ sent'.at = IF v = <<>> THEN sent.at ELSE v[Len(v)]
        /\ sent'.named = sent.named \cup {c.calls[n].index : n \in {m \in 1..Len(c.calls) : c.calls[m].name}}
    BY DEF SentAfter, v
  <2>3. {v[n] : n \in 1..Len(v)} = {b \in {Thinking} : c.thinking} \cup {b \in {Text} : c.text}
                                  \cup {CallBlock(c.calls[n].index) : n \in 1..Len(c.calls)}
    <3>1. \A n \in 1..Len(c.calls) : k + n \in 1..Len(v) /\ v[k + n] = CallBlock(c.calls[n].index)
      BY <1>1, <1>2, <1>10 DEF v
    <3>2. c.thinking => 1 \in 1..Len(v) /\ v[1] = Thinking
      BY <1>1, <1>2, <1>10 DEF v
    <3>3. c.text => k \in 1..Len(v) /\ v[k] = Text
      BY <1>1, <1>2, <1>10 DEF v
    <3>4. ASSUME NEW i \in 1..Len(v)
          PROVE  \/ c.thinking /\ v[i] = Thinking
                 \/ c.text /\ v[i] = Text
                 \/ \E n \in 1..Len(c.calls) : v[i] = CallBlock(c.calls[n].index)
      <4>1. CASE i > k
        <5>1. i - k \in 1..Len(c.calls) /\ k + (i - k) = i
          BY <1>2, <1>10, <4>1
        <5> QED
          BY <3>1, <5>1
      <4>2. CASE i <= k
        <5>1. (i = 1 /\ c.thinking) \/ (i = k /\ c.text)
          BY <1>1, <1>2, <4>2
        <5> QED
          BY <3>2, <3>3, <5>1
      <4> QED
        BY <1>2, <1>10, <4>1, <4>2
    <3> DEFINE seen == {v[n] : n \in 1..Len(v)}
               calls == {CallBlock(c.calls[n].index) : n \in 1..Len(c.calls)}
               rest == {b \in {Thinking} : c.thinking} \cup {b \in {Text} : c.text} \cup calls
    <3>5. seen \subseteq rest
      BY <3>4
    <3>6. calls \subseteq seen
      BY <3>1
    <3>7. rest \subseteq seen
      BY <3>2, <3>3, <3>6
    <3> QED
      BY <3>5, <3>7
  <2>4. sent'.blocks = Counted' \cup {b \in {Thinking} : ThinkingLeft'} \cup {b \in {Text} : TextLeft'}
                       \cup {CallBlock(CallsLeft'[n].index) : n \in 1..Len(CallsLeft')}
    BY <1>6, <1>8, <2>1, <2>2, <2>3
  <2>5. sent'.named = {t \in Tools : Told(CallBlock(t))'}
                      \cup {CallsLeft'[n].index : n \in {m \in 1..Len(CallsLeft') : CallsLeft'[m].name}}
    <3>1. sent.named = {t \in Tools : Told(CallBlock(t))}
      <4>1. CallsLeft = <<>>
        BY DEF CallsLeft, Converting
      <4> QED
        BY <4>1 DEF SentIs
    <3>2. {t \in Tools : Told(CallBlock(t))'} = {t \in Tools : Told(CallBlock(t))}
      OBVIOUS
    <3> QED
      BY <1>8, <2>2, <3>1, <3>2
  <2>6. v = <<>> <=> Len(v) = 0
    BY <1>1, EmptySeq DEF v
  <2>7. c.calls = <<>> <=> Len(c.calls) = 0
    BY <1>2, EmptySeq
  <2>8. CASE c.calls # <<>>
    <3>1. Len(c.calls) \in 1..Len(c.calls) /\ Len(v) # 0
      BY <1>2, <1>10, <2>7, <2>8
    <3>2. sent'.at = CallBlock(c.calls[Len(c.calls)].index)
      BY <1>1, <1>10, <2>2, <2>6, <3>1 DEF v
    <3> QED
      BY <1>8, <2>4, <2>5, <2>8, <3>2 DEF SentIs
  <2>9. CASE c.calls = <<>> /\ c.text
    <3>1. Len(v) = k /\ k # 0
      BY <1>1, <1>10, <2>7, <2>9
    <3>2. sent'.at = Text
      BY <1>1, <2>2, <2>6, <2>9, <3>1 DEF v
    <3> QED
      BY <1>8, <2>4, <2>5, <2>9, <3>2 DEF SentIs
  <2>10. CASE c.calls = <<>> /\ ~ c.text /\ c.thinking
    <3>1. Len(v) = k /\ k = 1
      BY <1>1, <1>10, <2>7, <2>10
    <3>2. sent'.at = Thinking
      BY <1>1, <2>2, <2>6, <2>10, <3>1 DEF v
    <3> QED
      BY <1>8, <2>4, <2>5, <2>10, <3>2 DEF SentIs
  <2>11. CASE c.calls = <<>> /\ ~ c.text /\ ~ c.thinking
    <3>1. Len(v) = 0
      BY <1>1, <1>10, <2>7, <2>11
    <3>2. sent'.at = sent.at
      BY <2>2, <2>6, <3>1
    <3>3. IF parser.next = 0 THEN sent.at = None ELSE sent.at \in Blocks /\ Latest(sent.at)
      BY DEF SentIs, CallsLeft, TextLeft, ThinkingLeft, Converting
    <3>4. IF parser'.next = 0 THEN sent'.at = None ELSE sent'.at \in Blocks /\ Latest(sent.at)'
      BY <3>2, <3>3 DEF Latest
    <3> QED
      BY <1>8, <2>4, <2>5, <2>11, <3>4 DEF SentIs
  <2> QED
    BY <1>2, <2>8, <2>9, <2>10, <2>11
<1> QED
  BY <1>14, <1>15, <1>16 DEF RestOK

LEMMA ReadChunkKeepsTidy ==
  ASSUME StagesOK, TidyNow, NEW c \in Chunks, ReadChunk(c), ~ strayed'
  PROVE  TidyNow' /\ ClientSees
<1>1. stream \in StreamType /\ parser \in ParserType /\ c \in Chunk
  BY Fields, ChunksAssumption DEF ParserOK
<1>2. /\ pc = "read" /\ pc' = "thinking" /\ chunk' = c /\ sent' = SentAfter(c) /\ GoesOn(c)
      /\ parser' = [parser EXCEPT !.begun = TRUE] /\ proto' = proto
  BY DEF ReadChunk, ReadLine, Goto, svars
<1>3. /\ parser'.number = parser.number /\ parser'.next = parser.next /\ parser'.begun
      /\ parser'.active = parser.active /\ parser'.started = parser.started
  BY <1>1, <1>2 DEF ParserType
<1>4. /\ stream'.phase = IF parser.begun THEN stream.phase ELSE "begun"
      /\ stream'.open = stream.open /\ stream'.closed = stream.closed /\ stream'.parts = stream.parts
  <2> DEFINE phase == IF parser.begun THEN stream.phase ELSE "begun"
  <2>1. stream' = [stream EXCEPT !.phase = phase]
    BY <1>1 DEF ReadChunk, StreamType
  <2> HIDE DEF phase
  <2>2. /\ stream'.phase = phase /\ stream'.open = stream.open /\ stream'.closed = stream.closed
        /\ stream'.parts = stream.parts
    BY <1>1, <2>1 DEF StreamType
  <2> QED
    BY <2>2 DEF phase
<1>5. PhaseIs /\ OpenIs
  BY DEF TidyNow
<1>6. ~ sent.finished
  BY <1>2 DEF GoesOn
<1>7. stream'.phase = "begun" /\ (~ parser.begun => stream.phase = "new")
  BY <1>4, <1>5, <1>6 DEF PhaseIs
<1>8. PhaseIs'
  BY <1>2, <1>3, <1>7 DEF PhaseIs
<1>9. OpenIs'
  BY <1>3, <1>4, <1>5 DEF OpenIs
<1>10. \A b : Told(b)' = Told(b)
  BY <1>3, <1>4 DEF Told
<1>11. ASSUME proto = "anthropic"
       PROVE  ActiveIs' /\ RestOK'
  <2>1. ActiveIs /\ RestOK
    BY <1>11 DEF TidyNow
  <2>2. ~ Over
    BY <1>6 DEF Over
  <2>3. ActiveIs'
    BY <1>3, <1>4, <1>10, <2>1, <2>2 DEF ActiveIs
  <2>4. SentIs
    BY <2>1 DEF RestOK
  <2>5. RestOK'
    BY <1>1, <1>2, <1>3, <1>10, <2>4, RestRead
  <2> QED
    BY <2>3, <2>5
<1>12. ClientSees
  <2>1. CASE parser.begun
    BY <1>4, <2>1 DEF ClientSees
  <2>2. CASE ~ parser.begun
    <3>1. Client!Begin
      BY <1>4, <1>7, <2>2 DEF Client!Begin
    <3> QED
      BY <3>1 DEF Client!Next, ClientSees
  <2> QED
    BY <2>1, <2>2
<1> QED
  BY <1>2, <1>3, <1>5, <1>8, <1>9, <1>11, <1>12 DEF TidyNow

LEMMA TidyInit ==
  ASSUME Init
  PROVE  Tidy
<1>1. /\ pc = "read" /\ chunk = Nothing /\ parser.number = [b \in Blocks |-> None] /\ parser.next = 0
      /\ parser.begun = FALSE /\ parser.active = None /\ parser.started = {}
      /\ stream.phase = "new" /\ stream.open = {} /\ stream.closed = {}
      /\ sent.blocks = {} /\ sent.at = None /\ sent.named = {} /\ sent.finished = FALSE
  BY DEF Init
<1>2. CallsLeft = <<>> /\ ~ ThinkingLeft /\ ~ TextLeft /\ ~ Converting
  BY <1>1 DEF CallsLeft, ThinkingLeft, TextLeft, Converting
<1>3. \A b : ~ Told(b)
  BY <1>1 DEF Told
<1>4. Counted = {}
  BY <1>1 DEF Counted
<1>5. PhaseIs /\ OpenIs /\ ActiveIs
  BY <1>1, <1>2, <1>3 DEF PhaseIs, OpenIs, ActiveIs
<1>6. RestGoesOn /\ RestNames
  BY <1>1, <1>2 DEF RestGoesOn, RestNames
<1>7. SentIs
  BY <1>1, <1>2, <1>3, <1>4 DEF SentIs
<1> QED
  BY <1>1, <1>5, <1>6, <1>7 DEF Tidy, RestOK

\* Every step that does not stray.
LEMMA TidyStep ==
  ASSUME Kept, TidyNow, Next, ~ strayed, ~ strayed'
  PROVE  TidyNow' /\ ClientSees
<1>1. StagesOK /\ ReasonsOK
  BY DEF Kept
<1>2. ASSUME NEW c \in Chunks, ReadChunk(c)
      PROVE  TidyNow' /\ ClientSees
  BY <1>1, <1>2, ReadChunkKeepsTidy
<1>3. CASE (\E a \in Answers : ReadAnswer(a)) \/ AskAgain
  BY <1>1, <1>3, AnswerKeepsTidy
<1>4. CASE ReadDone
  BY <1>1, <1>4, DoneKeepsTidy
<1>5. CASE ConvertThinking \/ ConvertText
  BY <1>1, <1>5, TextKeepsTidy
<1>6. CASE PassLine \/ ConvertExtra \/ PassEntry
  BY <1>1, <1>6, PassKeepsTidy
<1>7. CASE ConvertEntry
  BY <1>1, <1>7, EntryKeepsTidy
<1>8. CASE StartCall
  BY <1>1, <1>8, StartCallKeepsTidy
<1>9. CASE FillCall
  BY <1>1, <1>9, FillCallKeepsTidy
<1>10. CASE ConvertFinish \/ FinishMessage
  BY <1>1, <1>10, EndKeepsTidy
<1> QED
  BY <1>2, <1>3, <1>4, <1>5, <1>6, <1>7, <1>8, <1>9, <1>10 DEF Next, Convert

\* A backend that has gone back stays one that has.
LEMMA StaysStrayed ==
  ASSUME [Next]_vars, strayed
  PROVE  strayed'
<1>1. CASE UNCHANGED vars
  BY <1>1 DEF vars
<1>2. CASE Next
  <2>1. ASSUME NEW c \in Chunks, ReadChunk(c)
        PROVE  strayed'
    BY <2>1 DEF ReadChunk
  <2>2. ASSUME NEW a \in Answers, ReadAnswer(a)
        PROVE  strayed'
    BY <2>2 DEF ReadAnswer
  <2>3. CASE ReadDone \/ AskAgain
    BY <2>3 DEF ReadDone, AskAgain
  <2>4. CASE Convert
    BY <2>4 DEF Convert, ConvertThinking, ConvertText, PassLine, ConvertExtra, ConvertEntry,
                StartCall, FillCall, PassEntry, ConvertFinish, FinishMessage
  <2> QED
    BY <1>2, <2>1, <2>2, <2>3, <2>4 DEF Next
<1> QED
  BY <1>1, <1>2

LEMMA TidySame ==
  ASSUME TidyNow, UNCHANGED vars
  PROVE  TidyNow'
<1>1. /\ proto' = proto /\ pc' = pc /\ chunk' = chunk /\ parser' = parser /\ stream' = stream /\ sent' = sent
  BY DEF vars, svars
<1>2. PhaseIs' = PhaseIs /\ OpenIs' = OpenIs
  BY <1>1 DEF PhaseIs, OpenIs, Converting
<1>3. ActiveIs' = ActiveIs
  BY <1>1 DEF ActiveIs, Over, Told
<1>4. RestOK' = RestOK
  BY <1>1 DEF RestOK, RestGoesOn, RestNames, NamedBefore, SentIs, Counted, ThinkingLeft, TextLeft,
              CallsLeft, Converting, Fresh, Latest, Told
<1> QED
  BY <1>1, <1>2, <1>3, <1>4 DEF TidyNow

LEMMA TidyNext ==
  ASSUME Kept, Tidy, [Next]_vars
  PROVE  Tidy' /\ [strayed' \/ Client!Next]_(Client!bvars)
<1>1. Tidy <=> (~ strayed => TidyNow)
  BY DEF Tidy, TidyNow
<1>2. CASE strayed'
  BY <1>2 DEF Tidy
<1>3. CASE ~ strayed' /\ Next
  <2>1. ~ strayed
    BY <1>3, StaysStrayed
  <2>2. TidyNow' /\ ClientSees
    BY <1>1, <1>3, <2>1, TidyStep
  <2>3. Tidy'
    BY <2>2 DEF Tidy, TidyNow
  <2> QED
    BY <2>2, <2>3 DEF ClientSees, Client!bvars
<1>4. CASE ~ strayed' /\ UNCHANGED vars
  <2>1. ~ strayed
    BY <1>4 DEF vars
  <2>2. TidyNow'
    BY <1>1, <1>4, <2>1, TidySame
  <2>3. Tidy'
    BY <2>2 DEF Tidy, TidyNow
  <2> QED
    BY <1>4, <2>3 DEF vars, Client!bvars
<1> QED
  BY <1>2, <1>3, <1>4

\* The inductive invariant as a whole.
THEOREM Invariance == Spec => []IInv
<1>1. Init => Kept /\ Tidy
  BY StagesInit, SignaturesInitially, ReasonsInit, TidyInit DEF Kept
<1>2. Kept /\ Tidy /\ [Next]_vars => (Kept /\ Tidy)'
  BY StagesNext, SignaturesNext, ReasonsNext, TidyNext DEF Kept
<1>3. Kept /\ Tidy => IInv
  BY DEF Kept, IInv
<1> QED
  BY <1>1, <1>2, <1>3, PTL DEF Spec

\* ProperBlocks: an Anthropic client is sent the events of BlockStream, in an order that it
\* allows, until the backend goes back to a block or on after its end.  Each step of the
\* conversion is a step of BlockStream or one that the client does not see.
THEOREM ProperBlocksShown == Spec => ProperBlocks
<1>1. Init => Client!Init
  BY DEF Init, Client!Init
<1>2. IInv /\ [Next]_vars => [strayed' \/ Client!Next]_(Client!bvars)
  BY TidyNext DEF IInv, Kept
<1> QED
  BY <1>1, <1>2, Invariance, PTL DEF Spec, ProperBlocks
=============================================================================
