------------------------- MODULE ThoughtSignatures -------------------------
(***************************************************************************)
(* The cache of thought signatures (internal/gateway/proxy/signature.go):  *)
(* a backend attaches a signature (extra_content) to the calls of tools it *)
(* asks for and wants it back with the next request, but clients do not    *)
(* return it.  The gateway keeps it by the call's ID and attaches it again.*)
(*                                                                         *)
(* The IDs of a stream may come late or never, and the two protocols       *)
(* spell them differently; what the client holds, what the cache knows and *)
(* what the backend is sent back must be one ID.  AnthropicStream drives   *)
(* these actions.                                                          *)
(***************************************************************************)
EXTENDS Naturals, Sequences

CONSTANTS
  Protocols,  \* the protocols clients use, of "anthropic", "openai", "responses"
  MaxTools,   \* bound: calls have indices 0 .. MaxTools - 1
  None

ASSUME ToolsAssumption     == MaxTools \in Nat
ASSUME ProtocolsAssumption == Protocols \subseteq {"anthropic", "openai", "responses"}

Tools == 0..(MaxTools - 1)

\* The name in an ID: one the backend gave a call, one generated for it, or an empty one.
Given(t) == t
Generated(t) == MaxTools + t
Empty == 2 * MaxTools

\* An ID is a name with or without the prefix "toolu_".
Ids == [name : 0..(2 * MaxTools), prefixed : BOOLEAN]

ASSUME NoneAssumption == None \notin Nat /\ None \notin Ids

Prefixed(i) == [i EXCEPT !.prefixed = TRUE]
Trimmed(i)  == [i EXCEPT !.prefixed = FALSE]

\* A signature is known by the call it came with, or came beside the calls (Loose).
Loose == MaxTools
Signatures == 0..MaxTools

\* An entry of tool_calls: the ID it brings, whether a function with a name or with
\* arguments, and whether extra_content.
Entry == [index : Tools, id : {"none", "plain", "prefixed"},
          name : BOOLEAN, args : BOOLEAN, extra : BOOLEAN]

VARIABLES
  proto,      \* the client's protocol
  cache,      \* thoughtSignatureCache
  toolId,     \* tool_id_map of the stream
  last,       \* last_tool_id of the stream
  pending,    \* whether there is a pending_extra_content
  called,     \* the ID under which the client knows a call
  owed,       \* history: the signatures that came for a call when it could be identified
  request     \* the next request to the backend: its calls and its results

svars == <<proto, cache, toolId, last, pending, called, owed, request>>

SignaturesInit ==
  /\ proto \in Protocols
  /\ cache   = [i \in Ids |-> None]
  /\ toolId  = [t \in Tools |-> None]
  /\ last    = None
  /\ pending = FALSE
  /\ called  = [t \in Tools |-> None]
  /\ owed    = [t \in Tools |-> {}]
  /\ request = None

IdOf(e) == [name |-> Given(e.index), prefixed |-> e.id = "prefixed"]

\* CacheThoughtSignature, for an ID that is not empty.
Stored(c, i, sig) == IF i = None THEN c ELSE [c EXCEPT ![i] = sig]

\* Mutant of Lookup: an ID is looked up as it is written.
LookupAsWritten(i) == cache[i]

\* GetThoughtSignature: with the prefix and without.
Lookup(i) ==
  IF cache[i] # None THEN cache[i]
  ELSE IF i.prefixed THEN cache[Trimmed(i)] ELSE cache[Prefixed(i)]

\* Mutant of Identified: an ID that comes later replaces the one the client has.
IdentifiedAnew(e) ==
  IF e.id # "none" THEN Prefixed(IdOf(e)) ELSE toolId[e.index]

\* The ID of an entry's call: the one it has already, or the one that comes with it.
Identified(e) ==
  IF toolId[e.index] # None THEN toolId[e.index]
  ELSE IF e.id # "none" THEN Prefixed(IdOf(e)) ELSE None

\* Mutant of Noted: the signature is stored for the call before.
NotedForLast(e, i) ==
  IF e.extra THEN Stored(cache, last, e.index)
  ELSE IF pending THEN Stored(cache, i, Loose) ELSE cache

\* What the entry brings, or what was brought beside the calls, is stored.
Noted(e, i) ==
  IF e.extra THEN Stored(cache, i, e.index)
  ELSE IF pending THEN Stored(cache, i, Loose) ELSE cache

\* Extra_content beside the calls: for the last call and for those to come.
NoteExtra ==
  /\ pending' = TRUE
  /\ cache' = Stored(cache, last, Loose)
  /\ owed' = [t \in Tools |-> IF last # None /\ toolId[t] = last
                              THEN owed[t] \cup {Loose} ELSE owed[t]]
  /\ UNCHANGED <<proto, toolId, last, called, request>>

\* An entry of tool_calls.  In the Anthropic protocol a call that is named before it
\* has an ID is given one, since the client must be told its ID with its name.
NoteCall(e) ==
  LET t == e.index
      known == Identified(e)
      fresh == proto = "anthropic" /\ e.name /\ known = None
      id == IF fresh THEN [name |-> Generated(t), prefixed |-> TRUE] ELSE known
  IN  /\ toolId' = [toolId EXCEPT ![t] = id]
      /\ last' = IF id = None THEN last ELSE id
      /\ cache' = IF fresh /\ pending THEN Stored(cache, id, Loose) ELSE Noted(e, known)
      /\ owed' = [owed EXCEPT ![t] = @ \cup (IF e.extra /\ known # None THEN {t}
                                             ELSE IF pending /\ id # None THEN {Loose} ELSE {})]
      /\ UNCHANGED <<proto, pending, request>>

\* In the Responses protocol a stream is converted without a look at signatures.
NoteNothing(e) ==
  /\ owed' = [owed EXCEPT ![e.index] = @ \cup {t \in {e.index} : e.extra /\ e.id # "none"}]
  /\ UNCHANGED <<proto, cache, toolId, last, pending, request>>

\* An answer that is not streamed: every call is stored at once, with its own
\* signature or with the one that came beside them.  The Anthropic conversion makes
\* an ID of the prefix alone for a call without one.
NoteAnswer(calls, loose) ==
  LET IdIn(e) == IF e.id # "none" THEN Prefixed(IdOf(e))
                 ELSE [name |-> Empty, prefixed |-> TRUE]
      Entries == {calls[n] : n \in DOMAIN calls}
      Keeps(e) == proto # "responses" /\ (e.extra \/ loose)
                  /\ (e.id # "none" \/ proto = "anthropic")
      StoredBy(i) == {n \in DOMAIN calls : Keeps(calls[n]) /\ IdIn(calls[n]) = i}
      LastOf(S) == CHOOSE n \in S : \A m \in S : m <= n
      Brought(e) == IF e.extra THEN e.index ELSE Loose
  IN  /\ cache' = [i \in Ids |-> IF StoredBy(i) = {} THEN cache[i]
                                 ELSE Brought(calls[LastOf(StoredBy(i))])]
      /\ called' = [t \in Tools |->
           IF \E e \in Entries : e.index = t
           THEN LET e == CHOOSE e \in Entries : e.index = t
                IN  IF proto = "anthropic" THEN IdIn(e)
                    ELSE IF e.id = "none" THEN None ELSE IdOf(e)
           ELSE called[t]]
      /\ owed' = [t \in Tools |-> owed[t] \cup
           {Brought(e) : e \in {d \in Entries : d.index = t /\ d.id # "none" /\ (d.extra \/ loose)}}]
      /\ UNCHANGED <<proto, toolId, last, pending, request>>

\* The calls the client has been asked for.
Asked == {t \in Tools : called[t] # None}

\* The conversion of a request trims the prefix of a call's ID and of a result's.
CallSentAs(i) == IF proto = "anthropic" THEN Trimmed(i) ELSE i

\* Mutant of ResultSentAs: the ID of a result keeps its prefix.
ResultSentAsIs(i) == i

ResultSentAs(i) == IF proto = "anthropic" THEN Trimmed(i) ELSE i

\* The client's next request repeats the calls it was asked for, each with its result;
\* what the cache holds is attached, by the conversion (buildOpenAIMessages) or by
\* injectOpenAIThoughtSignatures.
NextRequest ==
  /\ request = None
  /\ request' = [calls   |-> [t \in Asked |-> [id  |-> CallSentAs(called[t]),
                                              sig |-> Lookup(called[t])]],
                 results |-> {ResultSentAs(called[t]) : t \in Asked}]
  /\ UNCHANGED <<proto, cache, toolId, last, pending, called, owed>>

----------------------------------------------------------------------------
SignaturesTypeOK ==
  /\ proto \in Protocols
  /\ cache \in [Ids -> Signatures \cup {None}]
  /\ toolId \in [Tools -> Ids \cup {None}]
  /\ last \in Ids \cup {None}
  /\ pending \in BOOLEAN
  /\ called \in [Tools -> Ids \cup {None}]
  /\ owed \in [Tools -> SUBSET Signatures]

\* A call goes back with a signature that came for it: its own, unless only one beside the
\* calls came, or that one came for the call as well.
Returned(t) == request.calls[t].sig \in owed[t]
=============================================================================
