---------------------------- MODULE RelayProofs ----------------------------
(***************************************************************************)
(* Proofs about Relay for every set of requests, contexts and protocols,   *)
(* and for every number of events.                                         *)
(***************************************************************************)
EXTENDS Relay, Integers, TLAPS

----------------------------------------------------------------------------
(* The inductive invariant *)

\* Two requests that are served have contexts of their own.
ContextsApart ==
  /\ \A r \in Requests : Serving(r) => context[r] \in Contexts
  /\ \A r, q \in Requests : Serving(r) /\ Serving(q) /\ context[r] = context[q] => r = q

\* Nothing of a stream is there before it starts.
NotStarted(r) ==
  /\ beat[r] = "off" /\ lock[r] = None /\ lines[r] = 0
  /\ ~cancelled[r] /\ ~ticks[r] /\ ~ticking[r]

\* Where the handler and its heartbeat are tells who has their lock.
Disciplined(r) ==
  /\ pc[r] \in {"idle", "dispatch"} => NotStarted(r)
  /\ pc[r] = "open" => lines[r] = 0
  /\ lock[r] = "handler" <=> pc[r] = "sending"
  /\ lock[r] = "heartbeat" <=> beat[r] = "write"
  /\ pc[r] \in {"send", "sending"} => lines[r] > 0
  /\ pc[r] = "done" => ~ticking[r]

\* Nothing is recorded before the end, and a stream that was read is recorded then.
Costs(r) ==
  /\ pc[r] # "done" => charged[r] = 0 /\ logged[r] = 0
  /\ charged[r] <= logged[r]
  /\ pc[r] = "done" /\ lines[r] > 0 => charged[r] = 1

\* The pings a heartbeat can still send after the handler's return.
PingsLeft(r) == (IF beat[r] \in {"tick", "write"} THEN 1 ELSE 0) + (IF ticks[r] THEN 1 ELSE 0)

LateBounded(r) ==
  /\ pc[r] # "done" => late[r] = 0
  /\ pc[r] = "done" => late[r] + PingsLeft(r) <= 2

\* The lines that the client of r has been sent.
SentLines(r) == IF pc[r] \in {"send", "sending"} THEN lines[r] - 1 ELSE lines[r]

\* The event that the last of n lines begins or ends.
EventOf(n) == (n + 1) \div 2

\* A client that was sent n lines has no event beyond them ...
Bounded(c, n) ==
  /\ c.got + (IF c.held = 0 THEN 0 ELSE 1) <= EventOf(n)
  /\ c.held <= EventOf(n)

\* ... and has been given all of them, or holds the last one.
InOrder(c, n, proto) ==
  /\ ~c.broken
  /\ \/ c.held = 0 /\ c.got = EventOf(n)
     \/ /\ n % 2 = 1 /\ proto = "openai"
        /\ c.held = EventOf(n) /\ c.got + 1 = EventOf(n)

Fits(r) ==
  /\ Bounded(client[r], SentLines(r))
  /\ ~strayed[r] => InOrder(client[r], SentLines(r), ProtoOf[r])

IInv ==
  /\ TypeOK
  /\ ContextsApart
  /\ \A r \in Requests : Disciplined(r) /\ Costs(r) /\ LateBounded(r) /\ Fits(r)

----------------------------------------------------------------------------
(* Steps *)

\* Where the handlers are and what contexts they have: a context is given only when
\* nobody has it.
LEMMA ContextsStep == TypeOK /\ ContextsApart /\ [Next]_vars => ContextsApart'
<1> SUFFICES ASSUME TypeOK, ContextsApart, [Next]_vars PROVE ContextsApart'
  OBVIOUS
<1> USE DEF TypeOK, ContextsApart, Serving, Goto
<1>1. ASSUME NEW r \in Requests, Begin(r) PROVE ContextsApart'
  BY <1>1 DEF Begin, HolderOf
<1>2. ASSUME NEW r \in Requests, AnswerError(r) \/ AnswerWhole(r) PROVE ContextsApart'
  BY <1>2 DEF AnswerError, AnswerWhole
<1>3. ASSUME NEW r \in Requests, StartStream(r) \/ OpenBody(r) PROVE ContextsApart'
  BY <1>3 DEF StartStream, OpenBody
<1>4. ASSUME NEW r \in Requests, ReadLine(r) \/ LockLine(r) PROVE ContextsApart'
  BY <1>4 DEF ReadLine, LockLine
<1>5. ASSUME NEW r \in Requests, SendLine(r) \/ EndStream(r) PROVE ContextsApart'
  BY <1>5 DEF SendLine, EndStream
<1>6. ASSUME NEW r \in Requests, ClientLeaves(r) \/ Tick(r) \/ Beats30(r)
      PROVE  ContextsApart'
  BY <1>6 DEF ClientLeaves, Tick, Beats30, BeatEnds, BeatTicks, BeatLocks, BeatWrites
<1>7. CASE UNCHANGED vars
  BY <1>7 DEF vars
<1> QED
  BY <1>1, <1>2, <1>3, <1>4, <1>5, <1>6, <1>7 DEF Next, Handles

\* What a step of r changes, but for clients and contexts, is r's own.
LEMMA DisciplinedStep ==
  TypeOK /\ (\A r \in Requests : Disciplined(r)) /\ [Next]_vars
    => \A r \in Requests : Disciplined(r)'
<1> SUFFICES ASSUME TypeOK, \A r \in Requests : Disciplined(r), [Next]_vars,
                    NEW q \in Requests
             PROVE  Disciplined(q)'
  OBVIOUS
<1> USE NoneAssumption DEF TypeOK, Stages, Beats, Disciplined, NotStarted, Goto
<1>1. ASSUME NEW r \in Requests, Begin(r) PROVE Disciplined(q)'
  BY <1>1 DEF Begin, streamVars
<1>2. ASSUME NEW r \in Requests, AnswerError(r) \/ AnswerWhole(r) PROVE Disciplined(q)'
  BY <1>2 DEF AnswerError, AnswerWhole, streamVars
<1>3. ASSUME NEW r \in Requests, StartStream(r) \/ OpenBody(r) PROVE Disciplined(q)'
  BY <1>3 DEF StartStream, OpenBody, Deferred, StopBeat
<1>4. ASSUME NEW r \in Requests, ReadLine(r) \/ LockLine(r) PROVE Disciplined(q)'
  BY <1>4 DEF ReadLine, LockLine
<1>5. ASSUME NEW r \in Requests, SendLine(r) \/ EndStream(r) PROVE Disciplined(q)'
  BY <1>5 DEF SendLine, EndStream, Deferred, StopBeat
<1>6. ASSUME NEW r \in Requests, ClientLeaves(r) \/ Tick(r) PROVE Disciplined(q)'
  BY <1>6 DEF ClientLeaves, Tick
<1>7. ASSUME NEW r \in Requests, Beats30(r) PROVE Disciplined(q)'
  BY <1>7 DEF Beats30, BeatEnds, BeatTicks, BeatLocks, TakesLock, BeatWrites, streamVars
<1>8. CASE UNCHANGED vars
  BY <1>8 DEF vars
<1> QED
  BY <1>1, <1>2, <1>3, <1>4, <1>5, <1>6, <1>7, <1>8 DEF Next, Handles

\* The costs of a request are recorded when it is done.
LEMMA CostsStep ==
  /\ TypeOK /\ \A r \in Requests : Disciplined(r) /\ Costs(r)
  /\ [Next]_vars
  => \A r \in Requests : /\ Costs(r)'
                         /\ charged'[r] \in 0..1 /\ logged'[r] \in 0..1
<1> SUFFICES ASSUME TypeOK, \A r \in Requests : Disciplined(r) /\ Costs(r), [Next]_vars,
                    NEW q \in Requests
             PROVE  Costs(q)' /\ charged'[q] \in 0..1 /\ logged'[q] \in 0..1
  OBVIOUS
<1> USE DEF TypeOK, Stages, Costs, Goto, costVars
<1>1. ASSUME NEW r \in Requests, Begin(r) PROVE Costs(q)' /\ UNCHANGED costVars
  BY <1>1 DEF Begin, streamVars
<1>2. ASSUME NEW r \in Requests, AnswerError(r) \/ AnswerWhole(r)
      PROVE  Costs(q)' /\ charged'[q] \in 0..1 /\ logged'[q] \in 0..1
  BY <1>2 DEF AnswerError, AnswerWhole, Recorded, streamVars, Disciplined, NotStarted
<1>3. ASSUME NEW r \in Requests, StartStream(r) \/ OpenBody(r)
      PROVE  Costs(q)' /\ UNCHANGED costVars
  BY <1>3 DEF StartStream, OpenBody, Disciplined
<1>4. ASSUME NEW r \in Requests, ReadLine(r) \/ LockLine(r) \/ SendLine(r)
      PROVE  Costs(q)' /\ UNCHANGED costVars
  BY <1>4 DEF ReadLine, LockLine, SendLine
<1>5. ASSUME NEW r \in Requests, EndStream(r)
      PROVE  Costs(q)' /\ charged'[q] \in 0..1 /\ logged'[q] \in 0..1
  BY <1>5 DEF EndStream, Recorded
<1>6. ASSUME NEW r \in Requests, ClientLeaves(r) \/ Tick(r) \/ Beats30(r)
      PROVE  Costs(q)' /\ UNCHANGED costVars
  BY <1>6 DEF ClientLeaves, Tick, Beats30, BeatEnds, BeatTicks, BeatLocks, BeatWrites,
              streamVars
<1>7. CASE UNCHANGED vars
  BY <1>7 DEF vars
<1> QED
  BY <1>1, <1>2, <1>3, <1>4, <1>5, <1>6, <1>7 DEF Next, Handles

\* What a heartbeat can still send never grows once the handler has returned: no tick
\* comes to a ticker that was stopped.
LEMMA LateStep ==
  /\ TypeOK /\ \A r \in Requests : Disciplined(r) /\ LateBounded(r)
  /\ [Next]_vars
  => \A r \in Requests : LateBounded(r)' /\ late'[r] \in Nat
<1> SUFFICES ASSUME TypeOK, \A r \in Requests : Disciplined(r) /\ LateBounded(r),
                    [Next]_vars, NEW q \in Requests
             PROVE  LateBounded(q)' /\ late'[q] \in Nat
  OBVIOUS
<1> USE DEF TypeOK, Stages, Beats, LateBounded, PingsLeft, Disciplined, Goto, history
<1>1. ASSUME NEW r \in Requests, Begin(r) PROVE LateBounded(q)' /\ late' = late
  BY <1>1 DEF Begin, streamVars
<1>2. ASSUME NEW r \in Requests, AnswerError(r) \/ AnswerWhole(r)
      PROVE  LateBounded(q)' /\ late' = late
  BY <1>2 DEF AnswerError, AnswerWhole, streamVars, NotStarted
<1>3. ASSUME NEW r \in Requests, StartStream(r) \/ OpenBody(r)
      PROVE  LateBounded(q)' /\ late' = late
  BY <1>3 DEF StartStream, OpenBody
<1>4. ASSUME NEW r \in Requests, ReadLine(r) \/ LockLine(r) \/ SendLine(r)
      PROVE  LateBounded(q)' /\ late' = late
  BY <1>4 DEF ReadLine, LockLine, SendLine
<1>5. ASSUME NEW r \in Requests, EndStream(r) PROVE LateBounded(q)' /\ late' = late
  BY <1>5 DEF EndStream
<1>6. ASSUME NEW r \in Requests, ClientLeaves(r) \/ Tick(r)
      PROVE  LateBounded(q)' /\ late' = late
  BY <1>6 DEF ClientLeaves, Tick
<1>7. ASSUME NEW r \in Requests, BeatEnds(r) \/ BeatTicks(r) \/ BeatLocks(r)
      PROVE  LateBounded(q)' /\ late' = late
  BY <1>7 DEF BeatEnds, BeatTicks, BeatLocks, streamVars
<1>8. ASSUME NEW r \in Requests, BeatWrites(r)
      PROVE  LateBounded(q)' /\ late'[q] \in Nat
  BY <1>8 DEF BeatWrites
<1>9. CASE UNCHANGED vars
  BY <1>9 DEF vars
<1> QED
  BY <1>1, <1>2, <1>3, <1>4, <1>5, <1>6, <1>7, <1>8, <1>9 DEF Next, Handles, Beats30

----------------------------------------------------------------------------
(* What a client makes of a message *)

Clients == [held : Nat, got : Nat, broken : BOOLEAN]

\* The end of an event: what was held is given on, in its turn or not.
LEMMA EndedFacts ==
  ASSUME NEW c \in Clients
  PROVE  /\ Ended(c) \in Clients /\ Ended(c).held = 0
         /\ Ended(c).got = c.got + (IF c.held = 0 THEN 0 ELSE 1)
         /\ Ended(c).broken <=> c.broken \/ (c.held # 0 /\ c.held # c.got + 1)
<1>1. CASE c.held = 0
  BY <1>1 DEF Ended, Clients
<1>2. CASE c.held # 0
  <2> DEFINE b == c.broken \/ c.held # c.got + 1
  <2>1. b \in BOOLEAN /\ (b <=> c.broken \/ c.held # c.got + 1)
    OBVIOUS
  <2>2. Ended(c) = [held |-> 0, got |-> c.got + 1, broken |-> b]
    BY <1>2 DEF Ended
  <2> HIDE DEF b
  <2> QED
    BY <1>2, <2>1, <2>2 DEF Clients
<1> QED
  BY <1>1, <1>2

\* Two events that come as one break the order, others do not.
LEMMA BrokenFacts ==
  ASSUME NEW c \in Clients, NEW k \in Nat
  PROVE  /\ LET d == [c EXCEPT !.held = k, !.broken = @ \/ c.held # 0]
            IN  d \in Clients /\ d.held = k /\ d.got = c.got
                /\ (d.broken <=> c.broken \/ c.held # 0)
         /\ LET d == [Ended(c) EXCEPT !.broken = @ \/ c.held # 0]
            IN  d \in Clients /\ d.held = 0 /\ d.got = Ended(c).got
                /\ (d.broken <=> Ended(c).broken \/ c.held # 0)
<1>1. LET d == [c EXCEPT !.held = k, !.broken = @ \/ c.held # 0]
      IN  d \in Clients /\ d.held = k /\ d.got = c.got
          /\ (d.broken <=> c.broken \/ c.held # 0)
  <2> DEFINE b == c.broken \/ c.held # 0
  <2>1. b \in BOOLEAN /\ (b <=> c.broken \/ c.held # 0)
    OBVIOUS
  <2>2. [c EXCEPT !.held = k, !.broken = @ \/ c.held # 0] = [c EXCEPT !.held = k, !.broken = b]
    BY DEF Clients
  <2> HIDE DEF b
  <2> QED
    BY <2>1, <2>2 DEF Clients
<1>2. LET d == [Ended(c) EXCEPT !.broken = @ \/ c.held # 0]
      IN  d \in Clients /\ d.held = 0 /\ d.got = Ended(c).got
          /\ (d.broken <=> Ended(c).broken \/ c.held # 0)
  <2> DEFINE b == Ended(c).broken \/ c.held # 0
             e == Ended(c)
  <2>1. b \in BOOLEAN /\ (b <=> e.broken \/ c.held # 0)
    OBVIOUS
  <2>2. [Ended(c) EXCEPT !.broken = @ \/ c.held # 0] = [e EXCEPT !.broken = b]
    BY EndedFacts DEF Clients
  <2>3. e \in Clients /\ e.held = 0
    BY EndedFacts
  <2> HIDE DEF b, e
  <2>4. /\ [e EXCEPT !.broken = b] \in Clients
        /\ [e EXCEPT !.broken = b].held = 0 /\ [e EXCEPT !.broken = b].got = e.got
        /\ [e EXCEPT !.broken = b].broken = b
    BY <2>1, <2>3 DEF Clients
  <2> QED
    BY <2>1, <2>2, <2>4 DEF e
<1> QED
  BY <1>1, <1>2

\* Any ping ends the event that is held; one of the client's own protocol does not break
\* the order.
LEMMA PingKeeps ==
  ASSUME NEW c \in Clients, NEW n \in Nat, NEW r \in Requests, NEW q \in Requests,
         Bounded(c, n)
  PROVE  LET d == Received(c, PingOf(q)) IN
         /\ d \in Clients /\ Bounded(d, n)
         /\ q = r /\ InOrder(c, n, ProtoOf[r]) => InOrder(d, n, ProtoOf[r])
<1>1. ProtoOf[r] \in {"openai", "anthropic"} /\ ProtoOf[q] \in {"openai", "anthropic"}
  BY ProtoAssumption
<1>2. EventOf(n) \in Nat /\ c.held \in Nat /\ c.got \in Nat
  BY DEF EventOf, Clients
<1>3. CASE ProtoOf[q] = "openai"
  <2>1. Received(c, PingOf(q)) = Ended(c)
    BY <1>3 DEF Received, PingOf, Ping
  <2> QED
    BY <1>1, <1>2, <1>3, <2>1, EndedFacts DEF Bounded, InOrder
<1>4. CASE ProtoOf[q] = "anthropic"
  <2>1. Received(c, PingOf(q)) = [Ended(c) EXCEPT !.broken = @ \/ c.held # 0]
    BY <1>4 DEF Received, PingOf, Ping
  <2> DEFINE d == [Ended(c) EXCEPT !.broken = @ \/ c.held # 0]
  <2>2. /\ d \in Clients /\ d.held = 0 /\ d.got = Ended(c).got
        /\ d.broken <=> Ended(c).broken \/ c.held # 0
    BY BrokenFacts
  <2>3. /\ Ended(c).got = c.got + (IF c.held = 0 THEN 0 ELSE 1)
        /\ c.held = 0 => (Ended(c).broken <=> c.broken)
    BY EndedFacts
  <2> HIDE DEF d
  <2>4. Bounded(d, n)
    BY <1>2, <2>2, <2>3 DEF Bounded
  <2>5. q = r /\ InOrder(c, n, ProtoOf[r]) => InOrder(d, n, ProtoOf[r])
    BY <1>2, <1>4, <2>2, <2>3 DEF InOrder
  <2> QED
    BY <2>1, <2>2, <2>4, <2>5 DEF d
<1> QED
  BY <1>1, <1>3, <1>4

\* The n-th line brings a client from n - 1 lines to n.
LEMMA LineFits ==
  ASSUME NEW c \in Clients, NEW n \in Nat \ {0}, NEW r \in Requests,
         Bounded(c, n - 1)
  PROVE  LET d == Received(c, FormatStreamLine(r, n)) IN
         /\ d \in Clients /\ Bounded(d, n)
         /\ InOrder(c, n - 1, ProtoOf[r]) => InOrder(d, n, ProtoOf[r])
<1>1. ProtoOf[r] \in {"openai", "anthropic"}
  BY ProtoAssumption
<1>2. /\ EventOf(n) \in Nat /\ EventOf(n - 1) \in Nat /\ c.held \in Nat /\ c.got \in Nat
      /\ n % 2 = 1 => EventOf(n) = EventOf(n - 1) + 1 /\ (n - 1) % 2 = 0
      /\ n % 2 # 1 => EventOf(n) = EventOf(n - 1)
  BY DEF EventOf, Clients
<1> DEFINE k == EventOf(n)
           begun == [c EXCEPT !.held = k, !.broken = @ \/ c.held # 0]
<1>3. /\ begun \in Clients /\ begun.held = k /\ begun.got = c.got
      /\ (begun.broken <=> c.broken \/ c.held # 0)
  BY <1>2, BrokenFacts
<1>4. CASE n % 2 = 1 /\ ProtoOf[r] = "openai"
  <2>1. Received(c, FormatStreamLine(r, n)) = begun
    BY <1>4 DEF Received, FormatStreamLine, Line, Data, EventOf
  <2> HIDE DEF begun
  <2> QED
    BY <1>2, <1>3, <1>4, <2>1 DEF Bounded, InOrder
<1>5. CASE n % 2 = 1 /\ ProtoOf[r] = "anthropic"
  <2>1. Received(c, FormatStreamLine(r, n)) = Ended(begun)
    BY <1>5 DEF Received, FormatStreamLine, Whole, EventOf
  <2> HIDE DEF begun
  <2>2. /\ Ended(begun) \in Clients /\ Ended(begun).held = 0
        /\ Ended(begun).got = c.got + (IF k = 0 THEN 0 ELSE 1)
        /\ Ended(begun).broken <=> begun.broken \/ (k # 0 /\ k # c.got + 1)
    BY <1>3, EndedFacts
  <2> QED
    BY <1>2, <1>3, <1>5, <2>1, <2>2 DEF Bounded, InOrder
<1>6. CASE n % 2 # 1 /\ ProtoOf[r] = "openai"
  <2>1. Received(c, FormatStreamLine(r, n)) = Ended(c)
    BY <1>6 DEF Received, FormatStreamLine, Line, Blank
  <2> QED
    BY <1>2, <1>6, <2>1, EndedFacts DEF Bounded, InOrder
<1>7. CASE n % 2 # 1 /\ ProtoOf[r] = "anthropic"
  <2>1. Received(c, FormatStreamLine(r, n)) = c
    BY <1>7 DEF Received, FormatStreamLine, Nothing
  <2> QED
    BY <1>2, <1>7, <2>1 DEF Bounded, InOrder
<1> QED
  BY <1>1, <1>4, <1>5, <1>6, <1>7

----------------------------------------------------------------------------
(* Writes *)

\* A handler's line goes to its own client alone; a heartbeat's ping to whoever has the
\* context, and then it is noted as strayed unless that is the request itself.
LEMMA HolderIsSelf ==
  ASSUME ContextsApart, NEW r \in Requests, Serving(r)
  PROVE  HolderOf(context[r]) = {r}
BY DEF ContextsApart, HolderOf

LEMMA FitsStep ==
  /\ TypeOK /\ ContextsApart /\ \A r \in Requests : Disciplined(r) /\ Fits(r)
  /\ [Next]_vars
  => /\ \A r \in Requests : Fits(r)'
     /\ client' \in [Requests -> Reader] /\ strayed' \in [Requests -> BOOLEAN]
     /\ lines' \in [Requests -> 0..(2 * MaxEvents)]
<1> SUFFICES ASSUME TypeOK, ContextsApart, [Next]_vars,
                    \A r \in Requests : Disciplined(r) /\ Fits(r)
             PROVE  /\ \A r \in Requests : Fits(r)'
                    /\ client' \in [Requests -> Reader] /\ strayed' \in [Requests -> BOOLEAN]
                    /\ lines' \in [Requests -> 0..(2 * MaxEvents)]
  OBVIOUS
<1> DEFINE AllFit == /\ \A q \in Requests : Fits(q)'
                     /\ client' \in [Requests -> Clients]
                     /\ strayed' \in [Requests -> BOOLEAN]
                     /\ lines' \in [Requests -> 0..(2 * MaxEvents)]
           SameFor(q) == /\ client'[q] = client[q] /\ strayed'[q] = strayed[q]
                         /\ SentLines(q)' = SentLines(q)
<1>0. /\ client \in [Requests -> Clients] /\ strayed \in [Requests -> BOOLEAN]
      /\ lines \in [Requests -> 0..(2 * MaxEvents)] /\ pc \in [Requests -> Stages]
      /\ \A q \in Requests : SentLines(q) \in Nat
  <2>1. client \in [Requests -> Clients]
    BY BoundAssumption DEF TypeOK, Reader, Clients
  <2>2. \A q \in Requests : SentLines(q) \in Nat
    BY BoundAssumption DEF TypeOK, Disciplined, SentLines
  <2> QED
    BY <2>1, <2>2 DEF TypeOK
<1>1. ASSUME \A q \in Requests : SameFor(q), UNCHANGED <<client, strayed>>,
             lines' \in [Requests -> 0..(2 * MaxEvents)]
      PROVE  AllFit
  BY <1>0, <1>1 DEF Fits
<1>2. ASSUME NEW r \in Requests, Writes(r, PingOf(r)),
             \A q \in Requests : SentLines(q)' = SentLines(q), lines' = lines
      PROVE  AllFit
  <2>1. ASSUME NEW q \in Requests PROVE Fits(q)' /\ client'[q] \in Clients
    <3>1. CASE q \in HolderOf(context[r])
      <4>1. client'[q] = Received(client[q], PingOf(r))
        BY <1>2, <3>1 DEF Writes
      <4>2. ~strayed'[q] => q = r /\ ~strayed[q]
        BY <1>2, <3>1 DEF Writes
      <4> QED
        BY <1>0, <1>2, <4>1, <4>2, PingKeeps DEF Fits
    <3>2. CASE q \notin HolderOf(context[r])
      BY <1>0, <1>2, <3>2 DEF Writes, Fits
    <3> QED
      BY <3>1, <3>2
  <2>2. strayed' \in [Requests -> BOOLEAN] /\ DOMAIN client' = Requests
        /\ client' = [q \in Requests |-> client'[q]]
    BY <1>0, <1>2 DEF Writes
  <2> QED
    BY <1>0, <1>2, <2>1, <2>2
<1>3. ASSUME NEW r \in Requests, SendLine(r) PROVE AllFit
  <2>1. pc[r] = "sending" /\ Serving(r) /\ lines[r] \in Nat \ {0}
    BY <1>0, <1>3, BoundAssumption DEF SendLine, Serving, Disciplined
  <2>2. HolderOf(context[r]) = {r}
    BY <2>1, HolderIsSelf
  <2>3. /\ SentLines(r) = lines[r] - 1 /\ SentLines(r)' = lines[r] /\ lines' = lines
        /\ \A q \in Requests \ {r} : SentLines(q)' = SentLines(q)
    BY <1>0, <1>3, <2>1 DEF SendLine, SentLines, Goto
  <2>4. /\ client' = [client EXCEPT ![r] = Received(@, FormatStreamLine(r, lines[r]))]
        /\ strayed' = strayed
    BY <1>0, <1>3, <2>2 DEF SendLine, Writes
  <2>5. Fits(r)' /\ client'[r] \in Clients
    BY <1>0, <2>1, <2>3, <2>4, LineFits DEF Fits
  <2>6. \A q \in Requests \ {r} : Fits(q)'
    BY <1>0, <2>3, <2>4 DEF Fits
  <2> QED
    BY <1>0, <2>3, <2>4, <2>5, <2>6
<1>4. ASSUME NEW r \in Requests, StartStream(r) PROVE AllFit
  BY <1>0, <1>2, <1>4 DEF StartStream, Goto, SentLines
<1>5. ASSUME NEW r \in Requests, BeatWrites(r) PROVE AllFit
  BY <1>0, <1>2, <1>5 DEF BeatWrites, SentLines
<1>6. ASSUME NEW r \in Requests, ReadLine(r) PROVE AllFit
  <2>1. \A q \in Requests : SentLines(q)' = SentLines(q)
    BY <1>0, <1>6, BoundAssumption DEF ReadLine, SentLines, Goto
  <2>2. lines' \in [Requests -> 0..(2 * MaxEvents)]
    BY <1>0, <1>6, BoundAssumption DEF ReadLine
  <2> QED
    BY <1>1, <1>6, <2>1, <2>2 DEF ReadLine, history
<1>7. ASSUME NEW r \in Requests, LockLine(r) PROVE AllFit
  BY <1>0, <1>1, <1>7 DEF LockLine, SentLines, Goto, history
<1>8. ASSUME NEW r \in Requests,
             Begin(r) \/ AnswerError(r) \/ AnswerWhole(r) \/ OpenBody(r) \/ EndStream(r)
      PROVE  AllFit
  BY <1>0, <1>1, <1>8
     DEF Begin, AnswerError, AnswerWhole, OpenBody, EndStream, SentLines, Goto, history,
         streamVars
<1>9. ASSUME NEW r \in Requests, ClientLeaves(r) \/ Tick(r) PROVE AllFit
  BY <1>0, <1>1, <1>9 DEF ClientLeaves, Tick, SentLines, history
<1>10. ASSUME NEW r \in Requests, BeatEnds(r) \/ BeatTicks(r) \/ BeatLocks(r) PROVE AllFit
  BY <1>0, <1>1, <1>10 DEF BeatEnds, BeatTicks, BeatLocks, SentLines, history, streamVars
<1>11. ASSUME UNCHANGED vars PROVE AllFit
  <2>1. client' = client /\ strayed' = strayed /\ lines' = lines /\ pc' = pc
    BY <1>11 DEF vars
  <2>2. \A q \in Requests : SentLines(q)' = SentLines(q)
    BY <2>1 DEF SentLines
  <2> QED
    BY <1>0, <1>1, <2>1, <2>2
<1> HIDE DEF AllFit
<1>12. AllFit
  BY <1>3, <1>4, <1>5, <1>6, <1>7, <1>8, <1>9, <1>10, <1>11 DEF Next, Handles, Beats30
<1>13. ASSUME NEW q \in Requests PROVE client'[q] \in Reader
  <2>1. lines'[q] \in 0..(2 * MaxEvents) /\ SentLines(q)' <= lines'[q]
    BY <1>12, BoundAssumption DEF AllFit, SentLines
  <2>2. SentLines(q)' \in Int
    BY <2>1, BoundAssumption DEF SentLines
  <2>3. EventOf(SentLines(q)') <= MaxEvents
    BY <2>1, <2>2, BoundAssumption DEF EventOf
  <2>4. client'[q] \in Clients /\ Bounded(client'[q], SentLines(q)')
    BY <1>12 DEF AllFit, Fits
  <2> QED
    BY <2>2, <2>3, <2>4, BoundAssumption DEF Bounded, Reader, Clients, EventOf
<1> QED
  BY <1>12, <1>13 DEF AllFit

----------------------------------------------------------------------------
(* Types *)

\* Where the goroutines are, and what they share.
LEMMA ControlStep ==
  TypeOK /\ [Next]_vars
    => /\ pc'        \in [Requests -> Stages]
       /\ beat'      \in [Requests -> Beats]
       /\ context'   \in [Requests -> Contexts \cup {None}]
       /\ lock'      \in [Requests -> {"handler", "heartbeat", None}]
       /\ cancelled' \in [Requests -> BOOLEAN]
       /\ ticks'     \in [Requests -> BOOLEAN]
       /\ ticking'   \in [Requests -> BOOLEAN]
<1> SUFFICES ASSUME TypeOK, [Next]_vars
             PROVE  /\ pc'        \in [Requests -> Stages]
                    /\ beat'      \in [Requests -> Beats]
                    /\ context'   \in [Requests -> Contexts \cup {None}]
                    /\ lock'      \in [Requests -> {"handler", "heartbeat", None}]
                    /\ cancelled' \in [Requests -> BOOLEAN]
                    /\ ticks'     \in [Requests -> BOOLEAN]
                    /\ ticking'   \in [Requests -> BOOLEAN]
  OBVIOUS
<1> USE DEF TypeOK, Stages, Beats, Goto, streamVars
<1>1. ASSUME NEW r \in Requests, Handles(r) \/ Begin(r)
      PROVE  /\ pc' \in [Requests -> Stages] /\ beat' \in [Requests -> Beats]
             /\ context' \in [Requests -> Contexts \cup {None}]
  BY <1>1 DEF Handles, Begin, AnswerError, AnswerWhole, StartStream, OpenBody, ReadLine,
              LockLine, SendLine, EndStream
<1>2. ASSUME NEW r \in Requests, Handles(r) \/ Begin(r)
      PROVE  /\ lock' \in [Requests -> {"handler", "heartbeat", None}]
             /\ cancelled' \in [Requests -> BOOLEAN] /\ ticks' \in [Requests -> BOOLEAN]
             /\ ticking' \in [Requests -> BOOLEAN]
  BY <1>2 DEF Handles, Begin, AnswerError, AnswerWhole, StartStream, OpenBody, ReadLine,
              LockLine, SendLine, EndStream, Deferred, StopBeat
<1>3. ASSUME NEW r \in Requests, Beats30(r) \/ Tick(r) \/ ClientLeaves(r)
      PROVE  /\ pc' = pc /\ context' = context /\ ticking' = ticking
             /\ beat' \in [Requests -> Beats]
             /\ lock' \in [Requests -> {"handler", "heartbeat", None}]
             /\ cancelled' \in [Requests -> BOOLEAN] /\ ticks' \in [Requests -> BOOLEAN]
  BY <1>3 DEF Beats30, BeatEnds, BeatTicks, BeatLocks, TakesLock, BeatWrites, Tick,
              ClientLeaves
<1>4. CASE UNCHANGED vars
  BY <1>4 DEF vars
<1> QED
  BY <1>1, <1>2, <1>3, <1>4 DEF Next

\* The counters of a request change at that request only.
LEMMA CountersStep ==
  TypeOK /\ [Next]_vars
    => \A f \in {charged', logged', late'} :
         DOMAIN f = Requests /\ f = [r \in Requests |-> f[r]]
<1> SUFFICES ASSUME TypeOK, [Next]_vars
             PROVE  /\ charged' = [r \in Requests |-> charged'[r]]
                    /\ logged'  = [r \in Requests |-> logged'[r]]
                    /\ late'    = [r \in Requests |-> late'[r]]
  OBVIOUS
<1> USE DEF TypeOK, costVars, history
<1>1. ASSUME NEW r \in Requests, Handles(r) \/ Begin(r)
      PROVE  /\ charged' = [q \in Requests |-> charged'[q]]
             /\ logged'  = [q \in Requests |-> logged'[q]]
             /\ late' = late
  BY <1>1 DEF Handles, Begin, AnswerError, AnswerWhole, StartStream, OpenBody, ReadLine,
              LockLine, SendLine, EndStream, Recorded
<1>2. ASSUME NEW r \in Requests, Beats30(r) \/ Tick(r) \/ ClientLeaves(r)
      PROVE  /\ UNCHANGED costVars /\ late' = [q \in Requests |-> late'[q]]
  BY <1>2 DEF Beats30, BeatEnds, BeatTicks, BeatLocks, BeatWrites, Tick, ClientLeaves
<1>3. CASE UNCHANGED vars
  BY <1>3 DEF vars
<1> QED
  BY <1>1, <1>2, <1>3 DEF Next

----------------------------------------------------------------------------
(* The invariant *)

LEMMA InitIInv == Init => IInv
<1> SUFFICES ASSUME Init PROVE IInv
  OBVIOUS
<1>1. TypeOK
  BY BoundAssumption DEF Init, TypeOK, Stages, Beats, Reader
<1>2. ContextsApart
  BY DEF Init, ContextsApart, Serving
<1>3. ASSUME NEW r \in Requests PROVE Disciplined(r) /\ Costs(r) /\ LateBounded(r)
  BY <1>3, NoneAssumption DEF Init, Disciplined, NotStarted, Costs, LateBounded
<1>4. ASSUME NEW r \in Requests PROVE Fits(r)
  BY <1>4 DEF Init, Fits, SentLines, Bounded, InOrder, EventOf
<1> QED
  BY <1>1, <1>2, <1>3, <1>4 DEF IInv

LEMMA NextIInv == IInv /\ [Next]_vars => IInv'
<1> SUFFICES ASSUME IInv, [Next]_vars PROVE IInv'
  OBVIOUS
<1>1. /\ TypeOK /\ ContextsApart
      /\ \A r \in Requests : Disciplined(r) /\ Costs(r) /\ LateBounded(r) /\ Fits(r)
  BY DEF IInv
<1>2. ContextsApart' /\ \A r \in Requests : Disciplined(r)'
  BY <1>1, ContextsStep, DisciplinedStep
<1>3. \A r \in Requests : Costs(r)' /\ charged'[r] \in 0..1 /\ logged'[r] \in 0..1
  BY <1>1, CostsStep
<1>4. \A r \in Requests : LateBounded(r)' /\ late'[r] \in Nat
  BY <1>1, LateStep
<1>5. /\ \A r \in Requests : Fits(r)'
      /\ client' \in [Requests -> Reader] /\ strayed' \in [Requests -> BOOLEAN]
      /\ lines' \in [Requests -> 0..(2 * MaxEvents)]
  BY <1>1, FitsStep
<1>6. /\ charged' \in [Requests -> 0..1] /\ logged' \in [Requests -> 0..1]
      /\ late' \in [Requests -> Nat]
  BY <1>1, <1>3, <1>4, CountersStep
<1>7. TypeOK'
  BY <1>1, <1>5, <1>6, ControlStep DEF TypeOK
<1> QED
  BY <1>2, <1>3, <1>4, <1>5, <1>7 DEF IInv

\* The relay never leaves the states that the invariant describes (dispatchResponse and the
\* handlers it chooses, beside their heartbeats).
THEOREM Invariance == Spec => []IInv
BY InitIInv, NextIInv, PTL DEF Spec

\* The handler, its heartbeat, the mutex they share and what the client was given keep their
\* types, whichever request has a context (handleStreamResponse, writeMu).
THEOREM TypeCorrect == Spec => []TypeOK
<1>1. IInv => TypeOK
  BY DEF IInv
<1> QED
  BY <1>1, Invariance, PTL

\* However many pings come between the lines that handleStreamResponse passes on, and in
\* whichever order the two goroutines get writeMu, the client's reader is given the
\* backend's events whole, each once and in their order, as long as no heartbeat of
\* another request has its context.
THEOREM ClientsGetEvents == Spec => []EventsIntact
<1>1. IInv => EventsIntact
  <2> SUFFICES ASSUME IInv, NEW r \in Requests, ~strayed[r]
               PROVE  /\ ~client[r].broken
                      /\ client[r].got \in {SentLines(r) \div 2, (SentLines(r) + 1) \div 2}
    BY DEF EventsIntact, SentLines
  <2>1. InOrder(client[r], SentLines(r), ProtoOf[r])
    BY DEF IInv, Fits
  <2>2. SentLines(r) \in Nat /\ client[r].got \in Nat
    BY BoundAssumption DEF IInv, TypeOK, Disciplined, SentLines, Reader
  <2> HIDE DEF IInv
  <2>3. SentLines(r) % 2 = 1 => (SentLines(r) + 1) \div 2 = SentLines(r) \div 2 + 1
    BY <2>2
  <2> QED
    BY <2>1, <2>2, <2>3 DEF InOrder, EventOf
<1> QED
  BY <1>1, Invariance, PTL

\* However a stream ends (its body, an error, the client's leaving), the deferred
\* RecordUsage counts it once; no answer is counted twice, and none without being logged.
THEOREM RequestsCountedOnce == Spec => []CountedOnce
<1>1. IInv => CountedOnce
  <2> SUFFICES ASSUME IInv, NEW r \in Requests
               PROVE  /\ charged[r] <= 1 /\ logged[r] <= 1 /\ charged[r] <= logged[r]
                      /\ pc[r] = "done" /\ lines[r] > 0 => charged[r] = 1
    BY DEF CountedOnce
  <2>1. charged[r] \in 0..1 /\ logged[r] \in 0..1 /\ Costs(r)
    BY DEF IInv, TypeOK
  <2> QED
    BY <2>1 DEF Costs
<1> QED
  BY <1>1, Invariance, PTL

\* The heartbeat that outlives its handler writes twice at most: ticker.Stop leaves one tick
\* in the channel, and the goroutine may hold another.
THEOREM HeartbeatsStop == Spec => []FewLatePings
<1>1. IInv => FewLatePings
  <2> SUFFICES ASSUME IInv, NEW r \in Requests PROVE late[r] <= 2
    BY DEF FewLatePings
  <2>1. late[r] \in Nat /\ pc[r] \in Stages /\ LateBounded(r) /\ PingsLeft(r) \in Nat
    BY DEF IInv, TypeOK, PingsLeft
  <2> QED
    BY <2>1 DEF LateBounded, Stages
<1> QED
  BY <1>1, Invariance, PTL
=============================================================================
