------------------------------- MODULE Relay -------------------------------
(***************************************************************************)
(* The last part of a proxied request (dispatchResponse of                 *)
(* internal/gateway/proxy/proxy.go and the handlers it chooses): the       *)
(* backend's answer goes to the client, whole or line by line, beside a    *)
(* goroutine that sends a ping every thirty seconds, and what it cost is   *)
(* recorded.                                                               *)
(*                                                                         *)
(* The handler and its heartbeat share the writer of a gin context under a *)
(* mutex of their own.  When the handler returns, gin gives the context to *)
(* another request; the heartbeat still has the pointer.                   *)
(***************************************************************************)
EXTENDS Naturals

CONSTANTS
  Requests,   \* requests
  Contexts,   \* gin contexts, as many as were needed at the same time
  ProtoOf,    \* the protocol of each request
  None,       \* nothing
  MaxEvents   \* bound: events that a backend sends

ASSUME ProtoAssumption == ProtoOf \in [Requests -> {"openai", "anthropic"}]
ASSUME BoundAssumption == MaxEvents \in Nat
ASSUME NoneAssumption  == None \notin {"handler", "heartbeat"}

VARIABLES
  pc,         \* where the handler of each request is
  beat,       \* where its heartbeat goroutine is
  context,    \* the context that each request uses, or used last
  lock,       \* writeMu of each request: who holds it, or None
  cancelled,  \* the stream's ctx is done
  ticks,      \* a tick waits in ticker.C
  ticking,    \* the ticker was not stopped
  lines,      \* lines that were read from the backend
  client,     \* what each client made of what it received
  charged,    \* times the request was counted against the quota
  logged,     \* times it was written to the user's log
  late,       \* history: pings written after the handler returned
  strayed     \* history: a ping of another request came into the response

vars == <<pc, beat, context, lock, cancelled, ticks, ticking, lines, client,
          charged, logged, late, strayed>>

streamVars == <<lock, cancelled, ticks, ticking, lines>>
costVars   == <<charged, logged>>
history    == <<late, strayed>>

Stages == {"idle", "dispatch", "open", "read", "send", "sending", "close", "done"}
Beats  == {"off", "select", "tick", "write", "gone"}

\* A client's reader of events: the data lines it holds, the events it was given,
\* and whether two events ever came as one.
Reader == [held : 0..MaxEvents, got : 0..MaxEvents, broken : BOOLEAN]

TypeOK ==
  /\ pc        \in [Requests -> Stages]
  /\ beat      \in [Requests -> Beats]
  /\ context   \in [Requests -> Contexts \cup {None}]
  /\ lock      \in [Requests -> {"handler", "heartbeat", None}]
  /\ cancelled \in [Requests -> BOOLEAN]
  /\ ticks     \in [Requests -> BOOLEAN]
  /\ ticking   \in [Requests -> BOOLEAN]
  /\ lines     \in [Requests -> 0..(2 * MaxEvents)]
  /\ client    \in [Requests -> Reader]
  /\ charged   \in [Requests -> 0..1]
  /\ logged    \in [Requests -> 0..1]
  /\ late      \in [Requests -> Nat]
  /\ strayed   \in [Requests -> BOOLEAN]

Init ==
  /\ pc        = [r \in Requests |-> "idle"]
  /\ beat      = [r \in Requests |-> "off"]
  /\ context   = [r \in Requests |-> None]
  /\ lock      = [r \in Requests |-> None]
  /\ cancelled = [r \in Requests |-> FALSE]
  /\ ticks     = [r \in Requests |-> FALSE]
  /\ ticking   = [r \in Requests |-> FALSE]
  /\ lines     = [r \in Requests |-> 0]
  /\ client    = [r \in Requests |-> [held |-> 0, got |-> 0, broken |-> FALSE]]
  /\ charged   = [r \in Requests |-> 0]
  /\ logged    = [r \in Requests |-> 0]
  /\ late      = [r \in Requests |-> 0]
  /\ strayed   = [r \in Requests |-> FALSE]

----------------------------------------------------------------------------
(* What is written.  A line of the backend is the data of an event or the blank
   one that ends it; FormatStreamLine passes both on for the OpenAI protocol, and
   makes a whole event of the data for the others. *)

Data(n)  == [kind |-> "data",  event |-> n]
Whole(n) == [kind |-> "whole", event |-> n]
Blank    == [kind |-> "blank", event |-> 0]
Nothing  == [kind |-> "none",  event |-> 0]
Ping(p)  == [kind |-> p,       event |-> 0]

Line(n) == IF n % 2 = 1 THEN Data((n + 1) \div 2) ELSE Blank

FormatStreamLine(r, n) ==
  IF ProtoOf[r] = "openai" THEN Line(n)
  ELSE IF n % 2 = 1 THEN Whole((n + 1) \div 2) ELSE Nothing

\* PingMessage: an event of the protocol's own, or a comment and a blank line.
EventForAll(r) == Ping("pingevent")
PingOf(r)      == Ping(IF ProtoOf[r] = "openai" THEN "comment" ELSE "pingevent")

\* The client's reader.  A blank line, the comment's too, ends the event held.
Ended(c) == IF c.held = 0 THEN c
            ELSE [held |-> 0, got |-> c.got + 1, broken |-> c.broken \/ c.held # c.got + 1]

Received(c, x) ==
  CASE x.kind = "data"      -> [c EXCEPT !.held = x.event, !.broken = @ \/ c.held # 0]
    [] x.kind = "whole"     -> Ended([c EXCEPT !.held = x.event, !.broken = @ \/ c.held # 0])
    [] x.kind = "pingevent" -> [Ended(c) EXCEPT !.broken = @ \/ c.held # 0]
    [] x.kind = "none"      -> c
    [] OTHER                -> Ended(c)

\* Who has a context now.  c.Writer is looked up in the context at each write.
Serving(r)    == pc[r] \notin {"idle", "done"}
HolderOf(ctx) == {r \in Requests : Serving(r) /\ context[r] = ctx}

\* Written by the goroutines of r: for the client of whoever has the context.
Writes(r, x) ==
  /\ client' = [q \in Requests |->
       IF q \in HolderOf(context[r]) THEN Received(client[q], x) ELSE client[q]]
  /\ strayed' = [q \in Requests |-> strayed[q] \/ (q # r /\ q \in HolderOf(context[r]))]

Goto(r, stage) == pc' = [pc EXCEPT ![r] = stage]

----------------------------------------------------------------------------
(* The handler *)

\* The backend has answered the request, on a context that nobody has.
Begin(r) ==
  /\ pc[r] = "idle"
  /\ \E ctx \in Contexts : HolderOf(ctx) = {} /\ context' = [context EXCEPT ![r] = ctx]
  /\ Goto(r, "dispatch")
  /\ UNCHANGED <<beat, streamVars, client, costVars, history>>

\* RecordUsage, when the client is still there only.
RecordedIfServed(r) ==
  IF cancelled[r] THEN UNCHANGED costVars
  ELSE charged' = [charged EXCEPT ![r] = @ + 1] /\ logged' = [logged EXCEPT ![r] = @ + 1]

Recorded(r) ==
  charged' = [charged EXCEPT ![r] = @ + 1] /\ logged' = [logged EXCEPT ![r] = @ + 1]

\* handleErrorResponse, and handleNormalResponse when the body cannot be read: the
\* log has it, the quota not.
AnswerError(r) ==
  /\ pc[r] = "dispatch"
  /\ logged' = [logged EXCEPT ![r] = @ + 1]
  /\ Goto(r, "done")
  /\ UNCHANGED <<beat, context, streamVars, client, charged, history>>

\* handleNormalResponse: RecordUsage, unless the answer cannot be converted.
AnswerWhole(r) ==
  /\ pc[r] = "dispatch"
  /\ Recorded(r) \/ UNCHANGED costVars
  /\ Goto(r, "done")
  /\ UNCHANGED <<beat, context, streamVars, client, history>>

\* handleStreamResponse: the first ping, then the ticker and the heartbeat.
StartStream(r) ==
  /\ pc[r] = "dispatch"
  /\ Writes(r, PingOf(r))
  /\ beat'    = [beat EXCEPT ![r] = "select"]
  /\ ticking' = [ticking EXCEPT ![r] = TRUE]
  /\ Goto(r, "open")
  /\ UNCHANGED <<context, lock, cancelled, ticks, lines, costVars, late>>

\* An answer that is said to be compressed and is not ends here: what was deferred
\* runs, and the record of the usage is not yet among it.
StopBeat(r) ==
  /\ ticking'   = [ticking EXCEPT ![r] = FALSE]
  /\ cancelled' = [cancelled EXCEPT ![r] = TRUE]

\* Without ticker.Stop, and without cancel.
LeaveTicker(r) ==
  /\ cancelled' = [cancelled EXCEPT ![r] = TRUE]
  /\ UNCHANGED ticking

LeaveContext(r) ==
  /\ ticking' = [ticking EXCEPT ![r] = FALSE]
  /\ UNCHANGED cancelled

Deferred(r) == StopBeat(r)

OpenBody(r) ==
  /\ pc[r] = "open"
  /\ \/ Goto(r, "read") /\ UNCHANGED <<cancelled, ticking>>
     \/ Deferred(r) /\ Goto(r, "done")
  /\ UNCHANGED <<beat, context, lock, ticks, lines, client, costVars, history>>

\* The loop: ctx.Done is looked at, then a line is read, or the end of the body, or an
\* error: the client's Timeout ends a read in any case.  A last line without an end
\* is dropped.
ReadLine(r) ==
  /\ pc[r] = "read"
  /\ \/ cancelled[r] /\ Goto(r, "close") /\ UNCHANGED lines
     \/ /\ ~cancelled[r] /\ lines[r] < 2 * MaxEvents
        /\ lines' = [lines EXCEPT ![r] = @ + 1]
        /\ Goto(r, "send")
     \/ ~cancelled[r] /\ Goto(r, "close") /\ UNCHANGED lines
  /\ UNCHANGED <<beat, context, lock, cancelled, ticks, ticking, client, costVars, history>>

LockLine(r) ==
  /\ pc[r] = "send" /\ lock[r] = None
  /\ lock' = [lock EXCEPT ![r] = "handler"]
  /\ Goto(r, "sending")
  /\ UNCHANGED <<beat, context, cancelled, ticks, ticking, lines, client, costVars, history>>

SendLine(r) ==
  /\ pc[r] = "sending"
  /\ Writes(r, FormatStreamLine(r, lines[r]))
  /\ lock' = [lock EXCEPT ![r] = None]
  /\ Goto(r, "read")
  /\ UNCHANGED <<beat, context, cancelled, ticks, ticking, lines, costVars, late>>

\* RecordUsage, ticker.Stop and cancel, all deferred; the context is free again.
EndStream(r) ==
  /\ pc[r] = "close"
  /\ Recorded(r)
  /\ Deferred(r)
  /\ Goto(r, "done")
  /\ UNCHANGED <<beat, context, lock, ticks, lines, client, history>>

\* The client goes: the request's context is done, and ctx with it.
ClientLeaves(r) ==
  /\ pc[r] \in {"open", "read", "send", "sending"} /\ ~cancelled[r]
  /\ cancelled' = [cancelled EXCEPT ![r] = TRUE]
  /\ UNCHANGED <<pc, beat, context, lock, ticks, ticking, lines, client, costVars, history>>

----------------------------------------------------------------------------
(* The heartbeat *)

\* Thirty seconds; the channel holds one tick.
Tick(r) ==
  /\ ticking[r] /\ ~ticks[r] /\ beat[r] # "gone"
  /\ ticks' = [ticks EXCEPT ![r] = TRUE]
  /\ UNCHANGED <<pc, beat, context, lock, cancelled, ticking, lines, client, costVars, history>>

\* select: with both ready, either.
BeatEnds(r) ==
  /\ beat[r] = "select" /\ cancelled[r]
  /\ beat' = [beat EXCEPT ![r] = "gone"]
  /\ UNCHANGED <<pc, context, streamVars, client, costVars, history>>

BeatTicks(r) ==
  /\ beat[r] = "select" /\ ticks[r]
  /\ ticks' = [ticks EXCEPT ![r] = FALSE]
  /\ beat'  = [beat EXCEPT ![r] = "tick"]
  /\ UNCHANGED <<pc, context, lock, cancelled, ticking, lines, client, costVars, history>>

\* The heartbeat that takes the writer without its lock.
TakesNoLock(r) == UNCHANGED lock

TakesLock(r) == lock[r] = None /\ lock' = [lock EXCEPT ![r] = "heartbeat"]

BeatLocks(r) ==
  /\ beat[r] = "tick"
  /\ TakesLock(r)
  /\ beat' = [beat EXCEPT ![r] = "write"]
  /\ UNCHANGED <<pc, context, cancelled, ticks, ticking, lines, client, costVars, history>>

BeatWrites(r) ==
  /\ beat[r] = "write"
  /\ Writes(r, PingOf(r))
  /\ late' = IF pc[r] = "done" THEN [late EXCEPT ![r] = @ + 1] ELSE late
  /\ lock' = [lock EXCEPT ![r] = IF @ = "heartbeat" THEN None ELSE @]
  /\ beat' = [beat EXCEPT ![r] = "select"]
  /\ UNCHANGED <<pc, context, cancelled, ticks, ticking, lines, costVars>>

----------------------------------------------------------------------------
Handles(r) ==
  \/ AnswerError(r) \/ AnswerWhole(r) \/ StartStream(r) \/ OpenBody(r)
  \/ ReadLine(r)    \/ LockLine(r)    \/ SendLine(r)    \/ EndStream(r)

Beats30(r) == BeatEnds(r) \/ BeatTicks(r) \/ BeatLocks(r) \/ BeatWrites(r)

Next == \E r \in Requests : Begin(r) \/ Handles(r) \/ Beats30(r) \/ Tick(r) \/ ClientLeaves(r)

\* A goroutine that can go on does: a read ends after Timeout at the latest, and a
\* mutex of Go starves nobody.
Fairness == \A r \in Requests : WF_vars(Handles(r)) /\ SF_vars(LockLine(r))
                                /\ WF_vars(Beats30(r)) /\ SF_vars(BeatLocks(r))

Spec == Init /\ [][Next]_vars /\ Fairness

----------------------------------------------------------------------------
(* Properties *)

\* A client gets the backend's events whole and in their order up to some line,
\* wherever the pings came in between, unless one of another request's came.
EventsIntact ==
  \A r \in Requests : ~strayed[r] =>
    LET sent == IF pc[r] = "send" \/ pc[r] = "sending" THEN lines[r] - 1 ELSE lines[r]
    IN  ~client[r].broken /\ client[r].got \in {sent \div 2, (sent + 1) \div 2}

\* A stream is counted once, however it ends, when its body could be opened; nothing
\* else is counted twice (the deferred function of handleStreamResponse).
CountedOnce ==
  \A r \in Requests :
    /\ charged[r] <= 1 /\ logged[r] <= 1 /\ charged[r] <= logged[r]
    /\ pc[r] = "done" /\ lines[r] > 0 => charged[r] = 1

\* After the handler has returned, its heartbeat writes two pings at most: the one that
\* was under way, and the tick that the channel held when the ticker was stopped.
FewLatePings == \A r \in Requests : late[r] <= 2

\* Every handler returns and every heartbeat ends, whatever the client does.
RelayEnds == \A r \in Requests : pc[r] = "dispatch" ~> (pc[r] = "done" /\ beat[r] \in {"off", "gone"})

\* The comment on writeMu: the mutex protects the writes to c.Writer.  It does not, once
\* the context has another request.
WriterProtected ==
  \A r, q \in Requests : r # q /\ context[r] = context[q] =>
    ~(beat[r] = "write" /\ (pc[q] = "sending" \/ beat[q] = "write"))
=============================================================================
