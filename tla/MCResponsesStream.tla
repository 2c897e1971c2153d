------------------------- MODULE MCResponsesStream -------------------------
(***************************************************************************)
(* A small instance of ResponsesStream for TLC.                            *)
(***************************************************************************)
EXTENDS ResponsesStream

Call(t, args) == [index |-> t, args |-> args]

\* Entries for one call, for two, for one twice, and with no arguments.
MCCalls == {<<>>, <<Call(0, TRUE)>>, <<Call(1, FALSE)>>,
            <<Call(1, TRUE), Call(0, TRUE)>>, <<Call(0, TRUE), Call(0, TRUE)>>}

MCChunks == [text : BOOLEAN, reasoning : BOOLEAN, calls : MCCalls, finish : BOOLEAN]
=============================================================================
