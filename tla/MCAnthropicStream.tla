------------------------- MODULE MCAnthropicStream -------------------------
(***************************************************************************)
(* Small instances of AnthropicStream for TLC.                             *)
(***************************************************************************)
EXTENDS AnthropicStream

E(t, id, name, args, extra) ==
  [index |-> t, id |-> id, name |-> name, args |-> args, extra |-> extra]

\* A whole call; a call whose ID, name, arguments and signature come in any order.
MCEntries ==
  {E(0, "plain", TRUE, TRUE, FALSE), E(0, "plain", FALSE, FALSE, FALSE),
   E(0, "none", TRUE, FALSE, FALSE), E(0, "none", FALSE, TRUE, FALSE),
   E(0, "none", FALSE, FALSE, TRUE), E(1, "prefixed", TRUE, TRUE, TRUE)}

MCCalls == {<<>>} \cup {<<e>> : e \in MCEntries}
           \cup {<<E(0, "plain", TRUE, FALSE, TRUE), E(1, "plain", TRUE, TRUE, FALSE)>>}

C(thinking, text, extra, calls, finish) ==
  [thinking |-> thinking, text |-> text, extra |-> extra, calls |-> calls, finish |-> finish]

MCChunks ==
  {C(FALSE, FALSE, x, cs, "none") : x \in BOOLEAN, cs \in MCCalls \ {<<>>}}
  \cup {C(th, TRUE, FALSE, <<>>, "none") : th \in BOOLEAN}
  \cup {C(TRUE, FALSE, FALSE, <<>>, "none"), C(FALSE, FALSE, TRUE, <<>>, "none"),
        C(FALSE, TRUE, FALSE, <<E(0, "plain", TRUE, TRUE, FALSE)>>, "stop"),
        C(FALSE, FALSE, FALSE, <<E(1, "none", FALSE, TRUE, FALSE)>>, "length"),
        C(FALSE, FALSE, FALSE, <<>>, "stop"), C(FALSE, FALSE, FALSE, <<>>, "tool_calls")}

MCAnswers ==
  [calls : {<<>>, <<E(0, "plain", TRUE, TRUE, TRUE)>>,
            <<E(0, "none", TRUE, TRUE, TRUE), E(1, "none", TRUE, TRUE, FALSE)>>,
            <<E(0, "prefixed", TRUE, TRUE, FALSE), E(1, "plain", TRUE, TRUE, TRUE)>>},
   extra : BOOLEAN, finish : Finish]
=============================================================================
