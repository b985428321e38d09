---------------------------- MODULE MCStreaming -----------------------------
(***************************************************************************)
(* Refused, structured and provider-driven streams: each policy, with and  *)
(* without a schema, with two repairs, none, and a negative number of      *)
(* them; two tool calls whose fragments come mixed, named late or without  *)
(* arguments, numbered by OpenAI and not by Gemini, whose events have them *)
(* in either of their two shapes.                                          *)
(***************************************************************************)
EXTENDS Streaming

CONSTANTS c0, c1

MCCalls == {c0, c1}

MCRepairs == {-1, 0, 2}

OpenAI(role, text, calls, finish) ==
  [delta |-> TRUE, role |-> role, text |-> text, calls |-> calls, finish |-> finish]

Of0(named, args) == [of |-> c0, index |-> 0, named |-> named, args |-> args]
Of1(named, args) == [of |-> c1, index |-> 1, named |-> named, args |-> args]
Unnumbered(c, args) == [of |-> c, index |-> NoIndex, named |-> TRUE, args |-> args]

MCOpenAIEvents ==
  {OpenAI(TRUE, FALSE, << >>, FALSE), OpenAI(FALSE, TRUE, << >>, TRUE),
   OpenAI(FALSE, FALSE, << >>, TRUE),
   OpenAI(FALSE, FALSE, << Of0(TRUE, FALSE), Of1(TRUE, TRUE) >>, FALSE),
   [OpenAI(FALSE, FALSE, << >>, TRUE) EXCEPT !.delta = FALSE]}
  \cup {OpenAI(FALSE, FALSE, << f >>, FALSE) :
          f \in {Of0(TRUE, TRUE), Of0(FALSE, TRUE), Of1(TRUE, FALSE), Of1(FALSE, TRUE)}}

Gemini(role, text, calls, inner, parts, finish) ==
  [role |-> role, text |-> text, calls |-> calls, inner |-> inner, parts |-> parts,
   finish |-> finish]

Part(text, c) == [text |-> text, calls |-> << Unnumbered(c, TRUE) >>]

MCGeminiEvents ==
  {Gemini(TRUE, TRUE, << >>, FALSE, << >>, FALSE),
   Gemini(FALSE, FALSE, << Unnumbered(c0, FALSE), Unnumbered(c1, TRUE) >>, FALSE, << >>, FALSE),
   Gemini(FALSE, FALSE, << >>, TRUE, << Part(FALSE, c0), Part(FALSE, c1) >>, FALSE),
   Gemini(TRUE, FALSE, << >>, TRUE, << Part(TRUE, c1) >>, FALSE),
   Gemini(FALSE, FALSE, << >>, FALSE, << >>, TRUE)}

=============================================================================
