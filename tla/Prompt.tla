------------------------------- MODULE Prompt --------------------------------
(***************************************************************************)
(* What a provider sends of the transcript: the history window of the      *)
(* agent, in the provider's wire format.  A request is a function of the   *)
(* positions of the transcript it covers.  The system message in front of  *)
(* the window, and the text of all of them, are left out.  The input, the  *)
(* first of the transcript here, stands for as many of its messages as the *)
(* window has room for: none of them is between two messages of the run.   *)
(***************************************************************************)
EXTENDS Transcript, FiniteSetsExt

\* The position of the assistant message whose calls a tool message is about.
AskedAt(msgs, p) == Max({q \in 1 .. p - 1 : IsAssistant(msgs[q])})

\* Variant: the window is a message short.
WindowStartLate(msgs, n) == IF Len(msgs) <= n THEN 1 ELSE Len(msgs) - n + 2

\* window_messages keeps the last n messages, whatever they are.
WindowStart(msgs, n) == IF Len(msgs) <= n THEN 1 ELSE Len(msgs) - n + 1

\* OpenAI gives a call an id, here the position of the message and of the call
\* in it; a call of Gemini has none.
CallIds(provider, q, i) == IF provider = "gemini" THEN {} ELSE {<< q, i >>}

\* tool_call_id of a tool message: copied from the call it answers.
ToolCallId(provider, msgs, p) ==
  LET q == AskedAt(msgs, p) IN CallIds(provider, q, p - q)

(***************************************************************************)
(* To OpenAI go the role and the tool_call_id of a message, and not the    *)
(* calls of an assistant message.                                          *)
(***************************************************************************)
ToOpenAI(msgs, p) ==
  [kind |-> msgs[p].kind, asks |-> << >>,
   answers |-> IF msgs[p].kind = "tool" THEN ToolCallId("openai", msgs, p) ELSE {}]

(***************************************************************************)
(* To Gemini go the calls of an assistant message, and with a tool result  *)
(* the name that its id has among the calls in the window, if any.         *)
(***************************************************************************)
CallsFrom(msgs, first) ==
  UNION {{<< q, i >> : i \in DOMAIN msgs[q].calls} :
           q \in {q \in first .. Len(msgs) : IsAssistant(msgs[q])}}

NamesById(msgs, first, id) ==
  {msgs[c[1]].calls[c[2]] :
     c \in {c \in CallsFrom(msgs, first) : id # {} /\ CallIds("gemini", c[1], c[2]) = id}}

ToGemini(msgs, first, p) ==
  [kind |-> msgs[p].kind,
   asks |-> IF IsAssistant(msgs[p]) THEN msgs[p].calls ELSE << >>,
   answers |-> IF msgs[p].kind = "tool"
               THEN NamesById(msgs, first, ToolCallId("gemini", msgs, p)) ELSE {}]

AssemblePrompt(provider, msgs, n) ==
  LET first == WindowStart(msgs, n)
  IN [p \in first .. Len(msgs) |->
        IF provider = "openai" THEN ToOpenAI(msgs, p) ELSE ToGemini(msgs, first, p)]

=============================================================================
