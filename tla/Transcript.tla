----------------------------- MODULE Transcript -----------------------------
(***************************************************************************)
(* The running transcript of an orchestration run: EngineState.messages.   *)
(*                                                                         *)
(* A message keeps what the control flow of the engine looks at.  Its text *)
(* is abstracted away, except that the fixed refusal text is told apart    *)
(* from a model's reply, because the injection score of the refusal is     *)
(* known (it is below every policy's threshold) and that of a reply, a     *)
(* tool result or the input is not.  "by" is a ghost: it names the agent   *)
(* whose node appended the message.  A tool message carries in "calls"     *)
(* the one call it answers (its tool_call_id in the code).                 *)
(*                                                                         *)
(* The input of a run is one element at the head of the transcript,        *)
(* whatever it is in the code: one user message made of a text, or any     *)
(* list of messages, of any roles, with tool calls and results of earlier  *)
(* runs, or empty.  No node looks into it, but to score its last message   *)
(* and to show as much of it to a model as the history window has room     *)
(* for.                                                                    *)
(***************************************************************************)
EXTENDS Integers, Sequences

CONSTANTS
  Agents,   \* ids of the agent nodes of the graph
  Tools,    \* tool names a model may ask for, attached or not
  User      \* who calls the engine, with the input; not an agent

ASSUME UserIsNoAgent == User \notin Agents

Kinds == {"input", "reply", "refusal", "tool"}

Message == [kind : Kinds, by : Agents \cup {User}, calls : Seq(Tools)]

Input == [kind |-> "input", by |-> User, calls |-> << >>]

AssistantMessage(k, a, calls) == [kind |-> k, by |-> a, calls |-> calls]

IsAssistant(m) == m.kind \in {"reply", "refusal"}

\* The tool messages that answer the given calls, in the order of the calls.
Results(a, calls) ==
  [i \in 1 .. Len(calls) |-> [kind |-> "tool", by |-> a, calls |-> << calls[i] >>]]

(***************************************************************************)
(* A tool message at position p answers the assistant message at position  *)
(* q: it is the (p-q)th message after it, answers its (p-q)th call, was    *)
(* produced by the same agent, and only tool messages stand in between.    *)
(***************************************************************************)
Answers(msgs, p, q) ==
  /\ q < p
  /\ IsAssistant(msgs[q])
  /\ msgs[q].by = msgs[p].by
  /\ p - q <= Len(msgs[q].calls)
  /\ msgs[p].calls = << msgs[q].calls[p - q] >>
  /\ \A r \in (q + 1) .. p : msgs[r].kind = "tool"

WellAnswered(msgs) ==
  \A p \in 1 .. Len(msgs) :
    msgs[p].kind = "tool" => \E q \in 1 .. Len(msgs) : Answers(msgs, p, q)

\* The assistant messages at p and q follow each other, only tool results between.
NextSpeech(msgs, p, q) ==
  /\ p < q
  /\ IsAssistant(msgs[p]) /\ IsAssistant(msgs[q])
  /\ \A r \in p + 1 .. q - 1 : msgs[r].kind = "tool"

=============================================================================
