------------------------------ MODULE AgentRun ------------------------------
(***************************************************************************)
(* The part of a run that every orchestration shares: the engine state,    *)
(* what one agent node and one tools node do to it, and how LangGraph      *)
(* moves from node to node.  A builder module (Sequential, Handoff, ...)   *)
(* extends this one, routes the nodes and gives the specification.         *)
(*                                                                         *)
(* LangGraph runs one node per super-step, on one thread, and evaluates    *)
(* the conditional edge right after the node, so a node with the routing   *)
(* that follows it is one atomic action.                                   *)
(***************************************************************************)
EXTENDS Transcript

CONSTANTS
  Attached,       \* [Agents -> SUBSET Tools]: tools.attached, by tool name
  MaxCalls,       \* [Agents -> Int]: tools.max_calls_per_turn, <= 0 is no limit
  Replies,        \* the tool_calls lists a chat reply may carry, << >> for none
  Structured,     \* agents whose structured_output is enabled
  MaxAttempts,    \* most model calls of one structured turn
  Defended,       \* agents with prompt_injection_defense and on_block Refuse
  RecursionLimit  \* LangGraph's recursion_limit: super-steps of one run

ASSUME AgentRunAssumption ==
  /\ Attached \in [Agents -> SUBSET Tools]
  /\ MaxCalls \in [Agents -> Int]
  /\ Replies \subseteq Seq(Tools)
  /\ << >> \in Replies
  /\ Structured \subseteq Agents
  /\ MaxAttempts \in Nat \ {0}
  /\ Defended \subseteq Agents
  /\ RecursionLimit \in Nat \ {0}

VARIABLES
  messages,   \* the transcript
  toolCalls,  \* tool calls of the last assistant message, << >> for None
  steps,      \* number of LLM turns completed so far
  finish,     \* metadata["_last_finish_reason"], and which message it was told with
  node,       \* the node LangGraph runs next
  ran,        \* super-steps taken
  outcome     \* "running", "done", or the exception that ended the run

runVars == << messages, toolCalls, steps, finish, node, ran, outcome >>

AgentNode(a) == [fn |-> "agent", agent |-> a]
ToolsNode(a) == [fn |-> "tools", agent |-> a]

\* Nodes that belong to no agent: group chat's select_next, the fan-out and the
\* join of the concurrent builder, and END.
SyntheticNode(f) == [fn |-> f, agent |-> User]
End == SyntheticNode("end")

Nodes ==
  [fn : {"agent", "tools"}, agent : Agents]
    \cup {SyntheticNode(f) : f \in {"select", "fanout", "join", "end"}}

\* "model" is any exception of provider.chat, "structured" the ValueError of
\* the structured pipeline, "detached" ToolExecutionError("Tool not attached"),
\* "tool" any other exception of a tool call, "recursion" GraphRecursionError.
Errors == {"model", "structured", "detached", "tool", "recursion"}

\* A finish reason: None, "content_filter", which models give as well as the
\* filter, or any other.  "of" is a ghost, the place of the message it is of.
Reasons == {"none", "content_filter", "stop"}

FinishOf(p, reason) == [reason |-> reason, of |-> p]

Running == outcome = "running"

StartAt(n) ==
  /\ messages = << Input >>
  /\ toolCalls = << >>
  /\ steps = 0
  /\ finish = [reason |-> "none", of |-> 0]
  /\ node = n
  /\ ran = 0
  /\ outcome = "running"
-----------------------------------------------------------------------------
(***************************************************************************)
(* LangGraph, external.  After a node has run the loop ticks: it checks    *)
(* the super-step count before it looks at whether anything is left to     *)
(* run, so a run that reaches END on its last allowed super-step fails.    *)
(* An exception of a node propagates out of invoke.                        *)
(***************************************************************************)
\* Variant: the limit is tested before the step is counted.
GotoCountsLate(n) ==
  /\ ran' = ran + 1
  /\ node' = n
  /\ outcome' = IF ran = RecursionLimit THEN "recursion"
                ELSE IF n = End THEN "done" ELSE "running"

Goto(n) ==
  /\ ran' = ran + 1
  /\ node' = n
  /\ outcome' = IF ran + 1 = RecursionLimit THEN "recursion"
                ELSE IF n = End THEN "done" ELSE "running"

Raise(e) ==
  /\ outcome' = e
  /\ UNCHANGED << node, ran >>
-----------------------------------------------------------------------------
(***************************************************************************)
(* agent_fn.  "onward" is the set of nodes the conditional edge may choose *)
(* once the turn left no tool calls.                                       *)
(***************************************************************************)
\* Variant: the turn is not charged to steps.
RecordTurnFree(kind, a, calls, attempts, reason) ==
  /\ messages' = Append(messages, AssistantMessage(kind, a, calls))
  /\ toolCalls' = calls
  /\ steps' = steps + attempts - 1
  /\ finish' = FinishOf(Len(messages) + 1, reason)

RecordTurn(kind, a, calls, attempts, reason) ==
  /\ messages' = Append(messages, AssistantMessage(kind, a, calls))
  /\ toolCalls' = calls
  /\ steps' = steps + attempts
  /\ finish' = FinishOf(Len(messages) + 1, reason)

\* pre_provider_filter scores the last message of the prompt only.  The fixed
\* refusal text scores 0.2, below the threshold 0.7; any other text may exceed it.
MayBlock(a) == a \in Defended /\ messages[Len(messages)].kind # "refusal"

\* Variant: the blocked path forgets the finish reason.
BlockedTurnKeepsFinish(a, onward) ==
  /\ MayBlock(a)
  /\ messages' = Append(messages, AssistantMessage("refusal", a, << >>))
  /\ toolCalls' = << >>
  /\ steps' = steps + 1
  /\ UNCHANGED finish
  /\ \E n \in onward : Goto(n)

BlockedTurn(a, onward) ==
  /\ MayBlock(a)
  /\ RecordTurn("refusal", a, << >>, 1, "content_filter")
  /\ \E n \in onward : Goto(n)

\* ensure_structured_output answers after 1..MaxAttempts model calls, and its
\* message never carries tool calls.
StructuredTurn(a, onward) ==
  /\ \E k \in 1 .. MaxAttempts, reason \in Reasons :
       RecordTurn("reply", a, << >>, k, reason)
  /\ \E n \in onward : Goto(n)

ChatTurn(a, onward) ==
  \E calls \in Replies, reason \in Reasons :
    /\ RecordTurn("reply", a, calls, 1, reason)
    /\ \E n \in (IF calls # << >> THEN {ToolsNode(a)} ELSE onward) : Goto(n)

TurnFails(a) ==
  /\ \/ Raise("model")
     \/ a \in Structured /\ Raise("structured")
  /\ UNCHANGED << messages, toolCalls, steps, finish >>

AgentFn(a, onward) ==
  /\ Running
  /\ node = AgentNode(a)
  /\ \/ BlockedTurn(a, onward)
     \/ a \in Structured /\ StructuredTurn(a, onward)
     \/ a \notin Structured /\ ChatTurn(a, onward)
     \/ TurnFails(a)
-----------------------------------------------------------------------------
(***************************************************************************)
(* tools_fn: the first Limit pending calls are executed one by one, and    *)
(* each result is appended before the next call starts.                    *)
(***************************************************************************)
\* Variant: one call too many.
LimitPlusOne(a, calls) ==
  IF MaxCalls[a] + 1 \in 1 .. Len(calls) THEN MaxCalls[a] + 1 ELSE Len(calls)

\* How many of the calls are executed in one turn.
Limit(a, calls) ==
  IF MaxCalls[a] \in 1 .. Len(calls) THEN MaxCalls[a] ELSE Len(calls)

\* Variant: results are appended latest first.
AnswerFirstReversed(a, n) ==
  messages' = messages \o
    Results(a, [i \in 1 .. n |-> toolCalls[n + 1 - i]])

AnswerFirst(a, n) == messages' = messages \o Results(a, SubSeq(toolCalls, 1, n))

AllAttached(a, n) == \A i \in 1 .. n : toolCalls[i] \in Attached[a]

\* Variant: the pending calls are not cleared.
ToolsAnswerKeepsCalls(a, back) ==
  /\ AllAttached(a, Limit(a, toolCalls))
  /\ AnswerFirst(a, Limit(a, toolCalls))
  /\ Goto(back)
  /\ UNCHANGED << toolCalls, steps, finish >>

ToolsAnswer(a, back) ==
  /\ AllAttached(a, Limit(a, toolCalls))
  /\ AnswerFirst(a, Limit(a, toolCalls))
  /\ toolCalls' = << >>
  /\ Goto(back)
  /\ UNCHANGED << steps, finish >>

\* Call j raises: the results of the calls before it are already appended.
ToolsFail(a) ==
  /\ \E j \in 1 .. Limit(a, toolCalls) :
       /\ AllAttached(a, j - 1)
       /\ AnswerFirst(a, j - 1)
       /\ Raise(IF toolCalls[j] \in Attached[a] THEN "tool" ELSE "detached")
  /\ UNCHANGED << toolCalls, steps, finish >>

ToolsFn(a, back) ==
  /\ Running
  /\ node = ToolsNode(a)
  /\ \/ ToolsAnswer(a, back)
     \/ ToolsFail(a)
-----------------------------------------------------------------------------
TypeOKRun ==
  /\ messages \in Seq(Message)
  /\ Len(messages) > 0
  /\ toolCalls \in Seq(Tools)
  /\ steps \in Nat
  /\ finish \in [reason : Reasons, of : Nat]
  /\ node \in Nodes
  /\ ran \in 0 .. RecursionLimit
  /\ outcome \in {"running", "done"} \cup Errors

(***************************************************************************)
(* The heart of the inductive invariant: while a run goes on, the tools    *)
(* node is next exactly when the last assistant message left calls         *)
(* pending, those calls are that message's, and that message is the last.  *)
(***************************************************************************)
PendingMatchesNode ==
  Running =>
    /\ node # End
    /\ ran < RecursionLimit
    /\ (toolCalls # << >>) <=> (node.fn = "tools")
    /\ node.fn = "tools" =>
         /\ messages[Len(messages)].kind = "reply"
         /\ messages[Len(messages)].by = node.agent
         /\ messages[Len(messages)].calls = toolCalls

(***************************************************************************)
(* Every tool message directly follows the assistant message whose call it *)
(* answers, in the order of the calls and by the same agent, whatever was  *)
(* truncated by max_calls_per_turn and wherever a tool call failed.        *)
(***************************************************************************)
ToolsAnswerCalls == WellAnswered(messages)

(***************************************************************************)
(* The finish reason that execute finds in the metadata at the end is that *)
(* of the last assistant message, whichever of the paths of a turn wrote   *)
(* it and whatever tools ran since; if that message is a refusal of the    *)
(* filter, it is content_filter.  A model may give content_filter, too.    *)
(***************************************************************************)
FinishIsLastTurns ==
  \A i \in 1 .. Len(messages) :
    (IsAssistant(messages[i]) /\ \A j \in i + 1 .. Len(messages) : messages[j].kind = "tool")
      => /\ finish.of = i
         /\ messages[i].kind = "refusal" => finish.reason = "content_filter"

(***************************************************************************)
(* A run of this engine is a run of the contract, whoever routes it.       *)
(***************************************************************************)
Status == IF outcome \in Errors THEN "failed" ELSE outcome

Engine == INSTANCE EngineRun WITH pending <- toolCalls, status <- Status

ImplementsEngine == Engine!EngineInit /\ [][Engine!EngineNext]_(Engine!engineVars)

=============================================================================
