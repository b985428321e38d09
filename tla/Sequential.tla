----------------------------- MODULE Sequential -----------------------------
(***************************************************************************)
(* The sequential builder: a chain of agents, each with its own tool loop. *)
(* An agent that leaves no tool calls hands over to the next agent of the  *)
(* chain, the last one to END.  Its tools node leads back to it.           *)
(***************************************************************************)
EXTENDS AgentRun

CONSTANT Order  \* the chain computed by _detect_orchestration

ASSUME OrderAssumption ==
  /\ Order \in Seq(Agents)
  /\ Len(Order) > 1
  /\ \A i, j \in 1 .. Len(Order) : Order[i] = Order[j] => i = j

Places == 1 .. Len(Order)

\* Variant: the chain skips an agent.
OnwardSkips(i) == IF i + 1 < Len(Order) THEN {AgentNode(Order[i + 2])} ELSE {End}

Onward(i) == IF i < Len(Order) THEN {AgentNode(Order[i + 1])} ELSE {End}

Init == StartAt(AgentNode(Order[1]))

Speak(i) == AgentFn(Order[i], Onward(i))

CallTools(i) == ToolsFn(Order[i], AgentNode(Order[i]))

Next == \E i \in Places : Speak(i) \/ CallTools(i)

Spec == Init /\ [][Next]_runVars

-----------------------------------------------------------------------------
TypeOK == TypeOKRun

(***************************************************************************)
(* The chain is walked in order and nobody is skipped: when an agent has   *)
(* spoken, every agent before it in the chain has already given an answer  *)
(* that asked for no tool, and none of them speaks again.  A run that ends *)
(* normally went through the whole chain.                                  *)
(***************************************************************************)
GaveAnswer(i, p) ==
  \E q \in 1 .. p :
    IsAssistant(messages[q]) /\ messages[q].by = Order[i] /\ messages[q].calls = << >>

ChainInOrder ==
  /\ \A p \in 1 .. Len(messages) : \A j \in Places :
       messages[p].by = Order[j] =>
         \A i \in Places :
           /\ i < j => GaveAnswer(i, p - 1)
           /\ i > j => ~GaveAnswer(i, p)
  /\ outcome = "done" => \A i \in Places : GaveAnswer(i, Len(messages))

(***************************************************************************)
(* The agent that asked for tools is the next one to speak, right after    *)
(* the results of as many of its calls as max_calls_per_turn lets through. *)
(***************************************************************************)
AnsweredOf(m) ==
  IF MaxCalls[m.by] > 0 /\ MaxCalls[m.by] < Len(m.calls) THEN MaxCalls[m.by] ELSE Len(m.calls)

CallerResumes ==
  \A p, q \in 1 .. Len(messages) :
    NextSpeech(messages, p, q) /\ messages[p].calls # << >> =>
      /\ messages[q].by = messages[p].by
      /\ q - p = 1 + AnsweredOf(messages[p])

=============================================================================
