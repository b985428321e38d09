------------------------------- MODULE Handoff -------------------------------
(***************************************************************************)
(* The handoff builder: an acyclic graph of agents.  An agent that leaves  *)
(* no tool calls hands over to its only successor, or to the one the LLM   *)
(* router picks, and the run ends at an agent without successors.          *)
(***************************************************************************)
EXTENDS AgentRun, Routing

CONSTANTS
  Adjacency,  \* [Agents -> Seq(Agents)]: successors in the order of the edges
  Root,       \* the one agent without predecessors
  Depth,      \* [Agents -> Nat]: a topological numbering; there is one because
              \* the compiler sends every graph with a cycle to group chat
  RouterReplies    \* what the routing model may answer

ASSUME HandoffAssumption ==
  /\ Adjacency \in [Agents -> Seq(Agents)]
  /\ Root \in Agents
  /\ Depth \in [Agents -> Nat]
  /\ \A a \in Agents : \A b \in Ids(Adjacency[a]) : Depth[a] < Depth[b]
  /\ RouterReplies # {}
  /\ \A r \in RouterReplies : r.failed \in BOOLEAN /\ r.json \in BOOLEAN

\* Variant: an unknown name is not replaced.
OnwardUnchecked(a) ==
  IF Adjacency[a] = << >> THEN {End}
  ELSE {AgentNode(IF r.named # {} THEN TheNamed(r) ELSE Head(Adjacency[a])) : r \in RouterReplies}

\* _should_continue once no tool calls are pending; with one successor the
\* router is not asked.
Onward(a) ==
  CASE Len(Adjacency[a]) = 0 -> {End}
    [] Len(Adjacency[a]) = 1 -> {AgentNode(Adjacency[a][1])}
    [] Len(Adjacency[a]) > 1 -> {AgentNode(ChooseNextAgent(Adjacency[a], r)) : r \in RouterReplies}

HandoffInit == StartAt(AgentNode(Root))

HandoffSpeak(a) == AgentFn(a, Onward(a))

CallTools(a) == ToolsFn(a, AgentNode(a))

HandoffNext == \E a \in Agents : HandoffSpeak(a) \/ CallTools(a)

HandoffSpec == HandoffInit /\ [][HandoffNext]_runVars
-----------------------------------------------------------------------------
HandoffTypeOK == TypeOKRun

(***************************************************************************)
(* Control follows the edges of the graph: after an answer that asked for  *)
(* no tool a successor speaks, after one that did the same agent, whatever *)
(* the routing model answers.  An agent that handed over never speaks      *)
(* again: with the finite tool loops this is what keeps a run finite       *)
(* without the limit.  A run that ends normally ends at an agent that has  *)
(* nobody to hand over to.                                                 *)
(***************************************************************************)
FollowsEdges ==
  /\ \A p, q \in 1 .. Len(messages) :
       NextSpeech(messages, p, q) =>
         IF messages[p].calls = << >> THEN messages[q].by \in Ids(Adjacency[messages[p].by])
         ELSE messages[q].by = messages[p].by
  /\ \A p, q \in 1 .. Len(messages) :
       p < q /\ IsAssistant(messages[p]) /\ messages[p].calls = << >> =>
         messages[q].by # messages[p].by
  /\ outcome = "done" => Adjacency[messages[Len(messages)].by] = << >>

=============================================================================
