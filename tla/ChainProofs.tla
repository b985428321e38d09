----------------------------- MODULE ChainProofs -----------------------------
(***************************************************************************)
(* One agent, and a chain of agents.  The sequential builder is proved for *)
(* every chain, every attachment of tools, every limit and everything the  *)
(* models may reply; a request to one agent, the specification ExecuteSpec *)
(* of module SingleAgent, for every window and either provider as well.    *)
(* The names of the latter are prefixed: the two specifications share the  *)
(* engine's state, and the lemmas about it.                                *)
(***************************************************************************)
EXTENDS Sequential, SingleAgent, AgentRunProofs, FiniteSetTheorems

\* The edges of the chain lead to agents of the graph, or to END.
LEMMA Edges ==
  \A i \in Places : Order[i] \in Agents /\ Onward(i) \in SUBSET PlainNodes
<1> SUFFICES ASSUME NEW i \in Places
             PROVE  Order[i] \in Agents /\ Onward(i) \in SUBSET PlainNodes
  OBVIOUS
<1>1. Len(Order) \in Nat /\ \A j \in 1 .. Len(Order) : Order[j] \in Agents
  BY OrderAssumption
<1>2. i < Len(Order) => i + 1 \in 1 .. Len(Order)
  BY <1>1 DEF Places
<1> QED
  BY <1>1, <1>2, NodeFacts DEF Onward, Places

\* The chain is not empty.
LEMMA FirstPlace == 1 \in Places
BY OrderAssumption DEF Places

\* The run starts at the first agent of the chain, with the invariant.
LEMMA InitInv == Init => RunInv
BY StartInv, Edges, FirstPlace, NodeFacts DEF Init

\* Every node of the chain keeps the invariant.
LEMMA StepInv == RunInv /\ [Next]_runVars => RunInv'
<1> SUFFICES ASSUME RunInv, [Next]_runVars PROVE RunInv'
  OBVIOUS
<1>1. CASE UNCHANGED runVars
  BY <1>1 DEF runVars, RunInv, TypeOKRun, PendingMatchesNode, ToolsAnswerCalls, Running
<1>2. ASSUME NEW i \in Places, Speak(i) PROVE RunInv'
  BY <1>2, Edges, AgentFnInv DEF Speak
<1>3. ASSUME NEW i \in Places, CallTools(i) PROVE RunInv'
  BY <1>3, Edges, NodeFacts, ToolsFnInv DEF CallTools
<1> QED
  BY <1>1, <1>2, <1>3 DEF Next

(***************************************************************************)
(* Sequential runs keep the inductive invariant of the engine.             *)
(***************************************************************************)
THEOREM Invariance == Spec => []RunInv
BY InitInv, StepInv, PTL DEF Spec

(***************************************************************************)
(* Whatever the chain and the models, the engine state keeps its types and *)
(* no run takes more super-steps than LangGraph's limit.                   *)
(***************************************************************************)
THEOREM TypeCorrect == Spec => []TypeOK
<1>1. RunInv => TypeOK
  BY DEF RunInv, TypeOK
<1> QED
  BY Invariance, <1>1, PTL

(***************************************************************************)
(* The tools node always runs right after the message whose calls are      *)
(* pending, and only then.                                                 *)
(***************************************************************************)
THEOREM PendingCorrect == Spec => []PendingMatchesNode
<1>1. RunInv => PendingMatchesNode
  BY DEF RunInv
<1> QED
  BY Invariance, <1>1, PTL

(***************************************************************************)
(* No tool message without its call: in every transcript of a sequential   *)
(* run, also of one cut off by max_calls_per_turn, by an exception or by   *)
(* the limit, every tool message answers the call it stands for.           *)
(***************************************************************************)
THEOREM AnswersCorrect == Spec => []ToolsAnswerCalls
<1>1. RunInv => ToolsAnswerCalls
  BY DEF RunInv
<1> QED
  BY Invariance, <1>1, PTL

\* Every step of a sequential run is a step of the contract.
LEMMA StepRefines == RunInv /\ [Next]_runVars => [Engine!EngineNext]_(Engine!engineVars)
<1> SUFFICES ASSUME RunInv, [Next]_runVars PROVE [Engine!EngineNext]_(Engine!engineVars)
  OBVIOUS
<1>1. CASE UNCHANGED runVars
  BY <1>1 DEF runVars, Engine!engineVars, Status
<1>2. ASSUME NEW i \in Places, Speak(i) PROVE Engine!EngineNext
  BY <1>2, Edges, AgentFnRefines DEF Speak
<1>3. ASSUME NEW i \in Places, CallTools(i) PROVE Engine!EngineNext
  BY <1>3, Edges, NodeFacts, ToolsFnRefines DEF CallTools
<1> QED
  BY <1>1, <1>2, <1>3 DEF Next

(***************************************************************************)
(* Every sequential run is a run of the engine's contract.                 *)
(***************************************************************************)
THEOREM Refinement == Spec => ImplementsEngine
<1>1. Init => Engine!EngineInit
  BY StartRefines, Edges, FirstPlace, NodeFacts DEF Init
<1>2. RunInv /\ [Next]_runVars => [Engine!EngineNext]_(Engine!engineVars)
  BY StepRefines
<1> QED
  BY <1>1, <1>2, Invariance, PTL DEF Spec, ImplementsEngine

-----------------------------------------------------------------------------
(***************************************************************************)
(* The order of the transcript.                                            *)
(***************************************************************************)
\* Each node function keeps the order of calls and answers.
LEMMA StepOrder == RunInv /\ OrderInv /\ [Next]_runVars => OrderInv'
<1> SUFFICES ASSUME RunInv, OrderInv, [Next]_runVars PROVE OrderInv'
  OBVIOUS
<1>1. CASE UNCHANGED runVars
  BY <1>1, SilentOrder DEF runVars, Running
<1>2. ASSUME NEW i \in Places, Speak(i) PROVE OrderInv'
  BY <1>2, Edges, AgentFnOrder DEF Speak
<1>3. ASSUME NEW i \in Places, CallTools(i) PROVE OrderInv'
  BY <1>3, Edges, ToolsFnOrder DEF CallTools
<1> QED
  BY <1>1, <1>2, <1>3 DEF Next

\* Sequential runs keep that order.
LEMMA OrderInvariance == Spec => []OrderInv
<1>1. Init => OrderInv
  BY StartOrder DEF Init
<1> QED
  BY <1>1, StepOrder, Invariance, PTL DEF Spec

(***************************************************************************)
(* The finish reason is that of the last assistant message at any time,    *)
(* also while tools run and after a failure.                               *)
(***************************************************************************)
THEOREM FinishCorrect == Spec => []FinishIsLastTurns
<1>1. OrderInv => FinishIsLastTurns
  BY DEF OrderInv
<1> QED
  BY OrderInvariance, <1>1, PTL

(***************************************************************************)
(* An agent that asked for tools speaks next, after as many results as     *)
(* max_calls_per_turn lets through.                                        *)
(***************************************************************************)
THEOREM CallerCorrect == Spec => []CallerResumes
<1>1. OrderInv /\ RunInv => CallerResumes
  <2>1. SUFFICES ASSUME OrderInv, RunInv,
                        NEW p \in 1 .. Len(messages), NEW q \in 1 .. Len(messages),
                        NextSpeech(messages, p, q), messages[p].calls # << >>
                 PROVE  /\ messages[q].by = messages[p].by
                        /\ q - p = 1 + AnsweredOf(messages[p])
    BY DEF CallerResumes
  <2>2. messages[p] \in Message /\ messages[p].kind # "input"
    BY <2>1 DEF RunInv, TypeOKRun, NextSpeech, IsAssistant
  <2>3. messages[p].calls \in Seq(Tools)
    BY <2>2 DEF Message
  <2>4. Len(messages[p].calls) \in Nat /\ Len(messages[p].calls) > 0
    BY <2>1, <2>3
  <2>5. AnsweredOf(messages[p]) = Limit(messages[p].by, messages[p].calls)
    <3>1. ASSUME NEW c \in Int PROVE c > 0 /\ c < Len(messages[p].calls) <=>
                                       c \in 1 .. Len(messages[p].calls) /\ c # Len(messages[p].calls)
      BY <2>4
    <3>2. messages[p].by \in Agents => MaxCalls[messages[p].by] \in Int
      BY AgentRunAssumption
    <3>3. messages[p].by \in Agents
      BY <2>1 DEF OrderInv, SpeakersAreAgents, NextSpeech
    <3> QED
      BY <2>4, <3>1, <3>2, <3>3 DEF AnsweredOf, Limit
  <2> QED
    BY <2>1, <2>5 DEF OrderInv, CallsResumed
<1> QED
  BY OrderInvariance, Invariance, <1>1, PTL

-----------------------------------------------------------------------------
(***************************************************************************)
(* The chain.  That nobody is skipped is not inductive by itself: it must  *)
(* be known that exactly the agents before the one whose node is next have *)
(* given their answer.                                                     *)
(***************************************************************************)
At(j) == node \in {AgentNode(Order[j]), ToolsNode(Order[j])}

\* The agent of place i has given an answer among the first p messages of s.
Gave(s, i, p) ==
  \E q \in 1 .. p : IsAssistant(s[q]) /\ s[q].by = Order[i] /\ s[q].calls = << >>

\* Message p of s, if it is of an agent of the chain, comes after the answers of the
\* agents before it and before those of the agents after it.
InPlace(s, p) ==
  \A k, i \in Places : s[p].by = Order[k] =>
    (i < k => Gave(s, i, p - 1)) /\ (i > k => ~Gave(s, i, p))

InOrder == \A p \in 1 .. Len(messages) : InPlace(messages, p)

AllAnswered == outcome = "done" => \A i \in Places : Gave(messages, i, Len(messages))

AnswersSoFar ==
  Running =>
    \E j \in Places : At(j) /\ \A i \in Places : (i < j) <=> Gave(messages, i, Len(messages))

ChainInv == InOrder /\ AllAnswered /\ AnswersSoFar

LEMMA ChainInvImplies == ChainInv => ChainInOrder
BY DEF ChainInv, InOrder, InPlace, AllAnswered, ChainInOrder, GaveAnswer, Gave

\* Nodes of two places of the chain are different.
LEMMA PlaceFacts ==
  /\ \A j \in Places : j \in Nat /\ j >= 1 /\ j <= Len(Order) /\ Order[j] \in Agents
  /\ \A i, j \in Places : Order[i] = Order[j] => i = j
  /\ \A i, j \in Places : At(j) /\ node \in {AgentNode(Order[i]), ToolsNode(Order[i])} => i = j
<1>1. \A j \in Places : j \in Nat /\ j >= 1 /\ j <= Len(Order) /\ Order[j] \in Agents
  BY Edges, OrderAssumption DEF Places
<1>2. \A i, j \in Places : Order[i] = Order[j] => i = j
  BY OrderAssumption DEF Places
<1> QED
  BY <1>1, <1>2 DEF At, AgentNode, ToolsNode

\* What was answered among the old messages is what it was.
LEMMA OldAnswers ==
  ASSUME NEW s, NEW t, NEW l \in Nat, \A p \in 1 .. l : t[p] = s[p],
         NEW i \in Places, NEW p \in 0 .. l
  PROVE  Gave(t, i, p) <=> Gave(s, i, p)
<1>1. \A q \in 1 .. p : q \in 1 .. l
  OBVIOUS
<1> QED
  BY <1>1 DEF Gave

\* Messages that are no answers, or not of the agent, change nothing.
LEMMA NoNewAnswer ==
  ASSUME NEW s, NEW t, NEW l \in Nat, \A p \in 1 .. l : t[p] = s[p],
         NEW i \in Places, NEW p \in Nat, p >= l,
         \A q \in l + 1 .. p :
           ~(IsAssistant(t[q]) /\ t[q].by = Order[i] /\ t[q].calls = << >>)
  PROVE  Gave(t, i, p) <=> Gave(s, i, l)
<1>1. \A q \in 1 .. p : q \in 1 .. l \/ q \in l + 1 .. p
  OBVIOUS
<1>2. \A q \in 1 .. l : q \in 1 .. p
  OBVIOUS
<1> QED
  BY <1>1, <1>2 DEF Gave

\* An old message keeps its place.
LEMMA OldPlaces ==
  ASSUME NEW s, NEW t, NEW l \in Nat, \A p \in 1 .. l : t[p] = s[p],
         NEW p \in 1 .. l, InPlace(s, p)
  PROVE  InPlace(t, p)
<1>1. p - 1 \in 0 .. l /\ p \in 0 .. l
  OBVIOUS
<1>2. \A i \in Places : /\ Gave(t, i, p - 1) <=> Gave(s, i, p - 1)
                        /\ Gave(t, i, p) <=> Gave(s, i, p)
  BY <1>1, OldAnswers
<1> QED
  BY <1>2 DEF InPlace

\* A run starts at the first place, and nobody has answered.
LEMMA InitChain == Init => ChainInv
<1> SUFFICES ASSUME Init PROVE ChainInv
  OBVIOUS
<1>1. /\ messages = << Input >> /\ Len(messages) = 1 /\ messages[1] = Input
      /\ node = AgentNode(Order[1]) /\ outcome = "running"
  BY DEF Init, StartAt
<1>2. Input.kind = "input" /\ Input.by = User
  BY DEF Input
<1>3. \A i \in Places : ~Gave(messages, i, 1)
  BY <1>1, <1>2 DEF Gave, IsAssistant
<1>4. \A j \in Places : Order[j] # User
  BY PlaceFacts, UserIsNoAgent
<1>5. InOrder
  BY <1>1, <1>2, <1>4 DEF InOrder, InPlace
<1>6. At(1) /\ \A i \in Places : ~(i < 1)
  BY <1>1, PlaceFacts DEF At
<1>7. AnswersSoFar
  BY <1>1, <1>3, <1>6, FirstPlace DEF AnswersSoFar
<1> QED
  BY <1>1, <1>5, <1>7 DEF ChainInv, AllAnswered

\* Steps that say nothing and end the run by an exception, or change nothing.
LEMMA SilentChain ==
  ASSUME ChainInv, UNCHANGED messages, UNCHANGED << node, outcome >> \/ outcome' \in Errors
  PROVE  ChainInv'
<1>1. InOrder'
  BY DEF ChainInv, InOrder, InPlace, Gave
<1>2. AllAnswered'
  BY DEF ChainInv, AllAnswered, Errors, Gave
<1>3. AnswersSoFar'
  BY DEF ChainInv, AnswersSoFar, Running, Errors, At, Gave
<1> QED
  BY <1>1, <1>2, <1>3 DEF ChainInv

\* Before the agent of place j speaks, exactly the agents before it have answered.
LEMMA AnsweredBefore ==
  ASSUME ChainInv, Running, NEW j \in Places,
         node \in {AgentNode(Order[j]), ToolsNode(Order[j])}
  PROVE  \A i \in Places : (i < j) <=> Gave(messages, i, Len(messages))
<1>1. PICK k \in Places :
        At(k) /\ \A i \in Places : (i < k) <=> Gave(messages, i, Len(messages))
  BY DEF ChainInv, AnswersSoFar
<1>2. j = k
  BY <1>1, PlaceFacts
<1> QED
  BY <1>1, <1>2

\* An answer moves the run on by one place; a turn with calls leaves it where it is.
LEMMA SpeakChain ==
  ASSUME RunInv, ChainInv, NEW j \in Places, Speak(j)
  PROVE  ChainInv'
<1> DEFINE l == Len(messages)
<1>1. /\ Running /\ node = AgentNode(Order[j])
      /\ messages \in Seq(Message) /\ l \in Nat /\ l > 0
      /\ ran \in 0 .. RecursionLimit /\ ran < RecursionLimit
      /\ AgentFn(Order[j], Onward(j))
  BY DEF Speak, AgentFn, RunInv, TypeOKRun, PendingMatchesNode
<1>2. \A i \in Places : (i < j) <=> Gave(messages, i, l)
  BY <1>1, AnsweredBefore
<1>3. CASE Raised
  BY <1>3, SilentChain DEF Raised
<1>4. ASSUME NEW m \in Message, NEW n \in Nodes, Turned(Order[j], Onward(j), m, n)
      PROVE  ChainInv'
  <2>1. /\ messages' \in Seq(Message) /\ Len(messages') = l + 1
        /\ \A p \in 1 .. l : messages'[p] = messages[p]
        /\ messages'[l + 1] = m
        /\ IsAssistant(m) /\ m.by = Order[j]
    BY <1>1, <1>4, AppendFacts DEF Turned
  <2>2. /\ node' = n
        /\ outcome' \in {"running", "done", "recursion"}
        /\ outcome' = "running" => n # End
        /\ outcome' = "done" => n = End
    BY <1>1, <1>4, GotoFacts DEF Turned
  <2>3. n \in IF m.calls # << >> THEN {ToolsNode(Order[j])} ELSE Onward(j)
    BY <1>4 DEF Turned
  <2> HIDE DEF l
  <2>4. \A i \in Places : Gave(messages', i, l) <=> Gave(messages, i, l)
    <3>1. l \in 0 .. l
      BY <1>1
    <3> QED
      BY <1>1, <2>1, <3>1, OldAnswers
  <2>5. l + 1 \in Nat /\ l + 1 >= l /\ \A q \in l + 1 .. l + 1 : q = l + 1
    BY <1>1
  <2>6. ASSUME NEW i \in Places, ~(i = j /\ m.calls = << >>)
        PROVE  Gave(messages', i, l + 1) <=> Gave(messages, i, l)
    <3>1. \A q \in l + 1 .. l + 1 :
            ~(/\ IsAssistant(messages'[q]) /\ messages'[q].by = Order[i]
              /\ messages'[q].calls = << >>)
      BY <2>1, <2>5, <2>6, PlaceFacts
    <3> QED
      BY <1>1, <2>1, <2>5, <3>1, NoNewAnswer
  <2>7. m.calls = << >> => Gave(messages', j, l + 1)
    <3>1. l + 1 \in 1 .. l + 1
      BY <1>1
    <3> QED
      BY <2>1, <3>1 DEF Gave
  <2>8. InPlace(messages', l + 1)
    <3>1. ASSUME NEW k \in Places, NEW i \in Places, messages'[l + 1].by = Order[k]
          PROVE  (i < k => Gave(messages', i, l)) /\ (i > k => ~Gave(messages', i, l + 1))
      <4>1. k = j
        BY <2>1, <3>1, PlaceFacts
      <4>2. i > k => ~(i < j) /\ i # j
        BY <4>1, PlaceFacts
      <4> QED
        BY <1>2, <2>4, <2>6, <4>1, <4>2
    <3>2. ASSUME NEW p, p = l + 1, p - 1 = l PROVE InPlace(messages', p)
      BY <3>1, <3>2 DEF InPlace
    <3>3. (l + 1) - 1 = l
      BY <1>1
    <3>4. \A p : p = l + 1 => p - 1 = l
      BY <3>3
    <3> QED
      BY <3>2, <3>4
  <2>9. InOrder'
    <3>1. ASSUME NEW p \in 1 .. l PROVE InPlace(messages', p)
      <4>1. InPlace(messages, p)
        BY DEF ChainInv, InOrder, l
      <4> QED
        BY <1>1, <2>1, <4>1, OldPlaces
    <3>2. \A p \in 1 .. Len(messages') : p \in 1 .. l \/ p = l + 1
      BY <1>1, <2>1
    <3> QED
      BY <2>8, <3>1, <3>2 DEF InOrder
  <2>10. ASSUME n = End PROVE \A i \in Places : Gave(messages', i, Len(messages'))
    <3>1. m.calls = << >>
      BY <2>3, <2>10, PlaceFacts, NodeFacts
    <3>2. ~(j < Len(Order))
      BY <2>3, <2>10, <3>1, PlaceFacts, NodeFacts, OrderAssumption DEF Onward, Places
    <3>3. \A i \in Places : i < j \/ i = j
      BY <3>2, PlaceFacts, OrderAssumption
    <3> QED
      BY <1>2, <2>1, <2>6, <2>7, <3>1, <3>3
  <2>11. AllAnswered'
    BY <2>2, <2>10 DEF AllAnswered
  <2>12. ASSUME Running'
         PROVE  \E k \in Places :
                  /\ At(k)'
                  /\ \A i \in Places : (i < k) <=> Gave(messages', i, Len(messages'))
    <3>1. n # End
      BY <2>2, <2>12 DEF Running
    <3>2. CASE m.calls # << >>
      <4>1. At(j)'
        BY <2>2, <2>3, <3>2 DEF At
      <4> QED
        BY <1>2, <2>1, <2>6, <3>2, <4>1
    <3>3. CASE m.calls = << >>
      <4>1. j < Len(Order) /\ n = AgentNode(Order[j + 1])
        BY <2>3, <3>1, <3>3 DEF Onward
      <4>2. j + 1 \in Places
        BY <4>1, PlaceFacts, OrderAssumption DEF Places
      <4>3. At(j + 1)'
        BY <2>2, <4>1 DEF At
      <4>4. \A i \in Places : (i < j + 1) <=> (i < j \/ i = j)
        BY PlaceFacts
      <4>5. \A i \in Places : (i < j + 1) <=> Gave(messages', i, Len(messages'))
        BY <1>2, <2>1, <2>6, <2>7, <3>3, <4>4
      <4> QED
        BY <4>2, <4>3, <4>5
    <3> QED
      BY <3>2, <3>3
  <2>13. AnswersSoFar'
    BY <2>12 DEF AnswersSoFar
  <2> QED
    BY <2>9, <2>11, <2>13 DEF ChainInv
<1> QED
  BY <1>1, <1>3, <1>4, Edges, AgentFnEffect

\* Results of calls are no answers.
LEMMA CallToolsChain ==
  ASSUME RunInv, ChainInv, NEW j \in Places, CallTools(j)
  PROVE  ChainInv'
<1> DEFINE l == Len(messages)
<1>1. /\ Running /\ node = ToolsNode(Order[j])
      /\ messages \in Seq(Message) /\ l \in Nat /\ l > 0
      /\ ran \in 0 .. RecursionLimit /\ ran < RecursionLimit
      /\ ToolsFn(Order[j], AgentNode(Order[j])) /\ AgentNode(Order[j]) \in PlainNodes
      /\ AgentNode(Order[j]) \in Nodes /\ AgentNode(Order[j]) # End
  BY PlaceFacts, NodeFacts DEF CallTools, ToolsFn, RunInv, TypeOKRun, PendingMatchesNode, PlainNodes
<1>2. \A i \in Places : (i < j) <=> Gave(messages, i, l)
  BY <1>1, AnsweredBefore
<1>3. PICK n \in Nat :
        /\ Answered(Order[j], n)
        /\ outcome' # "done"
        /\ Running' => node' = AgentNode(Order[j])
  <2>1. Limit(Order[j], toolCalls) \in Nat
    BY <1>1, PlaceFacts, LimitFacts, NodeFacts DEF RunInv, TypeOKRun, PendingMatchesNode
  <2>2. Goto(AgentNode(Order[j])) => outcome' # "done" /\ node' = AgentNode(Order[j])
    BY <1>1, GotoFacts
  <2> QED
    BY <1>1, <2>1, <2>2, PlaceFacts, ToolsFnEffect DEF RunInv, Running, Errors
<1>4. /\ Len(messages') = l + n
      /\ \A p \in 1 .. l : messages'[p] = messages[p]
      /\ \A p \in l + 1 .. Len(messages') : messages'[p].kind = "tool" /\ messages'[p].by = Order[j]
  BY <1>3 DEF Answered, Extends
<1> HIDE DEF l
<1>5. ASSUME NEW i \in Places, NEW p \in l .. l + n
      PROVE  Gave(messages', i, p) <=> Gave(messages, i, l)
  <2>1. \A q \in l + 1 .. p : q \in l + 1 .. Len(messages')
    BY <1>1, <1>4
  <2>2. \A q \in l + 1 .. p : ~IsAssistant(messages'[q])
    BY <1>4, <2>1 DEF IsAssistant
  <2>3. p \in Nat /\ p >= l
    BY <1>1
  <2> QED
    BY <1>1, <1>4, <2>2, <2>3, NoNewAnswer
<1>6. ASSUME NEW p \in l + 1 .. Len(messages')
      PROVE  InPlace(messages', p)
  <2> SUFFICES ASSUME NEW k \in Places, NEW i \in Places, messages'[p].by = Order[k]
               PROVE  (i < k => Gave(messages', i, p - 1)) /\ (i > k => ~Gave(messages', i, p))
    BY DEF InPlace
  <2>1. p - 1 \in l .. l + n /\ p \in l .. l + n
    BY <1>1, <1>4
  <2>2. k = j
    BY <1>4, <1>6, PlaceFacts
  <2>3. i > k => ~(i < j)
    BY <2>2, PlaceFacts
  <2> QED
    BY <1>2, <1>5, <2>1, <2>2, <2>3
<1>7. InOrder'
  <2>1. ASSUME NEW p \in 1 .. l PROVE InPlace(messages', p)
    <3>1. InPlace(messages, p)
      BY DEF ChainInv, InOrder, l
    <3> QED
      BY <1>1, <1>4, <3>1, OldPlaces
  <2>2. \A p \in 1 .. Len(messages') : p \in 1 .. l \/ p \in l + 1 .. Len(messages')
    BY <1>1, <1>4
  <2> QED
    BY <1>6, <2>1, <2>2 DEF InOrder
<1>8. AnswersSoFar'
  <2>1. l + n \in l .. l + n
    BY <1>1
  <2>2. \A i \in Places : (i < j) <=> Gave(messages', i, Len(messages'))
    BY <1>2, <1>4, <1>5, <2>1
  <2>3. Running' => At(j)'
    BY <1>3 DEF At
  <2> QED
    BY <2>2, <2>3 DEF AnswersSoFar
<1>9. AllAnswered'
  BY <1>3 DEF AllAnswered
<1> QED
  BY <1>7, <1>8, <1>9 DEF ChainInv

(***************************************************************************)
(* The chain is walked in order, nobody is skipped and nobody speaks       *)
(* twice, and a run that ends normally went through all of it.             *)
(***************************************************************************)
THEOREM ChainCorrect == Spec => []ChainInOrder
<1>1. RunInv /\ ChainInv /\ [Next]_runVars => ChainInv'
  <2> SUFFICES ASSUME RunInv, ChainInv, [Next]_runVars PROVE ChainInv'
    OBVIOUS
  <2>1. CASE UNCHANGED runVars
    BY <2>1, SilentChain DEF runVars
  <2>2. CASE Next
    BY <2>2, SpeakChain, CallToolsChain DEF Next
  <2> QED
    BY <2>1, <2>2
<1> QED
  BY InitChain, <1>1, ChainInvImplies, Invariance, PTL DEF Spec

-----------------------------------------------------------------------------
(***************************************************************************)
(* From here on: one agent.                                                *)
(***************************************************************************)

(***************************************************************************)
(* Counting messages.                                                      *)
(***************************************************************************)
\* The positions in a transcript of the messages of a set.
Where(s, M) == {p \in 1 .. Len(s) : s[p] \in M}

OfKind(k) == {m \in Message : m.kind = k}

ResultFor(t) == {m \in Message : m.kind = "tool" /\ m.calls = << t >>}

\* What the properties count, in these terms.
LEMMA WhereMeans ==
  ASSUME NEW s \in Seq(Message)
  PROVE  /\ \A k : {p \in 1 .. Len(s) : s[p].kind = k} = Where(s, OfKind(k))
         /\ \A t : {p \in 1 .. Len(s) : s[p].kind = "tool" /\ s[p].calls = << t >>} =
                     Where(s, ResultFor(t))
<1>1. \A p \in 1 .. Len(s) : s[p] \in Message
  OBVIOUS
<1> QED
  BY <1>1 DEF Where, OfKind, ResultFor

LEMMA WhereFinite ==
  ASSUME NEW s \in Seq(Message), NEW M
  PROVE  IsFiniteSet(Where(s, M)) /\ Cardinality(Where(s, M)) \in Nat
<1>1. 1 \in Int /\ Len(s) \in Int
  OBVIOUS
<1>2. IsFiniteSet(1 .. Len(s))
  BY <1>1, FS_Interval
<1>3. Where(s, M) \in SUBSET (1 .. Len(s))
  BY DEF Where
<1>4. IsFiniteSet(Where(s, M))
  BY <1>2, <1>3, FS_Subset
<1> QED
  BY <1>4, FS_CardinalityType

\* A message that is appended is counted if it is in the set.
LEMMA WhereAppended ==
  ASSUME NEW s \in Seq(Message), NEW m \in Message, NEW M
  PROVE  /\ Where(Append(s, m), M) = Where(s, M) \cup (IF m \in M THEN {Len(s) + 1} ELSE {})
         /\ Cardinality(Where(Append(s, m), M)) =
              Cardinality(Where(s, M)) + (IF m \in M THEN 1 ELSE 0)
<1> DEFINE t == Append(s, m)
           l == Len(s)
<1>1. /\ Len(t) = l + 1 /\ l \in Nat
      /\ \A p \in 1 .. l : t[p] = s[p]
      /\ t[l + 1] = m
  BY AppendFacts
<1> HIDE DEF t, l
<1>2. /\ \A p \in 1 .. l + 1 : p \in 1 .. l \/ p = l + 1
      /\ \A p \in 1 .. l : p \in 1 .. l + 1 /\ p # l + 1
      /\ l + 1 \in 1 .. l + 1
      /\ l + 1 \notin 1 .. l
  BY <1>1
<1>3. Where(t, M) = {p \in 1 .. l + 1 : t[p] \in M} /\ Where(s, M) = {p \in 1 .. l : s[p] \in M}
  BY <1>1 DEF Where, l
<1>4. IsFiniteSet(Where(s, M)) /\ Cardinality(Where(s, M)) \in Nat
  BY WhereFinite
<1>5. CASE m \notin M
  <2>1. Where(t, M) = Where(s, M)
    BY <1>1, <1>2, <1>3, <1>5
  <2> QED
    BY <1>4, <1>5, <2>1 DEF t
<1>6. CASE m \in M
  <2>1. Where(t, M) = Where(s, M) \cup {l + 1}
    BY <1>1, <1>2, <1>3, <1>6
  <2>2. l + 1 \notin Where(s, M)
    BY <1>2, <1>3
  <2>3. Cardinality(Where(s, M) \cup {l + 1}) = Cardinality(Where(s, M)) + 1
    BY <1>4, <2>2, FS_AddElement
  <2> QED
    BY <1>6, <2>1, <2>3 DEF t, l
<1> QED
  BY <1>5, <1>6

\* How many of the first n calls are for a tool.
CallsFor(list, n, t) == {i \in 1 .. n : list[i] = t}

LEMMA CallsForFacts ==
  ASSUME NEW list \in Seq(Tools), NEW n \in Nat, NEW t
  PROVE  /\ IsFiniteSet(CallsFor(list, n, t)) /\ Cardinality(CallsFor(list, n, t)) \in Nat
         /\ Cardinality(CallsFor(list, n + 1, t)) =
              Cardinality(CallsFor(list, n, t)) + (IF list[n + 1] = t THEN 1 ELSE 0)
<1>1. IsFiniteSet(1 .. n)
  BY FS_Interval
<1>2. IsFiniteSet(CallsFor(list, n, t))
  <2>1. CallsFor(list, n, t) \in SUBSET (1 .. n)
    BY DEF CallsFor
  <2> QED
    BY <1>1, <2>1, FS_Subset
<1>3. Cardinality(CallsFor(list, n, t)) \in Nat
  BY <1>2, FS_CardinalityType
<1>4. /\ \A i \in 1 .. n + 1 : i \in 1 .. n \/ i = n + 1
      /\ \A i \in 1 .. n : i \in 1 .. n + 1 /\ i # n + 1
      /\ n + 1 \in 1 .. n + 1
  OBVIOUS
<1>5. CASE list[n + 1] = t
  <2>1. CallsFor(list, n + 1, t) = CallsFor(list, n, t) \cup {n + 1}
    BY <1>4, <1>5 DEF CallsFor
  <2>2. n + 1 \notin CallsFor(list, n, t)
    BY <1>4 DEF CallsFor
  <2>3. Cardinality(CallsFor(list, n, t) \cup {n + 1}) = Cardinality(CallsFor(list, n, t)) + 1
    BY <1>2, <2>2, FS_AddElement
  <2> QED
    BY <1>2, <1>3, <1>5, <2>1, <2>3
<1>6. CASE list[n + 1] # t
  <2>1. CallsFor(list, n + 1, t) = CallsFor(list, n, t)
    BY <1>4, <1>6 DEF CallsFor
  <2> QED
    BY <1>2, <1>3, <1>6, <2>1
<1> QED
  BY <1>5, <1>6

\* Shifting a set of positions does not change how many they are.
LEMMA ShiftedCount ==
  ASSUME NEW l \in Nat, NEW S \in SUBSET Nat, IsFiniteSet(S)
  PROVE  LET T == {l + i : i \in S}
         IN  IsFiniteSet(T) /\ Cardinality(T) = Cardinality(S)
<1> DEFINE T == {l + i : i \in S}
           f == [i \in S |-> l + i]
<1>1. f \in [S -> T]
  OBVIOUS
<1>2. \A i, j \in S : f[i] = f[j] => i = j
  OBVIOUS
<1>3. \A u \in T : \E i \in S : f[i] = u
  OBVIOUS
<1> HIDE DEF f
<1>4. f \in Bijection(S, T)
  BY <1>1, <1>2, <1>3 DEF Bijection, Injection, Surjection, IsInjective
<1>5. ExistsBijection(S, T)
  BY <1>4 DEF ExistsBijection
<1> QED
  BY <1>5, FS_Bijection

\* Results add to the results of a tool as many as there were calls for it.
LEMMA ResultsCounted ==
  ASSUME NEW s \in Seq(Message), NEW a \in Agents, NEW list \in Seq(Tools), NEW n \in 0 .. Len(list)
  PROVE  \A t : Cardinality(Where(s \o Results(a, SubSeq(list, 1, n)), ResultFor(t))) =
                  Cardinality(Where(s, ResultFor(t))) + Cardinality(CallsFor(list, n, t))
<1> DEFINE first == SubSeq(list, 1, n)
           r == Results(a, first)
           l == Len(s)
<1>1. first \in Seq(Tools) /\ Len(first) = n /\ \A i \in 1 .. n : first[i] = list[i]
  OBVIOUS
<1> HIDE DEF first
<1>2. /\ r \in Seq(Message) /\ Len(r) = n
      /\ \A i \in 1 .. n : r[i].kind = "tool" /\ r[i].calls = << list[i] >>
  <2>1. /\ Results(a, first) \in Seq(Message)
        /\ Len(Results(a, first)) = Len(first)
        /\ \A i \in 1 .. Len(first) :
             Results(a, first)[i].kind = "tool" /\ Results(a, first)[i].calls = << first[i] >>
    BY <1>1, ResultsType
  <2> QED
    BY <1>1, <2>1
<1> HIDE DEF r
<1>3. /\ Len(s \o r) = l + n
      /\ \A p \in 1 .. l : (s \o r)[p] = s[p]
      /\ \A i \in 1 .. n : (s \o r)[l + i] = r[i]
  BY <1>2, ConcatFacts
<1>4. l \in Nat /\ n \in Nat /\ \A i \in 1 .. n : r[i] \in Message
  BY <1>2
<1> HIDE DEF l
<1> SUFFICES ASSUME NEW t
             PROVE  Cardinality(Where(s \o r, ResultFor(t))) =
                      Cardinality(Where(s, ResultFor(t))) + Cardinality(CallsFor(list, n, t))
  BY DEF r, first
<1> DEFINE new == {l + i : i \in CallsFor(list, n, t)}
<1>5. \A i \in 1 .. n : r[i] \in ResultFor(t) <=> list[i] = t
  BY <1>2, <1>4 DEF ResultFor
<1>6. Where(s \o r, ResultFor(t)) = Where(s, ResultFor(t)) \cup new
  <2>1. Where(s \o r, ResultFor(t)) = {p \in 1 .. l + n : (s \o r)[p] \in ResultFor(t)}
    BY <1>3 DEF Where
  <2>2. Where(s, ResultFor(t)) = {p \in 1 .. l : s[p] \in ResultFor(t)}
    BY DEF Where, l
  <2>3. ASSUME NEW p \in 1 .. l + n, (s \o r)[p] \in ResultFor(t)
        PROVE  p \in Where(s, ResultFor(t)) \cup new
    <3>1. CASE p \in 1 .. l
      BY <1>3, <2>2, <2>3, <3>1
    <3>2. CASE p \notin 1 .. l
      <4>1. p - l \in 1 .. n /\ p = l + (p - l)
        BY <1>4, <3>2
      <4>2. (s \o r)[l + (p - l)] = r[p - l]
        BY <1>3, <4>1
      <4>3. p - l \in CallsFor(list, n, t)
        BY <1>5, <2>3, <4>1, <4>2 DEF CallsFor
      <4> QED
        BY <4>1, <4>3
    <3> QED
      BY <3>1, <3>2
  <2>4. \A p \in Where(s, ResultFor(t)) : p \in 1 .. l + n /\ (s \o r)[p] \in ResultFor(t)
    BY <1>3, <1>4, <2>2
  <2>5. ASSUME NEW i \in CallsFor(list, n, t)
        PROVE  l + i \in 1 .. l + n /\ (s \o r)[l + i] \in ResultFor(t)
    <3>1. i \in 1 .. n /\ list[i] = t
      BY DEF CallsFor
    <3> QED
      BY <1>3, <1>4, <1>5, <3>1
  <2> QED
    BY <2>1, <2>3, <2>4, <2>5
<1>7. IsFiniteSet(Where(s, ResultFor(t))) /\ Cardinality(Where(s, ResultFor(t))) \in Nat
  BY WhereFinite
<1>8. IsFiniteSet(CallsFor(list, n, t)) /\ Cardinality(CallsFor(list, n, t)) \in Nat
  BY <1>4, CallsForFacts
<1>9. IsFiniteSet(new) /\ Cardinality(new) = Cardinality(CallsFor(list, n, t))
  <2>1. CallsFor(list, n, t) \in SUBSET Nat
    BY <1>4 DEF CallsFor
  <2> QED
    BY <1>4, <1>8, <2>1, ShiftedCount
<1>10. Where(s, ResultFor(t)) \cap new = {}
  <2>1. \A p \in Where(s, ResultFor(t)) : p \in 1 .. l
    BY DEF Where, l
  <2>2. \A i \in CallsFor(list, n, t) : i \in 1 .. n
    BY DEF CallsFor
  <2> QED
    BY <1>4, <2>1, <2>2
<1>11. Cardinality(Where(s, ResultFor(t)) \cup new) =
         Cardinality(Where(s, ResultFor(t))) + Cardinality(new) - Cardinality({})
  BY <1>7, <1>9, <1>10, FS_Union
<1>12. Cardinality({}) = 0
  BY FS_EmptySet
<1> HIDE DEF new
<1> QED
  BY <1>6, <1>7, <1>8, <1>9, <1>11, <1>12

-----------------------------------------------------------------------------
(***************************************************************************)
(* What a provider is sent of a transcript.                                *)
(***************************************************************************)
\* The last assistant message before a result is the one whose call it answers.
LEMMA AskedAtAnswers ==
  ASSUME NEW s \in Seq(Message), WellAnswered(s), NEW p \in 1 .. Len(s), s[p].kind = "tool"
  PROVE  AskedAt(s, p) \in 1 .. p - 1 /\ Answers(s, p, AskedAt(s, p))
<1>1. PICK q \in 1 .. Len(s) : Answers(s, p, q)
  BY DEF WellAnswered
<1> DEFINE S == {r \in 1 .. p - 1 : IsAssistant(s[r])}
<1>2. q \in S
  BY <1>1 DEF Answers
<1>3. \A r \in S : q >= r
  <2>1. SUFFICES ASSUME NEW r \in S, ~(q >= r) PROVE FALSE
    OBVIOUS
  <2>2. r \in q + 1 .. p /\ IsAssistant(s[r])
    BY <2>1
  <2> QED
    BY <1>1, <2>2 DEF Answers, IsAssistant
<1>4. AskedAt(s, p) = CHOOSE x \in S : \A y \in S : x >= y
  BY DEF AskedAt, Max
<1>5. AskedAt(s, p) \in S /\ \A y \in S : AskedAt(s, p) >= y
  BY <1>2, <1>3, <1>4
<1>6. AskedAt(s, p) = q
  BY <1>2, <1>3, <1>5
<1> QED
  BY <1>1, <1>5, <1>6

\* Among equal positions the last one stands for itself.
LEMMA Largest ==
  ASSUME NEW S \in SUBSET Int, NEW x \in S, \A y \in S : x >= y
  PROVE  Max(S) = x
<1>1. Max(S) \in S /\ \A y \in S : Max(S) >= y
  BY DEF Max
<1>2. Max(S) \in Int /\ x \in Int /\ Max(S) >= x /\ x >= Max(S)
  BY <1>1
<1> QED
  BY <1>2

-----------------------------------------------------------------------------
(***************************************************************************)
(* The invariant.  That the counts agree must be known exactly, not only   *)
(* as the property says, while no tool has failed; a response fixes what   *)
(* it was made of, as nothing runs after the run has ended; and a request  *)
(* stays that of a prefix of the transcript, whatever is appended later.   *)
(***************************************************************************)
SettingsInv == agent \in Agents /\ provider \in {"openai", "gemini"} /\ window \in Nat \ {0}

\* The place of a reply among the replies.
PlaceOf(p) == Cardinality({q \in Positions("reply") : q <= p})

TurnsMarked == \A p \in Positions("reply") : turns[PlaceOf(p)] <=> messages[p].calls # << >>

TurnsInv ==
  /\ Len(turns) = Cardinality(Positions("reply"))
  /\ TurnsMarked
  /\ steps >= Len(turns) + Cardinality(Positions("refusal"))

CountsInv ==
  /\ outcome # "tool" => \A t \in Tools : calls[t] = Cardinality(ResultsOf(t)) /\ errors[t] = 0
  /\ outcome \notin {"tool", "model"} => errorLog = << >>
  /\ CountsMatchTranscript

\* A turn that failed may have told the telemetry of a reply that was not kept.
UsageInv ==
  usage # {} /\ outcome \notin {"model", "structured"} =>
    usage = {Max(Positions("reply"))} /\ tokens = usage

AnswerInv ==
  outcome = "done" => IsAssistant(messages[Len(messages)]) /\ messages[Len(messages)].calls = << >>

ResponseInv ==
  /\ sink = << >> \/ (sink = << Snapshot >> /\ response = "result")
  /\ response = "result" => outcome = "done"
  /\ response # "none" => ~Running

RequestInv ==
  request # << >> =>
    \E l \in 1 .. Len(messages) :
      request = AssemblePrompt(provider, SubSeq(messages, 1, l), window)

ExecuteInv ==
  /\ RunInv
  /\ ExecuteTypeOK
  /\ SettingsInv
  /\ TurnsInv
  /\ CountsInv
  /\ UsageInv
  /\ AnswerInv
  /\ ResponseInv
  /\ RequestInv

\* The invariant holds before anything was recorded.
LEMMA ExecuteStart == ExecuteInit => ExecuteInv
<1> SUFFICES ASSUME ExecuteInit PROVE ExecuteInv
  OBVIOUS
<1>1. /\ messages = << Input >> /\ Len(messages) = 1 /\ messages[1].kind = "input"
      /\ messages \in Seq(Message) /\ outcome = "running" /\ steps = 0
  BY DEF ExecuteInit, StartAt, Input, Message, Kinds
<1>2. RunInv
  BY StartInv, NodeFacts DEF ExecuteInit
<1>3. /\ agent \in Agents
      /\ provider \in Providers /\ window \in Windows /\ request = << >> /\ usage = {} /\ tokens = {}
      /\ turns = << >> /\ calls = [t \in Tools |-> 0] /\ errors = [t \in Tools |-> 0]
      /\ errorLog = << >> /\ response = "none" /\ sink = << >>
  BY DEF ExecuteInit
<1>4. ExecuteTypeOK
  BY <1>2, <1>3 DEF ExecuteTypeOK, RunInv
<1>5. SettingsInv
  BY <1>3, SingleAgentAssumption DEF SettingsInv
<1>6. /\ \A k \in {"reply", "refusal", "tool"} : Positions(k) = {}
      /\ \A t : ResultsOf(t) = {}
  BY <1>1 DEF Positions, ResultsOf
<1>7. Cardinality({}) = 0
  BY FS_EmptySet
<1>8. TurnsInv
  <2>1. Positions("reply") = {} /\ Positions("refusal") = {} /\ Len(turns) = 0
    BY <1>3, <1>6
  <2>2. TurnsMarked
    BY <2>1 DEF TurnsMarked
  <2>3. Cardinality(Positions("reply")) = 0 /\ Cardinality(Positions("refusal")) = 0
    BY <1>7, <2>1
  <2> QED
    BY <1>1, <2>1, <2>2, <2>3 DEF TurnsInv
<1>9. CountsInv
  <2>1. \A t \in Tools : calls[t] = 0 /\ errors[t] = 0 /\ Cardinality(ResultsOf(t)) = 0
    BY <1>3, <1>6, <1>7
  <2> QED
    BY <1>1, <1>3, <2>1 DEF CountsInv, CountsMatchTranscript
<1>10. UsageInv /\ AnswerInv /\ ResponseInv /\ RequestInv
  BY <1>1, <1>3 DEF UsageInv, AnswerInv, ResponseInv, RequestInv
<1> QED
  BY <1>2, <1>4, <1>5, <1>8, <1>9, <1>10 DEF ExecuteInv

-----------------------------------------------------------------------------
(***************************************************************************)
(* What a step is, with what is recorded of it.                            *)
(***************************************************************************)
Kept == UNCHANGED << settingVars, response, sink >>

\* The model raised.
TurnFailed ==
  /\ Raised
  /\ UNCHANGED << turns, calls, errors, usage >>
  /\ tokens' = tokens \/ (tokens' = {0} /\ outcome' \in {"model", "structured"})
  /\ errorLog' = errorLog \/ outcome' = "model"
  /\ errorLog' \in {errorLog, Append(errorLog, "provider")}
  /\ request' = AssemblePrompt(provider, messages, window)

\* A turn that appended message m.
TurnTaken(m, n) ==
  /\ Turned(agent, {End}, m, n)
  /\ turns' = IF m.kind = "reply" THEN Append(turns, m.calls # << >>) ELSE turns
  /\ UNCHANGED << calls, errors, errorLog >>
  /\ request' \in {request, AssemblePrompt(provider, messages, window)}
  /\ IF m.kind = "reply"
     THEN \E reported \in {{}, {Len(messages')}} : RecordUsage(reported)
     ELSE UNCHANGED << usage, tokens >>

\* The first n calls were answered, as far as the transcript and the counts go.
CallsAnswered(n) ==
  /\ n \in 0 .. Len(toolCalls)
  /\ Answered(agent, n)
  /\ UNCHANGED << request, usage, tokens, turns >>
  /\ outcome' # "done"

BatchAnswered(n) ==
  /\ CallsAnswered(n)
  /\ calls' = Recorded(n)
  /\ UNCHANGED << errors, errorLog >>
  /\ outcome' \notin {"tool", "model"}

BatchFailed(n) ==
  /\ CallsAnswered(n)
  /\ n + 1 \in 1 .. Len(toolCalls)
  /\ RecordFailure(toolCalls[n + 1], n)
  /\ outcome' \in {"tool", "detached"}

\* A turn of the agent.
LEMMA AgentStepEffect ==
  ASSUME RunInv, SettingsInv, AgentStep
  PROVE  /\ Kept
         /\ TurnFailed \/ \E m \in Message, n \in Nodes : TurnTaken(m, n)
<1>1. /\ agent \in Agents /\ {End} \in SUBSET PlainNodes
  BY NodeFacts DEF SettingsInv
<1>2. /\ messages \in Seq(Message) /\ Running /\ ran \in 0 .. RecursionLimit /\ ran < RecursionLimit
  BY DEF AgentStep, AgentFn, RunInv, TypeOKRun, PendingMatchesNode
<1>3. Kept /\ UNCHANGED << calls, errors >>
  BY DEF AgentStep, Kept, settingVars
<1>4. CASE Raised
  <2>1. ~Replied /\ ~Blocked /\ turns' = turns
    BY <1>4 DEF Raised, Replied, Blocked, AgentStep, RecordModelTurn
  <2>2. UNCHANGED usage /\ tokens' \in ToldBefore /\ request' = AssemblePrompt(provider, messages, window)
    BY <2>1 DEF AgentStep
  <2>4. tokens' = tokens \/ (tokens' = {0} /\ outcome' \in {"model", "structured"})
    BY <2>1, <2>2 DEF ToldBefore, Rejected
  <2>3. /\ errorLog' = errorLog \/ outcome' = "model"
        /\ errorLog' \in {errorLog, Append(errorLog, "provider")}
    BY DEF AgentStep
  <2> QED
    BY <1>3, <1>4, <2>1, <2>2, <2>3, <2>4 DEF TurnFailed
<1>5. ASSUME NEW m \in Message, NEW n \in Nodes, Turned(agent, {End}, m, n)
      PROVE  TurnTaken(m, n)
  <2>1. /\ messages' = Append(messages, m) /\ IsAssistant(m) /\ toolCalls' = m.calls /\ Goto(n)
    BY <1>5 DEF Turned
  <2>2. /\ messages' # messages
        /\ messages'[Len(messages')] = m
    <3>1. Len(messages') = Len(messages) + 1 /\ Len(messages) \in Nat
      BY <1>2, <2>1, AppendFacts
    <3> QED
      BY <1>2, <2>1, <3>1, AppendFacts
  <2>3. outcome' # "model"
    BY <1>2, <2>1, GotoFacts
  <2>4. /\ Blocked <=> m.kind = "refusal"
        /\ Replied <=> m.kind = "reply"
    BY <2>1, <2>2 DEF Blocked, Replied, IsAssistant
  <2>5. turns' = IF m.kind = "reply" THEN Append(turns, m.calls # << >>) ELSE turns
    BY <2>1, <2>2 DEF AgentStep, RecordModelTurn
  <2>6. errorLog' = errorLog
    BY <2>3 DEF AgentStep
  <2>7. request' \in {request, AssemblePrompt(provider, messages, window)}
    BY DEF AgentStep
  <2>8. IF m.kind = "reply"
        THEN \E reported \in {{}, {Len(messages')}} : RecordUsage(reported)
        ELSE UNCHANGED << usage, tokens >>
    <3>1. Blocked \/ m.kind = "reply"
      BY <2>1, <2>4 DEF IsAssistant
    <3> QED
      BY <2>4, <3>1 DEF AgentStep
  <2> QED
    BY <1>3, <1>5, <2>5, <2>6, <2>7, <2>8 DEF TurnTaken
<1>6. \/ Raised
      \/ \E m \in Message, n \in Nodes : Turned(agent, {End}, m, n)
  BY <1>1, AgentFnEffect DEF AgentStep
<1> QED
  BY <1>3, <1>4, <1>5, <1>6

\* A batch of tool calls.
LEMMA ToolsStepEffect ==
  ASSUME RunInv, SettingsInv, ToolsStep
  PROVE  /\ Kept
         /\ \E n \in Nat : BatchAnswered(n) \/ BatchFailed(n)
<1>1. /\ agent \in Agents /\ AgentNode(agent) \in PlainNodes /\ AgentNode(agent) \in Nodes
      /\ AgentNode(agent) # End
  BY NodeFacts DEF PlainNodes, SettingsInv
<1>2. /\ messages \in Seq(Message) /\ Len(messages) \in Nat /\ Running /\ TypeOKRun
      /\ PendingMatchesNode /\ ran \in 0 .. RecursionLimit /\ ran < RecursionLimit
      /\ toolCalls \in Seq(Tools) /\ toolCalls # << >> /\ Len(toolCalls) \in Nat
  BY DEF ToolsStep, ToolsFn, ToolsNode, RunInv, TypeOKRun, PendingMatchesNode
<1>3. Limit(agent, toolCalls) \in 1 .. Len(toolCalls)
  BY <1>1, <1>2, LimitFacts
<1>4. Kept /\ UNCHANGED << request, usage, tokens, turns >>
  BY DEF ToolsStep, Kept
<1>5. CASE Answered(agent, Limit(agent, toolCalls)) /\ Goto(AgentNode(agent))
  <2> DEFINE n == Limit(agent, toolCalls)
  <2>1. outcome' \in {"running", "done", "recursion"} /\ outcome' # "done"
    BY <1>1, <1>2, <1>5, GotoFacts
  <2>2. Len(messages') - Len(messages) = n
    BY <1>2, <1>3, <1>5 DEF Answered
  <2>3. calls' = Recorded(n) /\ UNCHANGED << errors, errorLog >>
    BY <2>1, <2>2 DEF ToolsStep
  <2>4. n \in Nat /\ n \in 0 .. Len(toolCalls)
    BY <1>3
  <2>5. BatchAnswered(n)
    BY <1>4, <1>5, <2>1, <2>3, <2>4 DEF BatchAnswered, CallsAnswered
  <2> QED
    BY <1>4, <2>4, <2>5
<1>6. ASSUME NEW n \in 0 .. Len(toolCalls), n < Limit(agent, toolCalls), Answered(agent, n),
             outcome' \in {"tool", "detached"}
      PROVE  BatchFailed(n) /\ n \in Nat
  <2>1. Len(messages') - Len(messages) = n
    BY <1>2, <1>6 DEF Answered
  <2>2. RecordFailure(toolCalls[n + 1], n)
    BY <1>6, <2>1 DEF ToolsStep
  <2>3. n + 1 \in 1 .. Len(toolCalls) /\ n \in Nat
    BY <1>2, <1>3, <1>6
  <2> QED
    BY <1>4, <1>6, <2>2, <2>3 DEF BatchFailed, CallsAnswered
<1>7. ToolsFn(agent, AgentNode(agent))
  BY DEF ToolsStep
<1> QED
  BY <1>1, <1>2, <1>4, <1>5, <1>6, <1>7, ToolsFnEffect

-----------------------------------------------------------------------------
(***************************************************************************)
(* How a step changes what is counted.                                     *)
(***************************************************************************)
LEMMA ResultsAre ==
  /\ \A t : ResultsOf(t) = {p \in 1 .. Len(messages) :
                             messages[p].kind = "tool" /\ messages[p].calls = << t >>}
  /\ \A t : ResultsOf(t)' = {p \in 1 .. Len(messages') :
                              messages'[p].kind = "tool" /\ messages'[p].calls = << t >>}
BY DEF ResultsOf, Positions

LEMMA TurnCounts ==
  ASSUME messages \in Seq(Message), NEW m \in Message, IsAssistant(m), messages' = Append(messages, m)
  PROVE  /\ \A k : /\ Positions(k)' = Positions(k) \cup (IF m.kind = k THEN {Len(messages) + 1} ELSE {})
                   /\ Cardinality(Positions(k)') =
                        Cardinality(Positions(k)) + (IF m.kind = k THEN 1 ELSE 0)
         /\ \A t : ResultsOf(t)' = ResultsOf(t)
<1>1. messages' \in Seq(Message)
  BY AppendFacts
<1>2. /\ \A k : Positions(k) = Where(messages, OfKind(k))
      /\ \A t : ResultsOf(t) = Where(messages, ResultFor(t))
  BY WhereMeans DEF Positions, ResultsOf
<1>3. /\ \A k : Positions(k)' = Where(messages', OfKind(k))
      /\ \A t : ResultsOf(t)' = Where(messages', ResultFor(t))
  BY <1>1, WhereMeans, ZenonT(60) DEF Positions, ResultsOf
<1>4. /\ \A k : m \in OfKind(k) <=> m.kind = k
      /\ \A t : m \notin ResultFor(t)
  BY DEF OfKind, ResultFor, IsAssistant
<1>5. \A M : /\ Where(Append(messages, m), M) =
                  Where(messages, M) \cup (IF m \in M THEN {Len(messages) + 1} ELSE {})
             /\ Cardinality(Where(Append(messages, m), M)) =
                  Cardinality(Where(messages, M)) + (IF m \in M THEN 1 ELSE 0)
  BY WhereAppended
<1>6. ASSUME NEW k
      PROVE  /\ Positions(k)' = Positions(k) \cup (IF m.kind = k THEN {Len(messages) + 1} ELSE {})
             /\ Cardinality(Positions(k)') =
                  Cardinality(Positions(k)) + (IF m.kind = k THEN 1 ELSE 0)
  BY <1>2, <1>3, <1>4, <1>5
<1>7. ASSUME NEW t PROVE ResultsOf(t)' = ResultsOf(t)
  BY <1>2, <1>3, <1>4, <1>5
<1> QED
  BY <1>6, <1>7

LEMMA BatchCounts ==
  ASSUME messages \in Seq(Message), toolCalls \in Seq(Tools), SettingsInv, NEW n, CallsAnswered(n)
  PROVE  /\ \A k \in {"reply", "refusal"} : Positions(k)' = Positions(k)
         /\ \A t : Cardinality(ResultsOf(t)') =
                     Cardinality(ResultsOf(t)) + Cardinality(CallsFor(toolCalls, n, t))
<1>1. /\ messages' = messages \o Results(agent, SubSeq(toolCalls, 1, n))
      /\ messages' \in Seq(Message) /\ n \in 0 .. Len(toolCalls)
      /\ Len(messages) \in Nat /\ Len(messages') \in Nat /\ Len(messages') >= Len(messages)
      /\ \A p \in 1 .. Len(messages) : messages'[p] = messages[p]
      /\ \A p \in Len(messages) + 1 .. Len(messages') : messages'[p].kind = "tool"
  BY DEF CallsAnswered, Answered, AnswerFirst, Extends
<1>2. ASSUME NEW k \in {"reply", "refusal"} PROVE Positions(k)' = Positions(k)
  <2>1. \A p \in 1 .. Len(messages') : p \in 1 .. Len(messages) \/ p \in Len(messages) + 1 .. Len(messages')
    BY <1>1
  <2>2. \A p \in 1 .. Len(messages) : p \in 1 .. Len(messages')
    BY <1>1
  <2> QED
    BY <1>1, <2>1, <2>2 DEF Positions
<1>3. \A t : ResultsOf(t) = Where(messages, ResultFor(t)) /\ ResultsOf(t)' = Where(messages', ResultFor(t))
  BY <1>1, WhereMeans, ResultsAre
<1>4. agent \in Agents
  BY DEF SettingsInv
<1>5. \A t : Cardinality(Where(messages', ResultFor(t))) =
               Cardinality(Where(messages, ResultFor(t))) + Cardinality(CallsFor(toolCalls, n, t))
  BY <1>1, <1>4, ResultsCounted
<1> QED
  BY <1>2, <1>3, <1>5

LEMMA CountTypes ==
  ASSUME messages \in Seq(Message)
  PROVE  /\ \A k : IsFiniteSet(Positions(k)) /\ Cardinality(Positions(k)) \in Nat
         /\ \A t : Cardinality(ResultsOf(t)) \in Nat
<1>1. /\ \A k : Positions(k) = Where(messages, OfKind(k))
      /\ \A t : ResultsOf(t) = Where(messages, ResultFor(t))
  BY WhereMeans, ResultsAre DEF Positions
<1>2. \A M : IsFiniteSet(Where(messages, M)) /\ Cardinality(Where(messages, M)) \in Nat
  BY WhereFinite
<1> QED
  BY <1>1, <1>2

\* A request that was made stays that of a prefix of the transcript.
LEMMA RequestKept ==
  ASSUME messages \in Seq(Message), messages' \in Seq(Message), Len(messages') >= Len(messages),
         \A p \in 1 .. Len(messages) : messages'[p] = messages[p],
         Len(messages) > 0, RequestInv, UNCHANGED settingVars,
         request' \in {request, AssemblePrompt(provider, messages, window)}
  PROVE  RequestInv'
<1>1. UNCHANGED << provider, window >> /\ Len(messages) \in Nat /\ Len(messages') \in Nat
  BY DEF settingVars
<1>2. \A l \in 1 .. Len(messages) : SubSeq(messages', 1, l) = SubSeq(messages, 1, l)
  <2>1. SUFFICES ASSUME NEW l \in 1 .. Len(messages)
                 PROVE  SubSeq(messages', 1, l) = SubSeq(messages, 1, l)
    OBVIOUS
  <2>2. /\ SubSeq(messages', 1, l) \in Seq(Message) /\ Len(SubSeq(messages', 1, l)) = l
        /\ SubSeq(messages, 1, l) \in Seq(Message) /\ Len(SubSeq(messages, 1, l)) = l
        /\ \A p \in 1 .. l : SubSeq(messages', 1, l)[p] = messages'[p] /\ SubSeq(messages, 1, l)[p] = messages[p]
    BY <1>1
  <2>3. \A p \in 1 .. l : SubSeq(messages', 1, l)[p] = SubSeq(messages, 1, l)[p]
    BY <1>1, <2>2
  <2> QED
    BY <2>2, <2>3
<1>3. SubSeq(messages, 1, Len(messages)) = messages
  BY <1>1
<1>4. SUFFICES ASSUME request' # << >>
               PROVE  \E l \in 1 .. Len(messages) :
                        request' = AssemblePrompt(provider, SubSeq(messages, 1, l), window)
  <2>1. \A l \in 1 .. Len(messages) : l \in 1 .. Len(messages')
    BY <1>1
  <2> QED
    BY <1>1, <1>2, <2>1 DEF RequestInv
<1>5. CASE request' = request
  BY <1>4, <1>5 DEF RequestInv
<1>6. CASE request' = AssemblePrompt(provider, messages, window)
  <2>1. Len(messages) \in 1 .. Len(messages)
    BY <1>1
  <2> QED
    BY <1>3, <1>6, <2>1
<1> QED
  BY <1>5, <1>6

\* While the run goes on there is no response, whatever the nodes record.
LEMMA NoResponseYet ==
  ASSUME ResponseInv, Running, Kept
  PROVE  ResponseInv'
<1>1. response = "none" /\ sink = << >>
  BY DEF ResponseInv
<1>2. response' = "none" /\ sink' = << >>
  BY <1>1 DEF Kept
<1> QED
  BY <1>2 DEF ResponseInv

\* A reply has its place among the replies.
LEMMA ReplyPlace ==
  ASSUME messages \in Seq(Message), NEW p \in Positions("reply")
  PROVE  PlaceOf(p) \in 1 .. Cardinality(Positions("reply"))
<1> DEFINE S == {q \in Positions("reply") : q <= p}
<1>1. IsFiniteSet(Positions("reply")) /\ Cardinality(Positions("reply")) \in Nat
  BY CountTypes
<1>2. S \in SUBSET Positions("reply")
  OBVIOUS
<1>3. p \in S
  BY DEF Positions
<1>4. IsFiniteSet(S) /\ Cardinality(S) <= Cardinality(Positions("reply"))
  BY <1>1, <1>2, FS_Subset
<1>5. Cardinality(S) \in Nat /\ Cardinality(S) # 0
  BY <1>3, <1>4, FS_EmptySet, FS_CardinalityType
<1>6. Cardinality(S) \in 1 .. Cardinality(Positions("reply"))
  BY <1>1, <1>4, <1>5
<1> QED
  BY <1>6 DEF PlaceOf

\* While no replies are added, the recorded turns keep their places.
LEMMA MarksKept ==
  ASSUME messages \in Seq(Message), Positions("reply")' = Positions("reply"),
         \A p \in 1 .. Len(messages) : messages'[p] = messages[p],
         TurnsMarked, turns' = turns
  PROVE  TurnsMarked'
<1>1. \A p \in Positions("reply") : p \in 1 .. Len(messages)
  BY DEF Positions
<1>2. \A p : PlaceOf(p)' = PlaceOf(p)
  BY DEF PlaceOf
<1> QED
  BY <1>1, <1>2 DEF TurnsMarked

\* A recorded turn is marked by whether it asked for tools.
LEMMA MarksAdded ==
  ASSUME messages \in Seq(Message), turns \in Seq(BOOLEAN), TurnsMarked,
         Len(turns) = Cardinality(Positions("reply")),
         NEW m \in Message, m.kind = "reply", messages' = Append(messages, m),
         turns' = Append(turns, m.calls # << >>)
  PROVE  TurnsMarked'
<1> DEFINE l == Len(messages)
<1>1. /\ l \in Nat /\ Len(messages') = l + 1 /\ messages'[l + 1] = m
      /\ \A p \in 1 .. l : messages'[p] = messages[p]
  BY AppendFacts
<1>2. IsAssistant(m)
  BY DEF IsAssistant
<1>3. /\ Positions("reply")' = Positions("reply") \cup {l + 1}
      /\ Cardinality(Positions("reply")') = Len(turns) + 1
  BY <1>2, TurnCounts
<1>4. \A p \in Positions("reply") : p \in 1 .. l
  BY DEF Positions
<1> HIDE DEF l
<1>5. /\ Len(turns) \in Nat
      /\ \A k \in 1 .. Len(turns) : turns'[k] = turns[k]
      /\ turns'[Len(turns) + 1] = (m.calls # << >>)
  OBVIOUS
<1>6. SUFFICES ASSUME NEW p \in Positions("reply")'
               PROVE  turns'[PlaceOf(p)'] <=> messages'[p].calls # << >>
  BY DEF TurnsMarked
<1>7. CASE p \in Positions("reply")
  <2>1. PlaceOf(p)' = PlaceOf(p)
    <3>1. {q \in Positions("reply") \cup {l + 1} : q <= p} = {q \in Positions("reply") : q <= p}
      BY <1>1, <1>4, <1>7
    <3> QED
      BY <1>3, <3>1 DEF PlaceOf
  <2>2. PlaceOf(p) \in 1 .. Len(turns)
    BY <1>7, ReplyPlace
  <2>3. turns'[PlaceOf(p)] = turns[PlaceOf(p)] /\ messages'[p] = messages[p]
    BY <1>1, <1>4, <1>5, <1>7, <2>2
  <2> QED
    BY <1>7, <2>1, <2>3 DEF TurnsMarked
<1>8. CASE p = l + 1
  <2>1. {q \in Positions("reply") \cup {l + 1} : q <= p} = Positions("reply") \cup {l + 1}
    BY <1>1, <1>4, <1>8
  <2>2. PlaceOf(p)' = Len(turns) + 1
    BY <1>3, <2>1 DEF PlaceOf
  <2> QED
    BY <1>1, <1>5, <1>8, <2>2
<1> QED
  BY <1>3, <1>7, <1>8

-----------------------------------------------------------------------------
(***************************************************************************)
(* Every step keeps the invariant.                                         *)
(***************************************************************************)
\* What a running request has counted is exact.
LEMMA RunningCounts ==
  ASSUME ExecuteInv, Running
  PROVE  /\ \A t \in Tools : calls[t] = Cardinality(ResultsOf(t)) /\ errors[t] = 0
         /\ errorLog = << >>
BY DEF ExecuteInv, CountsInv, Running

LEMMA TurnFailedInv ==
  ASSUME ExecuteInv, Running, RunInv', Kept, TurnFailed
  PROVE  ExecuteInv'
<1>1. /\ UNCHANGED << messages, toolCalls, steps >> /\ outcome' \in Errors
      /\ messages \in Seq(Message) /\ Len(messages) > 0
  BY DEF TurnFailed, Raised, ExecuteInv, RunInv, TypeOKRun
<1>2. /\ UNCHANGED << turns, calls, errors, usage, response, sink, settingVars >>
      /\ tokens' = tokens \/ (tokens' = {0} /\ outcome' \in {"model", "structured"})
      /\ errorLog' = errorLog \/ outcome' = "model"
      /\ errorLog' \in {errorLog, Append(errorLog, "provider")}
  BY DEF TurnFailed, Kept
<1>3. /\ \A k : Positions(k)' = Positions(k)
      /\ \A t : ResultsOf(t)' = ResultsOf(t)
      /\ \A p : PlaceOf(p)' = PlaceOf(p)
  BY <1>1 DEF Positions, ResultsOf, PlaceOf
<1>4. ExecuteTypeOK'
  <2>1. errorLog' \in Seq({"provider", "tool"})
    <3>1. errorLog \in Seq({"provider", "tool"}) /\ "provider" \in {"provider", "tool"}
      BY DEF ExecuteInv, ExecuteTypeOK
    <3>2. Append(errorLog, "provider") \in Seq({"provider", "tool"})
      BY <3>1
    <3> QED
      BY <1>2, <3>1, <3>2
  <2>2. tokens' \subseteq 0 .. Len(messages)
    <3>1. tokens \subseteq 0 .. Len(messages) /\ 0 \in 0 .. Len(messages)
      BY <1>1 DEF ExecuteInv, ExecuteTypeOK
    <3> QED
      BY <1>2, <3>1
  <2> QED
    BY <1>1, <1>2, <2>1, <2>2 DEF ExecuteInv, ExecuteTypeOK, RunInv
<1>5. SettingsInv'
  BY <1>2 DEF ExecuteInv, SettingsInv, settingVars
<1>6. TurnsInv'
  BY <1>1, <1>2, <1>3 DEF ExecuteInv, TurnsInv, TurnsMarked
<1>7. CountsInv'
  <2>1. \A t \in Tools : calls'[t] = Cardinality(ResultsOf(t)') /\ errors'[t] = 0
    BY <1>2, <1>3, RunningCounts
  <2>2. \A t \in Tools : Cardinality(ResultsOf(t)') \in Nat
    BY <1>1, <1>3, CountTypes
  <2>3. CountsMatchTranscript'
    BY <2>1, <2>2 DEF CountsMatchTranscript
  <2>4. outcome' \notin {"tool", "model"} => errorLog' = << >>
    BY <1>2, RunningCounts
  <2> QED
    BY <2>1, <2>3, <2>4 DEF CountsInv
<1>8. UsageInv'
  BY <1>2, <1>3 DEF ExecuteInv, UsageInv, Running
<1>9. AnswerInv'
  BY <1>1 DEF AnswerInv, Errors
<1>10. ResponseInv'
  BY NoResponseYet DEF ExecuteInv
<1>11. RequestInv'
  <2>1. /\ UNCHANGED settingVars
        /\ request' \in {request, AssemblePrompt(provider, messages, window)}
    BY <1>2 DEF TurnFailed
  <2>2. /\ messages' \in Seq(Message) /\ Len(messages') >= Len(messages) /\ RequestInv
        /\ \A p \in 1 .. Len(messages) : messages'[p] = messages[p]
    BY <1>1 DEF ExecuteInv
  <2> QED
    BY <1>1, <2>1, <2>2, RequestKept
<1> QED
  BY <1>4, <1>5, <1>6, <1>7, <1>8, <1>9, <1>10, <1>11 DEF ExecuteInv

LEMMA TurnTakenInv ==
  ASSUME ExecuteInv, Running, RunInv', Kept, NEW m \in Message, NEW n \in Nodes, TurnTaken(m, n)
  PROVE  ExecuteInv'
<1> DEFINE l == Len(messages)
<1>1. /\ messages \in Seq(Message) /\ l \in Nat /\ l > 0 /\ steps \in Nat
      /\ ran \in 0 .. RecursionLimit /\ ran < RecursionLimit
  BY DEF ExecuteInv, RunInv, TypeOKRun, PendingMatchesNode
<1>2. /\ messages' = Append(messages, m) /\ IsAssistant(m) /\ steps' \in Nat /\ steps' > steps
      /\ n \in (IF m.calls # << >> THEN {ToolsNode(agent)} ELSE {End}) /\ Goto(n)
  BY DEF TurnTaken, Turned
<1>3. /\ messages' \in Seq(Message) /\ Len(messages') = l + 1 /\ messages'[l + 1] = m
      /\ \A p \in 1 .. l : messages'[p] = messages[p]
  BY <1>1, <1>2, AppendFacts
<1>4. /\ turns' = IF m.kind = "reply" THEN Append(turns, m.calls # << >>) ELSE turns
      /\ UNCHANGED << calls, errors, errorLog, response, sink, settingVars >>
  BY DEF TurnTaken, Kept
<1>5. /\ \A k : /\ Positions(k)' = Positions(k) \cup (IF m.kind = k THEN {l + 1} ELSE {})
                /\ Cardinality(Positions(k)') =
                     Cardinality(Positions(k)) + (IF m.kind = k THEN 1 ELSE 0)
      /\ \A t : ResultsOf(t)' = ResultsOf(t)
  BY <1>1, <1>2, TurnCounts
<1>6. /\ outcome' \in {"running", "done", "recursion"}
      /\ outcome' = "done" => m.calls = << >>
  <2>1. /\ outcome' \in {"running", "done", "recursion"}
        /\ outcome' = "done" => n = End
    BY <1>1, <1>2, GotoFacts
  <2>2. ToolsNode(agent) # End
    BY NodeFacts DEF ExecuteInv, SettingsInv
  <2> QED
    BY <1>2, <2>1, <2>2
<1>7. \/ m.kind = "reply" /\ m.kind # "refusal"
      \/ m.kind = "refusal" /\ m.kind # "reply"
  BY <1>2 DEF IsAssistant
<1>8. /\ m.kind = "reply" => usage' \in {{}, {l + 1}} /\ tokens' \in {tokens, {0}, {l + 1}}
                             /\ (usage' # {} => usage' = {l + 1} /\ tokens' = {l + 1})
      /\ m.kind # "reply" => UNCHANGED << usage, tokens >>
  <2>1. CASE m.kind = "reply"
    <3>1. PICK reported \in {{}, {l + 1}} : RecordUsage(reported)
      BY <1>3, <2>1 DEF TurnTaken
    <3> QED
      BY <2>1, <3>1 DEF RecordUsage, ToldBefore
  <2>2. CASE m.kind # "reply"
    BY <2>2 DEF TurnTaken
  <2> QED
    BY <2>1, <2>2
<1> HIDE DEF l
<1>9. ExecuteTypeOK'
  <2>1. turns' \in Seq(BOOLEAN)
    <3>1. turns \in Seq(BOOLEAN) /\ (m.calls # << >>) \in BOOLEAN
      BY DEF ExecuteInv, ExecuteTypeOK
    <3>2. Append(turns, m.calls # << >>) \in Seq(BOOLEAN)
      BY <3>1
    <3> QED
      BY <1>4, <3>1, <3>2
  <2>2. usage' \subseteq 1 .. l + 1 /\ tokens' \subseteq 0 .. l + 1
    <3>1. usage \subseteq 1 .. l /\ tokens \subseteq 0 .. l
      BY DEF ExecuteInv, ExecuteTypeOK, l
    <3>2. /\ 1 .. l \subseteq 1 .. l + 1 /\ l + 1 \in 1 .. l + 1
          /\ 0 .. l \subseteq 0 .. l + 1 /\ l + 1 \in 0 .. l + 1 /\ 0 \in 0 .. l + 1
      BY <1>1
    <3> QED
      BY <1>8, <3>1, <3>2
  <2> QED
    BY <1>3, <1>4, <2>1, <2>2 DEF ExecuteInv, ExecuteTypeOK, RunInv
<1>10. SettingsInv'
  BY <1>4 DEF ExecuteInv, SettingsInv, settingVars
<1>11. TurnsInv'
  <2>1. /\ turns \in Seq(BOOLEAN) /\ Len(turns) \in Nat /\ TurnsMarked
        /\ Len(turns) = Cardinality(Positions("reply"))
        /\ steps >= Len(turns) + Cardinality(Positions("refusal"))
    BY DEF ExecuteInv, ExecuteTypeOK, TurnsInv
  <2>2. Cardinality(Positions("refusal")) \in Nat
    BY <1>1, CountTypes
  <2>3. CASE m.kind = "reply"
    <3>1. turns' = Append(turns, m.calls # << >>) /\ Len(turns') = Len(turns) + 1
      BY <1>4, <2>1, <2>3
    <3>2. TurnsMarked'
      BY <1>1, <1>2, <2>1, <2>3, <3>1, MarksAdded
    <3>3. /\ Cardinality(Positions("reply")') = Len(turns) + 1
          /\ Cardinality(Positions("refusal")') = Cardinality(Positions("refusal"))
      BY <1>5, <1>7, <2>1, <2>2, <2>3
    <3> QED
      BY <1>1, <1>2, <2>1, <2>2, <3>1, <3>2, <3>3 DEF TurnsInv
  <2>4. CASE m.kind = "refusal"
    <3>1. turns' = turns
      BY <1>4, <1>7, <2>4
    <3>2. /\ Positions("reply")' = Positions("reply")
          /\ Cardinality(Positions("refusal")') = Cardinality(Positions("refusal")) + 1
      BY <1>5, <1>7, <2>2, <2>4
    <3>3. TurnsMarked'
      BY <1>1, <1>3, <2>1, <3>1, <3>2, MarksKept DEF l
    <3> QED
      BY <1>1, <1>2, <2>1, <2>2, <3>1, <3>2, <3>3 DEF TurnsInv
  <2> QED
    BY <1>7, <2>3, <2>4
<1>12. CountsInv'
  <2>1. \A t \in Tools : calls'[t] = Cardinality(ResultsOf(t)') /\ errors'[t] = 0
    BY <1>4, <1>5, RunningCounts
  <2>2. \A t \in Tools : Cardinality(ResultsOf(t)') \in Nat
    BY <1>1, <1>5, CountTypes
  <2>3. CountsMatchTranscript'
    BY <2>1, <2>2 DEF CountsMatchTranscript
  <2>4. errorLog' = << >>
    BY <1>4, RunningCounts
  <2> QED
    BY <2>1, <2>3, <2>4 DEF CountsInv
<1>13. UsageInv'
  <2>1. CASE m.kind = "reply"
    <3>1. Positions("reply")' = Positions("reply") \cup {l + 1}
      BY <1>5, <2>1
    <3>2. \A p \in Positions("reply") : p \in 1 .. l
      BY DEF Positions, l
    <3>3. Max(Positions("reply") \cup {l + 1}) = l + 1
      <4>1. /\ Positions("reply") \cup {l + 1} \in SUBSET Int
            /\ \A p \in Positions("reply") \cup {l + 1} : l + 1 >= p
        BY <1>1, <3>2
      <4> QED
        BY <4>1, Largest
    <3> QED
      BY <1>8, <2>1, <3>1, <3>3 DEF UsageInv
  <2>2. CASE m.kind = "refusal"
    <3>1. Positions("reply")' = Positions("reply") /\ UNCHANGED << usage, tokens >>
      BY <1>5, <1>7, <1>8, <2>2
    <3> QED
      BY <3>1 DEF ExecuteInv, UsageInv, Running
  <2> QED
    BY <1>7, <2>1, <2>2
<1>14. AnswerInv'
  BY <1>2, <1>3, <1>6 DEF AnswerInv
<1>15. ResponseInv'
  BY NoResponseYet DEF ExecuteInv
<1>16. RequestInv'
  <2>1. /\ request' \in {request, AssemblePrompt(provider, messages, window)} /\ RequestInv
        /\ UNCHANGED settingVars /\ Len(messages') >= Len(messages)
    BY <1>1, <1>3, <1>4 DEF TurnTaken, ExecuteInv, l
  <2> QED
    BY <1>1, <1>3, <2>1, RequestKept DEF l
<1> QED
  BY <1>9, <1>10, <1>11, <1>12, <1>13, <1>14, <1>15, <1>16 DEF ExecuteInv

\* What is recorded of a batch is what it added to the transcript.
LEMMA RecordedFacts ==
  ASSUME ExecuteInv, Running, NEW n \in Nat, CallsAnswered(n)
  PROVE  /\ messages \in Seq(Message) /\ messages' \in Seq(Message) /\ toolCalls \in Seq(Tools)
         /\ Recorded(n) \in [Tools -> Nat] /\ Recorded(n + 1) \in [Tools -> Nat]
         /\ \A t \in Tools :
              /\ Recorded(n)[t] = Cardinality(ResultsOf(t)')
              /\ Recorded(n + 1)[t] =
                   Cardinality(ResultsOf(t)') + (IF toolCalls[n + 1] = t THEN 1 ELSE 0)
<1>1. messages \in Seq(Message) /\ toolCalls \in Seq(Tools) /\ messages' \in Seq(Message)
  BY DEF ExecuteInv, RunInv, TypeOKRun, CallsAnswered, Answered, Extends
<1>2. /\ \A t : Recorded(n) = [u \in Tools |-> calls[u] + Cardinality(CallsFor(toolCalls, n, u))]
      /\ \A t : Recorded(n + 1) =
                  [u \in Tools |-> calls[u] + Cardinality(CallsFor(toolCalls, n + 1, u))]
  BY DEF Recorded, CallsFor
<1>3. \A t : /\ Cardinality(CallsFor(toolCalls, n, t)) \in Nat
             /\ Cardinality(CallsFor(toolCalls, n + 1, t)) =
                  Cardinality(CallsFor(toolCalls, n, t)) + (IF toolCalls[n + 1] = t THEN 1 ELSE 0)
  BY <1>1, CallsForFacts
<1>4. \A t \in Tools : calls[t] = Cardinality(ResultsOf(t)) /\ calls[t] \in Nat
  BY <1>1, RunningCounts, CountTypes
<1>5. \A t : Cardinality(ResultsOf(t)') =
               Cardinality(ResultsOf(t)) + Cardinality(CallsFor(toolCalls, n, t))
  BY <1>1, BatchCounts DEF ExecuteInv
<1> HIDE DEF CallsFor
<1>6. \A t \in Tools : /\ calls[t] + Cardinality(CallsFor(toolCalls, n, t)) \in Nat
                       /\ calls[t] + Cardinality(CallsFor(toolCalls, n + 1, t)) \in Nat
  BY <1>3, <1>4
<1>7. Recorded(n) \in [Tools -> Nat] /\ Recorded(n + 1) \in [Tools -> Nat]
  BY <1>2, <1>6
<1>8. ASSUME NEW t \in Tools
      PROVE  /\ Recorded(n)[t] = Cardinality(ResultsOf(t)')
             /\ Recorded(n + 1)[t] =
                  Cardinality(ResultsOf(t)') + (IF toolCalls[n + 1] = t THEN 1 ELSE 0)
  <2>1. /\ Recorded(n)[t] = calls[t] + Cardinality(CallsFor(toolCalls, n, t))
        /\ Recorded(n + 1)[t] = calls[t] + Cardinality(CallsFor(toolCalls, n + 1, t))
    BY <1>2
  <2> QED
    BY <1>3, <1>4, <1>5, <2>1
<1> QED
  BY <1>1, <1>7, <1>8

\* What a batch leaves of the invariant, whatever was recorded of it.
LEMMA BatchInv ==
  ASSUME ExecuteInv, Running, RunInv', Kept, NEW n \in Nat, CallsAnswered(n),
         calls' \in [Tools -> Nat], errors' \in [Tools -> Nat],
         errorLog' \in Seq({"provider", "tool"}), CountsInv'
  PROVE  ExecuteInv'
<1>1. /\ messages \in Seq(Message) /\ Len(messages) \in Nat /\ Len(messages) > 0
      /\ toolCalls \in Seq(Tools)
  BY DEF ExecuteInv, RunInv, TypeOKRun
<1>2. /\ messages' \in Seq(Message) /\ Len(messages') \in Nat /\ Len(messages') >= Len(messages)
      /\ \A p \in 1 .. Len(messages) : messages'[p] = messages[p]
      /\ UNCHANGED << steps, request, usage, tokens, turns >> /\ outcome' # "done"
  BY DEF CallsAnswered, Answered, Extends
<1>3. Positions("reply")' = Positions("reply") /\ Positions("refusal")' = Positions("refusal")
  BY <1>1, BatchCounts DEF ExecuteInv
<1>4. UNCHANGED << settingVars, response, sink >>
  BY DEF Kept
<1>5. ExecuteTypeOK'
  <2>1. usage \subseteq 1 .. Len(messages) /\ tokens \subseteq 0 .. Len(messages)
    BY DEF ExecuteInv, ExecuteTypeOK
  <2>2. /\ 1 .. Len(messages) \subseteq 1 .. Len(messages')
        /\ 0 .. Len(messages) \subseteq 0 .. Len(messages')
    BY <1>1, <1>2
  <2> QED
    BY <1>2, <1>4, <2>1, <2>2 DEF ExecuteInv, ExecuteTypeOK, RunInv
<1>6. SettingsInv'
  BY <1>4 DEF ExecuteInv, SettingsInv, settingVars
<1>7. TurnsInv'
  <2>1. TurnsMarked'
    BY <1>1, <1>2, <1>3, MarksKept DEF ExecuteInv, TurnsInv
  <2> QED
    BY <1>2, <1>3, <2>1 DEF ExecuteInv, TurnsInv
<1>8. UsageInv'
  BY <1>2, <1>3 DEF ExecuteInv, UsageInv, Running
<1>9. AnswerInv'
  BY <1>2 DEF AnswerInv
<1>10. ResponseInv'
  BY NoResponseYet DEF ExecuteInv
<1>11. RequestInv'
  <2>1. /\ request' \in {request, AssemblePrompt(provider, messages, window)} /\ RequestInv
        /\ UNCHANGED settingVars
    BY <1>2, <1>4 DEF ExecuteInv
  <2> QED
    BY <1>1, <1>2, <2>1, RequestKept
<1> QED
  BY <1>5, <1>6, <1>7, <1>8, <1>9, <1>10, <1>11 DEF ExecuteInv

\* A batch that was answered is counted call by call.
LEMMA BatchAnsweredInv ==
  ASSUME ExecuteInv, Running, RunInv', Kept, NEW n \in Nat, BatchAnswered(n)
  PROVE  ExecuteInv'
<1>1. /\ CallsAnswered(n) /\ calls' = Recorded(n) /\ UNCHANGED << errors, errorLog >>
  BY DEF BatchAnswered
<1>2. /\ Recorded(n) \in [Tools -> Nat] /\ messages' \in Seq(Message)
      /\ \A t \in Tools : Recorded(n)[t] = Cardinality(ResultsOf(t)')
  BY <1>1, RecordedFacts
<1>3. errors \in [Tools -> Nat] /\ errorLog = << >> /\ \A t \in Tools : errors[t] = 0
  BY RunningCounts DEF ExecuteInv, ExecuteTypeOK
<1>4. CountsInv'
  <2>1. \A t \in Tools : calls'[t] = Cardinality(ResultsOf(t)') /\ errors'[t] = 0
    BY <1>1, <1>2, <1>3
  <2>2. \A t \in Tools : Cardinality(ResultsOf(t)') \in Nat
    BY <1>2
  <2>3. CountsMatchTranscript'
    BY <2>1, <2>2 DEF CountsMatchTranscript
  <2>4. errorLog' = << >>
    BY <1>1, <1>3
  <2> QED
    BY <2>1, <2>3, <2>4 DEF CountsInv
<1>5. calls' \in [Tools -> Nat] /\ errors' \in [Tools -> Nat] /\ errorLog' \in Seq({"provider", "tool"})
  BY <1>1, <1>2, <1>3
<1> QED
  BY <1>1, <1>4, <1>5, BatchInv

\* Adding to one place of a count.
LEMMA Bumped ==
  ASSUME NEW f \in [Tools -> Nat], NEW c \in Tools, NEW k \in Nat
  PROVE  LET g == [f EXCEPT ![c] = @ + k]
         IN  /\ g \in [Tools -> Nat]
             /\ g[c] = f[c] + k
             /\ \A t \in Tools \ {c} : g[t] = f[t]
<1>1. f[c] + k \in Nat
  OBVIOUS
<1> QED
  BY <1>1

\* Where a batch fails, only the call that failed is counted beyond the results.
LEMMA BatchFailedInv ==
  ASSUME ExecuteInv, Running, RunInv', Kept, NEW n \in Nat, BatchFailed(n)
  PROVE  ExecuteInv'
<1> DEFINE c == toolCalls[n + 1]
<1>1. /\ CallsAnswered(n) /\ n + 1 \in 1 .. Len(toolCalls) /\ RecordFailure(c, n)
      /\ outcome' \in {"tool", "detached"}
  BY DEF BatchFailed
<1>2. /\ Recorded(n) \in [Tools -> Nat] /\ Recorded(n + 1) \in [Tools -> Nat]
      /\ toolCalls \in Seq(Tools)
      /\ \A t \in Tools :
           /\ Recorded(n)[t] = Cardinality(ResultsOf(t)')
           /\ Recorded(n + 1)[t] = Cardinality(ResultsOf(t)') + (IF c = t THEN 1 ELSE 0)
  BY <1>1, RecordedFacts
<1>3. errors \in [Tools -> Nat] /\ errorLog = << >> /\ \A t \in Tools : errors[t] = 0
  BY RunningCounts DEF ExecuteInv, ExecuteTypeOK
<1>4. c \in Tools
  BY <1>1, <1>2
<1> HIDE DEF c
<1> DEFINE R(t) == Cardinality(ResultsOf(t)')
<1>5. \A t \in Tools : R(t) \in Nat /\ Recorded(n)[t] = R(t)
  BY <1>2
<1>9. \A t \in Tools : Recorded(n + 1)[t] = R(t) + (IF c = t THEN 1 ELSE 0)
  BY <1>2
<1>10. CountsMatchTranscript' <=>
         \A t \in Tools :
           /\ calls'[t] >= R(t) + errors'[t]
           /\ calls'[t] # R(t) => outcome' = "tool" /\ \A u \in Tools \ {t} : calls'[u] = R(u)
  BY DEF CountsMatchTranscript
<1>11. CountsInv' <=>
         /\ outcome' # "tool" => \A t \in Tools : calls'[t] = R(t) /\ errors'[t] = 0
         /\ outcome' \notin {"tool", "model"} => errorLog' = << >>
         /\ CountsMatchTranscript'
  BY DEF CountsInv
<1> HIDE DEF R
<1>6. CASE outcome' = "tool" /\ RecordFailed(c, n)
  <2>1. /\ calls' = [Recorded(n) EXCEPT ![c] = @ + 2] /\ errors' = [errors EXCEPT ![c] = @ + 1]
        /\ errorLog' = Append(errorLog, "tool")
    BY <1>6 DEF RecordFailed
  <2>2. calls' \in [Tools -> Nat] /\ errors' \in [Tools -> Nat]
    BY <1>2, <1>3, <1>4, <2>1, Bumped
  <2>3. errorLog' \in Seq({"provider", "tool"})
    BY <1>3, <2>1
  <2>4. /\ calls'[c] = R(c) + 2 /\ errors'[c] = 1
        /\ \A t \in Tools \ {c} : calls'[t] = R(t) /\ errors'[t] = 0
    BY <1>3, <1>4, <1>5, <2>1, <2>2, Bumped
  <2>5. CountsMatchTranscript'
    <3>1. \A t \in Tools : calls'[t] >= R(t) + errors'[t]
      BY <1>4, <1>5, <2>4
    <3>2. \A t \in Tools : calls'[t] # R(t) => t = c
      BY <2>4
    <3> QED
      BY <1>6, <1>10, <2>4, <3>1, <3>2
  <2>6. CountsInv'
    BY <1>6, <1>11, <2>5
  <2> QED
    BY <1>1, <2>2, <2>3, <2>6, BatchInv
<1>7. CASE calls' = Recorded(n) /\ UNCHANGED << errors, errorLog >>
  <2>1. \A t \in Tools : calls'[t] = R(t) /\ errors'[t] = 0
    BY <1>3, <1>5, <1>7
  <2>2. CountsMatchTranscript'
    BY <1>5, <1>10, <2>1
  <2>3. CountsInv'
    BY <1>3, <1>7, <1>11, <2>1, <2>2
  <2>4. calls' \in [Tools -> Nat] /\ errors' \in [Tools -> Nat] /\ errorLog' \in Seq({"provider", "tool"})
    BY <1>2, <1>3, <1>7
  <2> QED
    BY <1>1, <2>3, <2>4, BatchInv
<1>8. CASE outcome' = "tool" /\ calls' = Recorded(n + 1) /\ UNCHANGED << errors, errorLog >>
  <2>1. /\ calls'[c] = R(c) + 1
        /\ \A t \in Tools \ {c} : calls'[t] = R(t)
        /\ \A t \in Tools : errors'[t] = 0
    BY <1>3, <1>4, <1>5, <1>8, <1>9
  <2>2. CountsMatchTranscript'
    <3>1. \A t \in Tools : calls'[t] >= R(t) + errors'[t]
      BY <1>4, <1>5, <2>1
    <3>2. \A t \in Tools : calls'[t] # R(t) => t = c
      BY <2>1
    <3> QED
      BY <1>8, <1>10, <2>1, <3>1, <3>2
  <2>3. CountsInv'
    BY <1>8, <1>11, <2>2
  <2>4. calls' \in [Tools -> Nat] /\ errors' \in [Tools -> Nat] /\ errorLog' \in Seq({"provider", "tool"})
    BY <1>2, <1>3, <1>8
  <2> QED
    BY <1>1, <2>3, <2>4, BatchInv
<1> QED
  BY <1>1, <1>6, <1>7, <1>8 DEF RecordFailure

\* What says nothing of the response does not depend on it.
LEMMA RecordsKept ==
  ASSUME RunInv, SettingsInv, TurnsInv, CountsInv, UsageInv, AnswerInv, RequestInv,
         UNCHANGED << messages, toolCalls, steps, finish, node, ran, outcome >>,
         UNCHANGED << agent, provider, window, request, usage, tokens, turns, calls, errors, errorLog >>
  PROVE  /\ RunInv' /\ SettingsInv' /\ TurnsInv' /\ CountsInv' /\ UsageInv' /\ AnswerInv'
         /\ RequestInv'
<1>1. RunInv'
  BY DEF RunInv, TypeOKRun, PendingMatchesNode, ToolsAnswerCalls, Running
<1>2. SettingsInv' /\ AnswerInv'
  BY DEF SettingsInv, AnswerInv
<1>3. RequestInv'
  BY DEF RequestInv
<1>4. TurnsInv'
  <2>1. /\ \A k : Positions(k)' = Positions(k)
        /\ \A p : PlaceOf(p)' = PlaceOf(p)
    BY DEF Positions, PlaceOf
  <2> QED
    BY <2>1 DEF TurnsInv, TurnsMarked
<1>5. CountsInv'
  <2>1. \A t : ResultsOf(t)' = ResultsOf(t)
    BY DEF Positions, ResultsOf
  <2>2. CountsMatchTranscript'
    BY <2>1 DEF CountsInv, CountsMatchTranscript
  <2> QED
    BY <2>1, <2>2 DEF CountsInv
<1>6. UsageInv'
  BY DEF UsageInv, Positions
<1> QED
  BY <1>1, <1>2, <1>3, <1>4, <1>5, <1>6

\* The response is made of what was recorded, which nothing changes any more.
LEMMA RespondInv ==
  ASSUME ExecuteInv, Respond
  PROVE  ExecuteInv'
<1>1. /\ ~Running /\ response = "none"
      /\ response' = (IF outcome = "done" THEN "result" ELSE "error")
      /\ sink' = (IF outcome = "done" /\ EmitUsage THEN Append(sink, Snapshot) ELSE sink)
      /\ UNCHANGED << messages, toolCalls, steps, finish, node, ran, outcome >>
      /\ UNCHANGED << agent, provider, window, request, usage, tokens, turns, calls, errors, errorLog >>
  BY DEF Respond, runVars, settingVars, metricVars
<1>2. sink = << >>
  BY <1>1 DEF ExecuteInv, ResponseInv
<1>3. /\ sink' = << >> \/ (sink' = << Snapshot >> /\ response' = "result")
      /\ response' = "result" => outcome = "done"
      /\ response' \in {"none", "result", "error"}
  BY <1>1, <1>2
<1>4. /\ RunInv' /\ SettingsInv' /\ CountsInv' /\ UsageInv' /\ AnswerInv' /\ RequestInv'
      /\ TurnsInv'
  BY <1>1, RecordsKept DEF ExecuteInv
<1>6. ExecuteTypeOK'
  <2>1. Len(sink') <= 1
    <3>1. Len(<< >>) = 0 /\ Len(<< Snapshot >>) = 1
      OBVIOUS
    <3>2. CASE sink' = << >>
      BY <3>1, <3>2
    <3>3. CASE sink' = << Snapshot >>
      <4>1. Len(sink') = 1
        BY <3>1, <3>3, Zenon
      <4> QED
        BY <4>1
    <3> QED
      BY <1>3, <3>2, <3>3
  <2>2. response' \in {"none", "result", "error"}
    BY <1>3
  <2> QED
    BY <1>1, <1>4, <2>1, <2>2 DEF ExecuteInv, ExecuteTypeOK, RunInv
<1>7. ResponseInv'
  BY <1>1, <1>3 DEF ResponseInv, Running, Snapshot
<1> QED
  BY <1>4, <1>6, <1>7 DEF ExecuteInv

LEMMA ExecuteStep == ExecuteInv /\ [ExecuteNext]_executeVars => ExecuteInv'
<1> SUFFICES ASSUME ExecuteInv, [ExecuteNext]_executeVars PROVE ExecuteInv'
  OBVIOUS
<1>1. RunInv /\ agent \in Agents /\ {End} \in SUBSET PlainNodes /\ AgentNode(agent) \in PlainNodes
  BY NodeFacts DEF ExecuteInv, SettingsInv
<1>2. CASE AgentStep
  <2>1. Running /\ AgentFn(agent, {End})
    BY <1>2 DEF AgentStep, AgentFn
  <2>2. RunInv'
    BY <1>1, <2>1, AgentFnInv
  <2> QED
    BY <1>1, <1>2, <2>1, <2>2, AgentStepEffect, TurnFailedInv, TurnTakenInv DEF ExecuteInv
<1>3. CASE ToolsStep
  <2>1. Running /\ ToolsFn(agent, AgentNode(agent))
    BY <1>3 DEF ToolsStep, ToolsFn
  <2>2. RunInv'
    BY <1>1, <2>1, ToolsFnInv
  <2> QED
    BY <1>1, <1>3, <2>1, <2>2, ToolsStepEffect, BatchAnsweredInv, BatchFailedInv DEF ExecuteInv
<1>4. CASE Respond
  BY <1>4, RespondInv
<1>5. CASE UNCHANGED executeVars
  <2>1. /\ UNCHANGED << messages, toolCalls, steps, finish, node, ran, outcome, response, sink >>
        /\ UNCHANGED << agent, provider, window, request, usage, tokens, turns, calls, errors, errorLog >>
    BY <1>5 DEF executeVars, runVars, settingVars, metricVars
  <2>2. /\ RunInv' /\ SettingsInv' /\ CountsInv' /\ UsageInv' /\ AnswerInv' /\ RequestInv'
        /\ TurnsInv'
    BY <2>1, RecordsKept DEF ExecuteInv
  <2>3. ExecuteTypeOK'
    BY <2>1, <2>2 DEF ExecuteInv, ExecuteTypeOK, RunInv
  <2>4. ResponseInv'
    BY <2>1 DEF ExecuteInv, ResponseInv, Running, Snapshot
  <2> QED
    BY <2>2, <2>3, <2>4 DEF ExecuteInv
<1> QED
  BY <1>2, <1>3, <1>4, <1>5 DEF ExecuteNext

-----------------------------------------------------------------------------
(***************************************************************************)
(* Requests to one agent keep the invariant.                               *)
(***************************************************************************)
THEOREM ExecuteInvariance == ExecuteSpec => []ExecuteInv
BY ExecuteStart, ExecuteStep, PTL DEF ExecuteSpec

(***************************************************************************)
(* The recorded turns are the model's answers, one by one and in order,    *)
(* whatever filter, limit or exception the run met.                        *)
(***************************************************************************)
THEOREM TurnsCorrect == ExecuteSpec => []TurnsAreAnswers
<1>1. ExecuteInv => TurnsAreAnswers
  BY DEF ExecuteInv, TurnsInv, TurnsMarked, PlaceOf, TurnsAreAnswers
<1> QED
  BY ExecuteInvariance, <1>1, PTL

(***************************************************************************)
(* The telemetry and the transcript count the same calls, except for the   *)
(* one that ended the run, wherever in a batch that was.                   *)
(***************************************************************************)
THEOREM CountsCorrect == ExecuteSpec => []CountsMatchTranscript
<1>1. ExecuteInv => CountsMatchTranscript
  BY DEF ExecuteInv, CountsInv
<1> QED
  BY ExecuteInvariance, <1>1, PTL

\* The last turn of a run that ended by an answer asked for no tools.
LEMMA LastTurn ==
  ASSUME messages \in Seq(Message), Len(messages) > 0, TurnsInv, turns # << >>, turns \in Seq(BOOLEAN),
         turns[Len(turns)],
         IsAssistant(messages[Len(messages)]), messages[Len(messages)].calls = << >>
  PROVE  messages[Len(messages)].kind = "refusal"
<1> DEFINE l == Len(messages)
<1>1. SUFFICES ASSUME messages[l].kind = "reply" PROVE FALSE
  BY DEF IsAssistant
<1>2. l \in Positions("reply") /\ \A p \in Positions("reply") : p <= l
  BY <1>1 DEF Positions
<1>3. {q \in Positions("reply") : q <= l} = Positions("reply")
  BY <1>2
<1>4. PlaceOf(l) = Len(turns)
  BY <1>3 DEF PlaceOf, TurnsInv
<1>5. turns[Len(turns)] <=> messages[l].calls # << >>
  BY <1>2, <1>4 DEF TurnsInv, TurnsMarked
<1> QED
  BY <1>5

(***************************************************************************)
(* The snapshot a caller is shown adds up.                                 *)
(***************************************************************************)
THEOREM SnapshotCorrect == ExecuteSpec => []SnapshotIsConsistent
<1>1. ASSUME ExecuteInv PROVE SnapshotIsConsistent
  <2>1. SUFFICES ASSUME NEW i \in 1 .. Len(sink)
                 PROVE  /\ response = "result"
                        /\ sink[i].errorLog = << >>
                        /\ sink[i].turns # << >> /\ sink[i].turns[Len(sink[i].turns)] =>
                             messages[Len(messages)].kind = "refusal"
                        /\ \A t \in Tools :
                             sink[i].errors[t] = 0 /\ sink[i].calls[t] = Cardinality(ResultsOf(t))
                        /\ usage # {} => usage = {Max(Positions("reply"))} /\ sink[i].tokens = usage
    BY DEF SnapshotIsConsistent
  <2>2. sink = << Snapshot >> /\ response = "result" /\ outcome = "done"
    BY <1>1, <2>1 DEF ExecuteInv, ResponseInv
  <2>3. sink[i] = Snapshot
    BY <2>2
  <2>4. /\ sink[i].tokens = tokens /\ sink[i].turns = turns /\ sink[i].calls = calls
        /\ sink[i].errors = errors /\ sink[i].errorLog = errorLog
    BY <2>3 DEF Snapshot
  <2>5. errorLog = << >> /\ \A t \in Tools : errors[t] = 0 /\ calls[t] = Cardinality(ResultsOf(t))
    BY <1>1, <2>2 DEF ExecuteInv, CountsInv
  <2>6. turns # << >> /\ turns[Len(turns)] => messages[Len(messages)].kind = "refusal"
    <3>1. /\ messages \in Seq(Message) /\ Len(messages) > 0 /\ TurnsInv /\ turns \in Seq(BOOLEAN)
          /\ IsAssistant(messages[Len(messages)]) /\ messages[Len(messages)].calls = << >>
      BY <1>1, <2>2 DEF ExecuteInv, RunInv, TypeOKRun, ExecuteTypeOK, AnswerInv
    <3> QED
      BY <3>1, LastTurn
  <2>7. usage # {} => usage = {Max(Positions("reply"))} /\ tokens = usage
    BY <1>1, <2>2 DEF ExecuteInv, UsageInv
  <2> QED
    BY <2>2, <2>4, <2>5, <2>6, <2>7
<1> QED
  BY <1>1, ExecuteInvariance, PTL

-----------------------------------------------------------------------------
(***************************************************************************)
(* What is known of a request of l messages, made with a window.           *)
(***************************************************************************)
LEMMA RequestFacts ==
  ASSUME ExecuteInv, NEW l \in 1 .. Len(messages),
         request = AssemblePrompt(provider, SubSeq(messages, 1, l), window)
  PROVE  LET first == IF l <= window THEN 1 ELSE l - window + 1
         IN  /\ first \in 1 .. l
             /\ DOMAIN request = first .. l
             /\ \A p \in first .. l :
                  /\ request[p].kind = messages[p].kind
                  /\ provider = "gemini" /\ IsAssistant(messages[p]) =>
                       request[p].asks = messages[p].calls
                  /\ messages[p].kind = "tool" =>
                       /\ AskedAt(messages, p) \in 1 .. p - 1
                       /\ Answers(messages, p, AskedAt(messages, p))
<1> DEFINE s == SubSeq(messages, 1, l)
           first == IF l <= window THEN 1 ELSE l - window + 1
<1>1. /\ messages \in Seq(Message) /\ Len(messages) \in Nat /\ WellAnswered(messages)
      /\ provider \in {"openai", "gemini"} /\ window \in Nat \ {0}
  BY DEF ExecuteInv, RunInv, TypeOKRun, ToolsAnswerCalls, SettingsInv
<1>2. Len(s) = l /\ \A p \in 1 .. l : s[p] = messages[p]
  BY <1>1
<1> HIDE DEF s
<1>3. first \in 1 .. l /\ first = WindowStart(s, window)
  BY <1>1, <1>2 DEF WindowStart
<1> HIDE DEF first
<1>4. request = [p \in first .. l |->
                   IF provider = "openai" THEN ToOpenAI(s, p) ELSE ToGemini(s, first, p)]
  BY <1>2, <1>3 DEF AssemblePrompt, s
<1>5. \A p \in first .. l : p \in 1 .. l /\ p \in 1 .. Len(messages)
  BY <1>1, <1>3
<1>6. ASSUME NEW p \in first .. l
      PROVE  /\ request[p].kind = messages[p].kind
             /\ provider = "gemini" /\ IsAssistant(messages[p]) =>
                  request[p].asks = messages[p].calls
  <2>1. request[p] = IF provider = "openai" THEN ToOpenAI(s, p) ELSE ToGemini(s, first, p)
    BY <1>4
  <2>2. s[p] = messages[p]
    BY <1>2, <1>5
  <2>3. ToOpenAI(s, p).kind = messages[p].kind
    BY <2>2 DEF ToOpenAI
  <2>4. /\ ToGemini(s, first, p).kind = messages[p].kind
        /\ IsAssistant(messages[p]) => ToGemini(s, first, p).asks = messages[p].calls
    BY <2>2 DEF ToGemini
  <2> QED
    BY <2>1, <2>3, <2>4
<1>7. ASSUME NEW p \in first .. l, messages[p].kind = "tool"
      PROVE  /\ AskedAt(messages, p) \in 1 .. p - 1
             /\ Answers(messages, p, AskedAt(messages, p))
  BY <1>1, <1>5, <1>7, AskedAtAnswers
<1>8. DOMAIN request = first .. l
  BY <1>4
<1> QED
  BY <1>3, <1>6, <1>7, <1>8 DEF first

(***************************************************************************)
(* In every request a result stands behind its call, in what is sent of    *)
(* it, or was cut off from it by the window: whatever the window, the      *)
(* provider, and the turn that the results came from.                      *)
(***************************************************************************)
THEOREM RequestsCorrect == ExecuteSpec => []RequestsKeepPairs
<1>1. ASSUME ExecuteInv, request # << >> PROVE RequestsKeepPairs
  <2>1. PICK l \in 1 .. Len(messages) :
          request = AssemblePrompt(provider, SubSeq(messages, 1, l), window)
    BY <1>1 DEF ExecuteInv, RequestInv
  <2> DEFINE first == IF l <= window THEN 1 ELSE l - window + 1
             at(p) == AskedAt(messages, p)
  <2>2. /\ first \in 1 .. l
        /\ DOMAIN request = first .. l
        /\ \A p \in first .. l :
             /\ request[p].kind = messages[p].kind
             /\ provider = "gemini" /\ IsAssistant(messages[p]) =>
                  request[p].asks = messages[p].calls
             /\ messages[p].kind = "tool" => at(p) \in 1 .. p - 1 /\ Answers(messages, p, at(p))
    BY <1>1, <2>1, RequestFacts
  <2>3. /\ messages \in Seq(Message) /\ Len(messages) \in Nat /\ window \in Nat \ {0} /\ l \in Nat
    BY <1>1 DEF ExecuteInv, RunInv, TypeOKRun, SettingsInv
  <2>5. first = 1 \/ l - first = window - 1
    BY <2>3
  <2> HIDE DEF first, at
  <2>6. Min(DOMAIN request) = first /\ Max(DOMAIN request) = l
    <3>1. first \in first .. l /\ l \in first .. l /\ \A p \in first .. l : first <= p /\ p <= l
      BY <2>2, <2>3
    <3>2. Max(first .. l) = l
      <4>1. first .. l \in SUBSET Int /\ \A p \in first .. l : l >= p
        BY <2>2, <2>3
      <4> QED
        BY <3>1, <4>1, Largest
    <3>3. Min(first .. l) \in first .. l /\ \A p \in first .. l : Min(first .. l) <= p
      BY <3>1 DEF Min
    <3>4. Min(first .. l) = first
      BY <2>2, <3>1, <3>3
    <3> QED
      BY <2>2, <3>2, <3>4
  <2>7. ASSUME NEW p \in first .. l, request[p].kind = "tool", p \in CutOff(first)
        PROVE  \A q \in first .. p : request[q].kind = "tool"
    <3>1. SUFFICES ASSUME NEW q \in first .. p PROVE request[q].kind = "tool"
      OBVIOUS
    <3>2. messages[p].kind = "tool" /\ at(p) < first
      BY <2>2, <2>7 DEF CutOff, at
    <3>3. q \in first .. l /\ q \in at(p) + 1 .. p
      BY <2>2, <2>3, <3>1, <3>2
    <3> QED
      BY <2>2, <3>2, <3>3 DEF Answers
  <2>8. ASSUME NEW p \in first .. l, request[p].kind = "tool", p \notin CutOff(first)
        PROVE  BehindItsCall(p)
    <3>1. messages[p].kind = "tool" /\ at(p) \in 1 .. p - 1 /\ Answers(messages, p, at(p))
      BY <2>2, <2>8
    <3>2. at(p) \in first .. l /\ at(p) < p /\ \A r \in at(p) + 1 .. p : r \in first .. l
      <4>1. ~(at(p) < first)
        BY <2>2, <2>8 DEF CutOff, at
      <4> QED
        BY <2>2, <2>3, <3>1, <4>1
    <3>3. /\ IsAssistant(messages[at(p)])
          /\ p - at(p) <= Len(messages[at(p)].calls)
          /\ messages[p].calls = << messages[at(p)].calls[p - at(p)] >>
          /\ \A r \in at(p) + 1 .. p : messages[r].kind = "tool"
      BY <3>1 DEF Answers
    <3>4. /\ IsAssistant(request[at(p)])
          /\ \A r \in at(p) + 1 .. p : request[r].kind = "tool"
          /\ provider = "gemini" => request[at(p)].asks = messages[at(p)].calls
      BY <2>2, <3>2, <3>3 DEF IsAssistant
    <3> QED
      BY <2>2, <3>2, <3>3, <3>4 DEF BehindItsCall
  <2>9. request[l].kind = "tool" /\ window > l - AskedAt(messages, l) => l \notin CutOff(first)
    <3>1. SUFFICES ASSUME messages[l].kind = "tool", window > l - at(l) PROVE ~(at(l) < first)
      BY <2>2, <2>3 DEF CutOff, at
    <3>2. at(l) \in 1 .. l - 1
      BY <2>2, <2>3, <3>1
    <3> QED
      BY <2>2, <2>3, <2>5, <3>1, <3>2
  <2> QED
    BY <2>2, <2>6, <2>7, <2>8, <2>9 DEF RequestsKeepPairs
<1>2. ExecuteInv => RequestsKeepPairs
  BY <1>1 DEF RequestsKeepPairs
<1> QED
  BY <1>2, ExecuteInvariance, PTL

(***************************************************************************)
(* A request to one agent is a run of the engine's contract: what is       *)
(* recorded of a node and what is answered at the end changes nothing      *)
(* about it.                                                               *)
(***************************************************************************)
THEOREM ExecuteRefinement == ExecuteSpec => ImplementsEngine
<1>1. ExecuteInit => Engine!EngineInit
  BY StartRefines DEF ExecuteInit
<1>2. ASSUME ExecuteInv, [ExecuteNext]_executeVars PROVE [Engine!EngineNext]_(Engine!engineVars)
  <2>1. /\ RunInv /\ agent \in Agents /\ {End} \in SUBSET PlainNodes
        /\ AgentNode(agent) \in PlainNodes /\ AgentNode(agent) # End
    BY <1>2, NodeFacts DEF ExecuteInv, SettingsInv
  <2>2. CASE AgentStep
    BY <2>1, <2>2, AgentFnRefines DEF AgentStep
  <2>3. CASE ToolsStep
    BY <2>1, <2>3, ToolsFnRefines DEF ToolsStep
  <2>4. CASE UNCHANGED runVars
    BY <2>4 DEF runVars, Engine!engineVars, Status
  <2> QED
    BY <1>2, <2>2, <2>3, <2>4 DEF ExecuteNext, Respond, executeVars
<1> QED
  BY <1>1, <1>2, ExecuteInvariance, PTL DEF ExecuteSpec, ImplementsEngine

=============================================================================
