---------------------------- MODULE AgentRunProofs ----------------------------
(***************************************************************************)
(* What the node functions preserve, whatever builder routes them.  RunInv *)
(* is the inductive invariant of a run; a builder's proof only has to show *)
(* where its edges lead.                                                   *)
(***************************************************************************)
EXTENDS AgentRun, Routing, WellFoundedInduction, TLAPS

\* A set of natural numbers that is not empty has a least element.
LEMMA LeastElement ==
  ASSUME NEW T \in SUBSET Nat, T # {}
  PROVE  \E k \in T : \A l \in T : k <= l
<1>1. PICK k \in T : \A l \in T : ~ (<< l, k >> \in OpToRel(<, Nat))
  BY NatLessThanWellFounded, WFMin
<1>2. \A l \in T : ~ (l < k)
  BY <1>1 DEF OpToRel
<1>3. \A l \in T : k <= l
  BY <1>2
<1> QED
  BY <1>3

\* FirstIn returns an element of the list that is in the set, when there is one.
LEMMA FirstInFacts ==
  ASSUME NEW list \in Seq(Agents), NEW S, S \cap Ids(list) # {}
  PROVE  FirstIn(list, S) \in S \cap Ids(list)
<1> DEFINE T == {k \in 1 .. Len(list) : list[k] \in S}
<1>1. T \in SUBSET Nat /\ T # {} /\ Len(list) \in Nat
  BY DEF Ids
<1>2. PICK k \in T : \A l \in T : k <= l
  BY <1>1, LeastElement
<1>3. k \in 1 .. Len(list) /\ list[k] \in S /\ \A l \in 1 .. k - 1 : list[l] \notin S
  BY <1>1, <1>2
<1> DEFINE c == CHOOSE j \in 1 .. Len(list) :
                  list[j] \in S /\ \A l \in 1 .. j - 1 : list[l] \notin S
<1>4. c \in 1 .. Len(list) /\ list[c] \in S
  BY <1>3
<1> QED
  BY <1>4 DEF FirstIn, Ids

-----------------------------------------------------------------------------
(***************************************************************************)
(* Facts about transcripts: what appending a message or a batch of tool    *)
(* results does to a transcript whose tool messages are all answers.       *)
(***************************************************************************)
\* The results of a list of calls are that many tool messages.
LEMMA ResultsType ==
  ASSUME NEW a \in Agents \cup {User}, NEW calls \in Seq(Tools)
  PROVE  /\ Results(a, calls) \in Seq(Message)
         /\ Len(Results(a, calls)) = Len(calls)
         /\ \A i \in 1 .. Len(calls) :
              /\ Results(a, calls)[i].kind = "tool"
              /\ Results(a, calls)[i].by = a
              /\ Results(a, calls)[i].calls = << calls[i] >>
<1> DEFINE R == [i \in 1 .. Len(calls) |-> [kind |-> "tool", by |-> a, calls |-> << calls[i] >>]]
<1>1. Results(a, calls) = R
  BY DEF Results
<1>2. \A i \in 1 .. Len(calls) : R[i] \in Message
  BY DEF Message, Kinds
<1>3. R \in Seq(Message) /\ Len(R) = Len(calls)
  BY <1>2
<1> QED
  BY <1>1, <1>3

\* Where the elements of two sequences stand in their concatenation.
LEMMA ConcatFacts ==
  ASSUME NEW s \in Seq(Message), NEW r \in Seq(Message)
  PROVE  /\ s \o r \in Seq(Message)
         /\ Len(s \o r) = Len(s) + Len(r)
         /\ \A p \in 1 .. Len(s) : (s \o r)[p] = s[p]
         /\ \A i \in 1 .. Len(r) : (s \o r)[Len(s) + i] = r[i]
OBVIOUS

\* An assistant message leaves every earlier tool message answered.
LEMMA AppendKeepsAnswers ==
  ASSUME NEW s \in Seq(Message), NEW m \in Message, m.kind # "tool", WellAnswered(s)
  PROVE  WellAnswered(Append(s, m))
<1> DEFINE t == Append(s, m)
<1>1. t \in Seq(Message) /\ Len(t) = Len(s) + 1 /\ t[Len(s) + 1] = m
  OBVIOUS
<1>2. \A p \in 1 .. Len(s) : t[p] = s[p]
  OBVIOUS
<1>3. SUFFICES ASSUME NEW p \in 1 .. Len(t), t[p].kind = "tool"
               PROVE  \E q \in 1 .. Len(t) : Answers(t, p, q)
  BY DEF WellAnswered
<1>4. p \in 1 .. Len(s)
  BY <1>1, <1>3
<1>5. PICK q \in 1 .. Len(s) : Answers(s, p, q)
  BY <1>2, <1>3, <1>4 DEF WellAnswered
<1>6. Answers(t, p, q)
  BY <1>2, <1>4, <1>5 DEF Answers, IsAssistant
<1> QED
  BY <1>1, <1>6

\* The results of the first n calls of the last message answer those calls.
LEMMA ResultsKeepAnswers ==
  ASSUME NEW s \in Seq(Message), s # << >>, WellAnswered(s),
         NEW a \in Agents, NEW calls \in Seq(Tools), NEW n \in 0 .. Len(calls),
         s[Len(s)].kind = "reply", s[Len(s)].by = a, s[Len(s)].calls = calls
  PROVE  WellAnswered(s \o Results(a, SubSeq(calls, 1, n)))
<1> DEFINE first == SubSeq(calls, 1, n)
           t == s \o Results(a, first)
<1>0. Len(s) \in Nat \ {0}
  OBVIOUS
<1>1. first \in Seq(Tools) /\ Len(first) = n /\ \A i \in 1 .. n : first[i] = calls[i]
  OBVIOUS
<1> HIDE DEF first
<1>2. /\ Results(a, first) \in Seq(Message)
      /\ Len(Results(a, first)) = n
      /\ \A i \in 1 .. n :
           /\ Results(a, first)[i].kind = "tool"
           /\ Results(a, first)[i].by = a
           /\ Results(a, first)[i].calls = << calls[i] >>
  BY <1>1, ResultsType
<1>3. /\ t \in Seq(Message)
      /\ Len(t) = Len(s) + n
      /\ \A p \in 1 .. Len(s) : t[p] = s[p]
      /\ \A i \in 1 .. n : t[Len(s) + i] = Results(a, first)[i]
  <2>1. Results(a, first) \in Seq(Message) /\ Len(Results(a, first)) = n
    BY <1>2
  <2> QED
    BY <2>1, ConcatFacts
<1> HIDE DEF t
<1>4. SUFFICES ASSUME NEW p \in 1 .. Len(t), t[p].kind = "tool"
               PROVE  \E q \in 1 .. Len(t) : Answers(t, p, q)
  BY DEF WellAnswered, t, first
<1>5. CASE p \in 1 .. Len(s)
  <2>1. PICK q \in 1 .. Len(s) : Answers(s, p, q)
    BY <1>3, <1>4, <1>5 DEF WellAnswered
  <2>2. /\ q \in Int /\ p \in Int /\ q < p /\ p <= Len(s)
        /\ \A r \in (q + 1) .. p : r \in 1 .. Len(s)
    BY <1>0, <1>5, <2>1 DEF Answers
  <2>3. \A r \in (q + 1) .. p : t[r].kind = "tool"
    BY <1>3, <2>1, <2>2 DEF Answers
  <2>4. t[q] = s[q] /\ t[p] = s[p]
    BY <1>3, <1>5
  <2>5. Answers(t, p, q)
    BY <2>1, <2>3, <2>4 DEF Answers, IsAssistant
  <2> QED
    BY <1>0, <1>3, <2>5
<1>6. CASE p \notin 1 .. Len(s)
  <2>1. PICK i \in 1 .. n : p = Len(s) + i
    <3>1. p - Len(s) \in 1 .. n
      BY <1>0, <1>3, <1>6
    <3> QED
      BY <1>0, <3>1
  <2>2. \A r \in (Len(s) + 1) .. p : t[r].kind = "tool"
    <3>1. SUFFICES ASSUME NEW r \in (Len(s) + 1) .. p
                   PROVE  t[r].kind = "tool"
      OBVIOUS
    <3>2. r - Len(s) \in 1 .. n /\ r = Len(s) + (r - Len(s))
      BY <1>0, <2>1
    <3>3. t[Len(s) + (r - Len(s))].kind = "tool"
      BY <1>2, <1>3, <3>2, ZenonT(60)
    <3> QED
      BY <3>2, <3>3
  <2>3. /\ t[Len(s)] = s[Len(s)]
        /\ Len(s) < p /\ p - Len(s) = i /\ i <= Len(calls)
    <3>1. Len(calls) \in Nat /\ n \in Int /\ n <= Len(calls)
      OBVIOUS
    <3>2. t[Len(s)] = s[Len(s)]
      BY <1>0, <1>3, SMTT(60)
    <3> QED
      BY <1>0, <2>1, <3>1, <3>2
  <2>4. t[p].by = a /\ t[p].calls = << calls[i] >>
    BY <1>2, <1>3, <2>1
  <2>5. IsAssistant(s[Len(s)])
    BY DEF IsAssistant
  <2>6. Answers(t, p, Len(s))
    BY <2>2, <2>3, <2>4, <2>5 DEF Answers
  <2> QED
    BY <1>0, <1>3, <2>6, SMTT(60)
<1> QED
  BY <1>5, <1>6

-----------------------------------------------------------------------------

(***************************************************************************)
(* That the results in the transcript answer calls is not inductive by     *)
(* itself: the tools node must be known to run right after the message     *)
(* whose calls are pending.                                                *)
(***************************************************************************)
RunInv == TypeOKRun /\ PendingMatchesNode /\ ToolsAnswerCalls

\* Where an edge may lead that is taken with no tool calls pending.
PlainNodes == {n \in Nodes : n.fn # "tools"}

\* Every node an edge may lead to is a node of the graph; only the tools nodes are not plain.
LEMMA NodeFacts ==
  /\ \A a \in Agents :
       /\ AgentNode(a) \in PlainNodes /\ AgentNode(a) # End
       /\ ToolsNode(a) \in Nodes /\ ToolsNode(a) # End
       /\ ToolsNode(a).fn = "tools" /\ ToolsNode(a).agent = a
       /\ AgentNode(a) # ToolsNode(a)
  /\ End \in PlainNodes
  /\ SyntheticNode("select") \in PlainNodes
  /\ SyntheticNode("select") # End
<1>1. \A a \in Agents :
        AgentNode(a).fn = "agent" /\ ToolsNode(a).fn = "tools" /\ ToolsNode(a).agent = a
  BY DEF AgentNode, ToolsNode
<1>2. End.fn = "end" /\ SyntheticNode("select").fn = "select"
  BY DEF End, SyntheticNode
<1>3. \A a \in Agents : AgentNode(a) \in Nodes /\ ToolsNode(a) \in Nodes
  BY DEF AgentNode, ToolsNode, Nodes
<1>4. End \in Nodes /\ SyntheticNode("select") \in Nodes
  BY DEF End, Nodes
<1> QED
  BY <1>1, <1>2, <1>3, <1>4 DEF PlainNodes

\* A super-step leaves the run going only below the limit and short of END.
LEMMA GotoFacts ==
  ASSUME ran \in 0 .. RecursionLimit, ran < RecursionLimit, NEW n \in Nodes, Goto(n)
  PROVE  /\ node' = n
         /\ ran' \in 0 .. RecursionLimit
         /\ outcome' \in {"running", "done", "recursion"}
         /\ outcome' = "running" => n # End /\ ran' < RecursionLimit
         /\ outcome' = "done" => n = End
<1>1. RecursionLimit \in Nat
  BY AgentRunAssumption
<1> QED
  BY <1>1 DEF Goto

\* max_calls_per_turn lets at least one call through, and at most all of them.
LEMMA LimitFacts ==
  ASSUME NEW a \in Agents, NEW calls \in Seq(Tools), calls # << >>
  PROVE  Limit(a, calls) \in 1 .. Len(calls)
<1>1. MaxCalls[a] \in Int /\ Len(calls) \in Nat /\ Len(calls) > 0
  BY AgentRunAssumption
<1> QED
  BY <1>1 DEF Limit

\* A fresh run satisfies the invariant, whatever plain node it starts at.
LEMMA StartInv ==
  ASSUME NEW n \in PlainNodes, n # End, StartAt(n)
  PROVE  RunInv
<1>1. Input \in Message /\ Input.kind = "input"
  BY DEF Input, Message, Kinds
<1>2. /\ messages = << Input >> /\ toolCalls = << >> /\ steps = 0
      /\ finish = [reason |-> "none", of |-> 0] /\ node = n /\ ran = 0 /\ outcome = "running"
  BY DEF StartAt
<1>3. messages \in Seq(Message) /\ Len(messages) = 1 /\ messages[1].kind = "input"
  BY <1>1, <1>2
<1>4. RecursionLimit \in Nat \ {0}
  BY AgentRunAssumption
<1>5. node \in Nodes /\ node.fn # "tools" /\ node # End
  BY <1>2 DEF PlainNodes
<1>6. TypeOKRun
  <2>1. finish \in [reason : Reasons, of : Nat]
    BY <1>2 DEF Reasons
  <2> QED
    BY <1>2, <1>3, <1>4, <1>5, <2>1 DEF TypeOKRun
<1>7. PendingMatchesNode
  BY <1>2, <1>4, <1>5 DEF PendingMatchesNode
<1>8. ToolsAnswerCalls
  BY <1>3 DEF ToolsAnswerCalls, WellAnswered
<1> QED
  BY <1>6, <1>7, <1>8 DEF RunInv

-----------------------------------------------------------------------------
(***************************************************************************)
(* agent_fn                                                                *)
(***************************************************************************)
\* Recording an assistant turn keeps the invariant when the edge leads to the tools
\* node exactly if the turn left calls: what both turns of agent_fn rest on.
LEMMA RecordTurnInv ==
  ASSUME RunInv, Running,
         NEW kind \in {"reply", "refusal"}, NEW a \in Agents, NEW calls \in Seq(Tools),
         NEW attempts \in Nat, NEW reason \in Reasons,
         RecordTurn(kind, a, calls, attempts, reason),
         NEW n \in Nodes, Goto(n),
         calls # << >> <=> n.fn = "tools",
         n.fn = "tools" => n.agent = a /\ kind = "reply"
  PROVE  RunInv'
<1> DEFINE m == AssistantMessage(kind, a, calls)
<1>1. m \in Message /\ m.kind = kind /\ m.by = a /\ m.calls = calls
  BY DEF AssistantMessage, Message, Kinds
<1> HIDE DEF m
<1>2. /\ messages \in Seq(Message) /\ messages' = Append(messages, m)
      /\ toolCalls' = calls /\ steps \in Nat /\ steps' = steps + attempts
      /\ finish' \in [reason : Reasons, of : Nat]
  BY DEF RunInv, TypeOKRun, RecordTurn, FinishOf, m
<1>3. /\ node' = n
      /\ ran' \in 0 .. RecursionLimit
      /\ outcome' \in {"running", "done", "recursion"}
      /\ outcome' = "running" => n # End /\ ran' < RecursionLimit
  BY GotoFacts DEF RunInv, TypeOKRun, PendingMatchesNode
<1>4. messages' \in Seq(Message) /\ Len(messages') > 0 /\ messages'[Len(messages')] = m
  BY <1>1, <1>2
<1>5. TypeOKRun'
  BY <1>2, <1>3, <1>4 DEF TypeOKRun, Errors
<1>6. PendingMatchesNode'
  BY <1>1, <1>2, <1>3, <1>4 DEF PendingMatchesNode, Running
<1>7. ToolsAnswerCalls'
  <2>1. m.kind # "tool" /\ WellAnswered(messages)
    BY <1>1 DEF RunInv, ToolsAnswerCalls
  <2>2. WellAnswered(Append(messages, m))
    BY <1>1, <1>2, <2>1, AppendKeepsAnswers
  <2> QED
    BY <1>2, <2>2 DEF ToolsAnswerCalls
<1> QED
  BY <1>5, <1>6, <1>7 DEF RunInv

\* An exception that leaves the transcript alone keeps the invariant.
LEMMA RaiseInv ==
  ASSUME RunInv, NEW e \in Errors, Raise(e),
         UNCHANGED << messages, toolCalls, steps, finish >>
  PROVE  RunInv'
<1>1. e # "running"
  BY DEF Errors
<1> QED
  BY <1>1 DEF RunInv, TypeOKRun, PendingMatchesNode, Running, ToolsAnswerCalls, Raise

\* A node that only decides where to go.
LEMMA MoveInv ==
  ASSUME RunInv, Running, node.fn # "tools", NEW n \in PlainNodes, Goto(n),
         UNCHANGED << messages, toolCalls, steps, finish >>
  PROVE  RunInv'
<1>1. n \in Nodes /\ n.fn # "tools" /\ toolCalls = << >> /\ ran < RecursionLimit
  BY DEF PlainNodes, RunInv, PendingMatchesNode
<1>2. /\ node' = n
      /\ ran' \in 0 .. RecursionLimit
      /\ outcome' \in {"running", "done", "recursion"}
      /\ outcome' = "running" => n # End /\ ran' < RecursionLimit
  BY <1>1, GotoFacts DEF RunInv, TypeOKRun
<1>3. TypeOKRun'
  BY <1>1, <1>2 DEF RunInv, TypeOKRun, Errors
<1>4. PendingMatchesNode'
  BY <1>1, <1>2 DEF PendingMatchesNode, Running
<1>5. ToolsAnswerCalls'
  BY DEF RunInv, ToolsAnswerCalls
<1> QED
  BY <1>3, <1>4, <1>5 DEF RunInv

(***************************************************************************)
(* agent_fn keeps the invariant, blocked, structured, chatting or failing, *)
(* wherever its builder sends the run once no calls are pending.           *)
(***************************************************************************)
THEOREM AgentFnInv ==
  ASSUME RunInv, NEW a \in Agents, NEW onward \in SUBSET PlainNodes, AgentFn(a, onward)
  PROVE  RunInv'
<1> USE NodeFacts
<1>1. Running /\ \A n \in onward : n \in Nodes /\ n.fn # "tools"
  BY DEF AgentFn, PlainNodes
<1>2. << >> \in Seq(Tools)
  OBVIOUS
<1>3. CASE BlockedTurn(a, onward)
  <2>1. PICK n \in onward : Goto(n)
    BY <1>3 DEF BlockedTurn
  <2>2. RecordTurn("refusal", a, << >>, 1, "content_filter")
    BY <1>3 DEF BlockedTurn
  <2> QED
    BY <1>1, <1>2, <2>1, <2>2, RecordTurnInv DEF Reasons
<1>4. CASE StructuredTurn(a, onward)
  <2>1. PICK n \in onward : Goto(n)
    BY <1>4 DEF StructuredTurn
  <2>2. PICK k \in 1 .. MaxAttempts, reason \in Reasons : RecordTurn("reply", a, << >>, k, reason)
    BY <1>4 DEF StructuredTurn
  <2>3. k \in Nat
    BY AgentRunAssumption
  <2> QED
    BY <1>1, <1>2, <2>1, <2>2, <2>3, RecordTurnInv
<1>5. CASE ChatTurn(a, onward)
  <2>1. PICK calls \in Replies, reason \in Reasons :
          /\ RecordTurn("reply", a, calls, 1, reason)
          /\ \E n \in (IF calls # << >> THEN {ToolsNode(a)} ELSE onward) : Goto(n)
    BY <1>5 DEF ChatTurn
  <2>2. calls \in Seq(Tools)
    BY AgentRunAssumption
  <2>3. CASE calls # << >>
    <3>1. Goto(ToolsNode(a))
      BY <2>1, <2>3
    <3> QED
      BY <1>1, <2>1, <2>2, <2>3, <3>1, RecordTurnInv
  <2>4. CASE calls = << >>
    <3>1. PICK n \in onward : Goto(n)
      BY <2>1, <2>4
    <3> QED
      BY <1>1, <2>1, <2>2, <2>4, <3>1, RecordTurnInv
  <2> QED
    BY <2>3, <2>4
<1>6. CASE TurnFails(a)
  <2>1. PICK e \in {"model", "structured"} : Raise(e)
    BY <1>6 DEF TurnFails
  <2>2. e \in Errors
    BY DEF Errors
  <2> QED
    BY <1>6, <2>1, <2>2, RaiseInv DEF TurnFails
<1> QED
  BY <1>3, <1>4, <1>5, <1>6 DEF AgentFn

-----------------------------------------------------------------------------
(***************************************************************************)
(* tools_fn                                                                *)
(***************************************************************************)
\* Appending the results of the first n pending calls keeps the transcript in order.
LEMMA AnswerFirstFacts ==
  ASSUME RunInv, Running, NEW a \in Agents, node = ToolsNode(a),
         NEW n \in 0 .. Len(toolCalls), AnswerFirst(a, n)
  PROVE  /\ messages' \in Seq(Message)
         /\ Len(messages') > 0
         /\ WellAnswered(messages')
<1> USE NodeFacts
<1>1. /\ messages \in Seq(Message) /\ messages # << >> /\ Len(messages) > 0
      /\ toolCalls \in Seq(Tools) /\ WellAnswered(messages)
  BY DEF RunInv, TypeOKRun, ToolsAnswerCalls
<1>2. /\ messages[Len(messages)].kind = "reply"
      /\ messages[Len(messages)].by = a
      /\ messages[Len(messages)].calls = toolCalls
  BY DEF RunInv, PendingMatchesNode
<1> DEFINE first == SubSeq(toolCalls, 1, n)
<1>3. first \in Seq(Tools)
  BY <1>1
<1>4. Results(a, first) \in Seq(Message)
  BY <1>3, ResultsType
<1>5. messages' = messages \o Results(a, first)
  BY DEF AnswerFirst
<1>6. WellAnswered(messages \o Results(a, first))
  BY <1>1, <1>2, ResultsKeepAnswers
<1>7. messages' \in Seq(Message) /\ Len(messages') = Len(messages) + Len(Results(a, first))
  BY <1>1, <1>4, <1>5, ConcatFacts
<1> QED
  BY <1>1, <1>4, <1>5, <1>6, <1>7

(***************************************************************************)
(* tools_fn keeps the invariant, whether the whole batch is answered or a  *)
(* call raises after some of the results have been appended.               *)
(***************************************************************************)
THEOREM ToolsFnInv ==
  ASSUME RunInv, NEW a \in Agents, NEW back \in PlainNodes, ToolsFn(a, back)
  PROVE  RunInv'
<1> USE NodeFacts
<1>1. Running /\ node = ToolsNode(a) /\ back \in Nodes /\ back.fn # "tools"
  BY DEF ToolsFn, PlainNodes
<1>2. toolCalls \in Seq(Tools) /\ toolCalls # << >> /\ ran < RecursionLimit
  BY <1>1 DEF RunInv, TypeOKRun, PendingMatchesNode
<1>3. Limit(a, toolCalls) \in 1 .. Len(toolCalls) /\ Len(toolCalls) \in Nat
  BY <1>2, LimitFacts
<1>4. CASE ToolsAnswer(a, back)
  <2>1. Limit(a, toolCalls) \in 0 .. Len(toolCalls) /\ AnswerFirst(a, Limit(a, toolCalls))
    BY <1>3, <1>4 DEF ToolsAnswer
  <2>2. messages' \in Seq(Message) /\ Len(messages') > 0 /\ WellAnswered(messages')
    BY <1>1, <2>1, AnswerFirstFacts
  <2>3. toolCalls' = << >> /\ Goto(back) /\ UNCHANGED << steps, finish >>
    BY <1>4 DEF ToolsAnswer
  <2>4. /\ node' = back
        /\ ran' \in 0 .. RecursionLimit
        /\ outcome' \in {"running", "done", "recursion"}
        /\ outcome' = "running" => back # End /\ ran' < RecursionLimit
    BY <1>1, <1>2, <2>3, GotoFacts DEF RunInv, TypeOKRun
  <2>5. TypeOKRun'
    BY <1>1, <2>2, <2>3, <2>4 DEF RunInv, TypeOKRun, Errors
  <2>6. PendingMatchesNode'
    BY <1>1, <2>3, <2>4 DEF PendingMatchesNode, Running
  <2> QED
    BY <2>2, <2>5, <2>6 DEF RunInv, ToolsAnswerCalls
<1>5. CASE ToolsFail(a)
  <2>1. PICK j \in 1 .. Limit(a, toolCalls) :
          /\ AnswerFirst(a, j - 1)
          /\ Raise(IF toolCalls[j] \in Attached[a] THEN "tool" ELSE "detached")
    BY <1>5 DEF ToolsFail
  <2>2. j - 1 \in 0 .. Len(toolCalls)
    BY <1>3
  <2>3. messages' \in Seq(Message) /\ Len(messages') > 0 /\ WellAnswered(messages')
    BY <1>1, <2>1, <2>2, AnswerFirstFacts
  <2>4. UNCHANGED << toolCalls, steps, finish, node, ran >> /\ outcome' \in {"tool", "detached"}
    BY <1>5, <2>1 DEF ToolsFail, Raise
  <2>5. TypeOKRun'
    BY <2>3, <2>4 DEF RunInv, TypeOKRun, Errors
  <2>6. PendingMatchesNode'
    BY <2>4 DEF PendingMatchesNode, Running
  <2> QED
    BY <2>3, <2>5, <2>6 DEF RunInv, ToolsAnswerCalls
<1> QED
  BY <1>4, <1>5 DEF ToolsFn

-----------------------------------------------------------------------------
(***************************************************************************)
(* Every step of a node is a step of the engine's contract.                *)
(***************************************************************************)
\* Nothing appended is the same as no result appended.
LEMMA NoResults ==
  ASSUME NEW s \in Seq(Message), NEW a \in Agents \cup {User}, NEW calls \in Seq(Tools)
  PROVE  s \o Results(a, SubSeq(calls, 1, 0)) = s
<1>1. SubSeq(calls, 1, 0) \in Seq(Tools) /\ Len(SubSeq(calls, 1, 0)) = 0
  OBVIOUS
<1>2. Results(a, SubSeq(calls, 1, 0)) \in Seq(Message)
  BY <1>1, ResultsType
<1>3. Len(Results(a, SubSeq(calls, 1, 0))) = 0
  BY <1>1, ResultsType
<1>4. Results(a, SubSeq(calls, 1, 0)) = << >>
  BY <1>2, <1>3
<1> QED
  BY <1>4

\* The contract's transcripts are this module's.
LEMMA SameTranscripts ==
  /\ \A a, calls : Engine!Results(a, calls) = Results(a, calls)
  /\ \A k, a, calls : Engine!AssistantMessage(k, a, calls) = AssistantMessage(k, a, calls)
BY DEF Engine!Results, Results, Engine!AssistantMessage, AssistantMessage

\* How the status of the contract tells the outcomes of the engine apart.
LEMMA StatusFacts ==
  /\ Running <=> Status = "running"
  /\ outcome \in {"running", "done"} \cup Errors =>
       Status \in {"running", "done", "failed"}
  /\ Status = "done" <=> outcome = "done"
  /\ outcome \in Errors => Status = "failed"
BY DEF Running, Status, Errors

\* A fresh run of the engine is a fresh run of the contract.
LEMMA StartRefines ==
  ASSUME NEW n, StartAt(n)
  PROVE  Engine!EngineInit
BY DEF StartAt, Engine!EngineInit, Status, Errors, Input, Engine!Input

\* A recorded turn is a Turn of the contract, wherever the edge leads.
LEMMA RecordTurnRefines ==
  ASSUME RunInv, Running, node.fn # "tools",
         NEW kind \in {"reply", "refusal"}, NEW a \in Agents, NEW calls \in Seq(Tools),
         NEW attempts \in Nat \ {0}, NEW reason,
         RecordTurn(kind, a, calls, attempts, reason),
         kind = "refusal" => calls = << >>,
         NEW n \in Nodes, Goto(n),
         calls # << >> => n.fn = "tools"
  PROVE  Engine!EngineNext
<1> USE NodeFacts
<1>1. /\ toolCalls = << >> /\ steps \in Nat
      /\ ran \in 0 .. RecursionLimit /\ ran < RecursionLimit
  BY DEF RunInv, TypeOKRun, PendingMatchesNode
<1>2. /\ messages' = Append(messages, AssistantMessage(kind, a, calls))
      /\ toolCalls' = calls /\ steps' \in Nat /\ steps' > steps
  BY <1>1 DEF RecordTurn
<1>3. outcome' \in {"running", "done", "recursion"} /\ (outcome' = "done" => n = End)
  BY <1>1, GotoFacts
<1>4. Status' \in {"running", "failed"} \cup (IF calls = << >> THEN {"done"} ELSE {})
  <2>1. calls # << >> => outcome' # "done"
    BY <1>3 DEF PlainNodes
  <2> QED
    BY <1>3, <2>1 DEF Status, Errors
<1>5. Engine!Turn
  BY <1>1, <1>2, <1>4, SameTranscripts DEF Engine!Turn
<1> QED
  BY <1>5, StatusFacts DEF Engine!EngineNext

\* An exception that leaves the transcript alone is a Fail of the contract.
LEMMA RaiseRefines ==
  ASSUME RunInv, Running, NEW e \in Errors, Raise(e), UNCHANGED << messages, toolCalls, steps >>
  PROVE  Engine!EngineNext
<1>1. Status' = "failed"
  BY DEF Raise, Status
<1>2. /\ messages \in Seq(Message) /\ Len(messages) > 0 /\ toolCalls \in Seq(Tools)
      /\ Len(toolCalls) \in Nat
  BY DEF RunInv, TypeOKRun
<1>3. messages[Len(messages)].by \in Agents \cup {User}
  <2>1. messages[Len(messages)] \in Message
    BY <1>2
  <2> QED
    BY <2>1 DEF Message
<1>4. messages \o Results(messages[Len(messages)].by, SubSeq(toolCalls, 1, 0)) = messages
  BY <1>2, <1>3, NoResults
<1>5. 0 \in 0 .. Len(toolCalls)
  BY <1>2
<1>6. Engine!Fail
  BY <1>1, <1>4, <1>5, SameTranscripts DEF Engine!Fail
<1> QED
  BY <1>6, StatusFacts DEF Engine!EngineNext

\* A node that only decides where to go stutters, or ends the run.
LEMMA MoveRefines ==
  ASSUME RunInv, Running, node.fn # "tools", NEW n \in Nodes, Goto(n),
         UNCHANGED << messages, toolCalls, steps >>
  PROVE  [Engine!EngineNext]_(Engine!engineVars)
<1>1. toolCalls = << >> /\ ran \in 0 .. RecursionLimit /\ ran < RecursionLimit
  BY DEF RunInv, TypeOKRun, PendingMatchesNode
<1>2. outcome' \in {"running", "done", "recursion"}
  BY <1>1, GotoFacts
<1>3. CASE outcome' = "running"
  <2>1. Status' = Status
    BY <1>3 DEF Running, Status, Errors
  <2> QED
    BY <2>1 DEF Engine!engineVars
<1>4. CASE outcome' = "done"
  <2>1. Status' = "done"
    BY <1>4 DEF Status, Errors
  <2>2. Engine!Stop
    BY <1>1, <2>1 DEF Engine!Stop
  <2> QED
    BY <2>2, StatusFacts DEF Engine!EngineNext
<1>5. CASE outcome' = "recursion"
  <2>1. Status' = "failed"
    BY <1>5 DEF Status, Errors
  <2>2. /\ messages \in Seq(Message) /\ Len(messages) > 0 /\ << >> \in Seq(Tools)
    BY DEF RunInv, TypeOKRun
  <2>3. messages[Len(messages)].by \in Agents \cup {User}
    <3>1. messages[Len(messages)] \in Message
      BY <2>2
    <3> QED
      BY <3>1 DEF Message
  <2>4. messages \o Results(messages[Len(messages)].by, SubSeq(toolCalls, 1, 0)) = messages
    BY <1>1, <2>2, <2>3, NoResults
  <2>5. Engine!Fail
    BY <1>1, <2>1, <2>4, SameTranscripts DEF Engine!Fail
  <2> QED
    BY <2>5, StatusFacts DEF Engine!EngineNext
<1> QED
  BY <1>2, <1>3, <1>4, <1>5

(***************************************************************************)
(* Every step of agent_fn is a Turn of the contract, or a Fail that leaves *)
(* the transcript alone.                                                   *)
(***************************************************************************)
THEOREM AgentFnRefines ==
  ASSUME RunInv, NEW a \in Agents, NEW onward \in SUBSET PlainNodes, AgentFn(a, onward)
  PROVE  Engine!EngineNext
<1> USE NodeFacts
<1>1. Running /\ node.fn # "tools" /\ \A n \in onward : n \in Nodes /\ n.fn # "tools"
  BY DEF AgentFn, PlainNodes
<1>2. << >> \in Seq(Tools) /\ 1 \in Nat \ {0}
  OBVIOUS
<1>3. CASE BlockedTurn(a, onward)
  <2>1. PICK n \in onward : Goto(n)
    BY <1>3 DEF BlockedTurn
  <2>2. RecordTurn("refusal", a, << >>, 1, "content_filter")
    BY <1>3 DEF BlockedTurn
  <2> QED
    BY <1>1, <1>2, <2>1, <2>2, RecordTurnRefines
<1>4. CASE StructuredTurn(a, onward)
  <2>1. PICK n \in onward : Goto(n)
    BY <1>4 DEF StructuredTurn
  <2>2. PICK k \in 1 .. MaxAttempts, reason \in Reasons : RecordTurn("reply", a, << >>, k, reason)
    BY <1>4 DEF StructuredTurn
  <2>3. k \in Nat \ {0}
    BY AgentRunAssumption
  <2> QED
    BY <1>1, <1>2, <2>1, <2>2, <2>3, RecordTurnRefines
<1>5. CASE ChatTurn(a, onward)
  <2>1. PICK calls \in Replies, reason \in Reasons :
          /\ RecordTurn("reply", a, calls, 1, reason)
          /\ \E n \in (IF calls # << >> THEN {ToolsNode(a)} ELSE onward) : Goto(n)
    BY <1>5 DEF ChatTurn
  <2>2. calls \in Seq(Tools)
    BY AgentRunAssumption
  <2>3. PICK n \in Nodes : Goto(n) /\ (calls # << >> => n.fn = "tools")
    BY <1>1, <2>1
  <2> QED
    BY <1>1, <1>2, <2>1, <2>2, <2>3, RecordTurnRefines
<1>6. CASE TurnFails(a)
  <2>1. /\ UNCHANGED << messages, toolCalls, steps >>
        /\ Status' = "failed"
    BY <1>6 DEF TurnFails, Raise, Status, Errors
  <2>2. /\ messages \in Seq(Message) /\ Len(messages) > 0 /\ toolCalls = << >>
        /\ << >> \in Seq(Tools)
    BY <1>1 DEF RunInv, TypeOKRun, PendingMatchesNode
  <2>3. messages[Len(messages)].by \in Agents \cup {User}
    <3>1. messages[Len(messages)] \in Message
      BY <2>2
    <3> QED
      BY <3>1 DEF Message
  <2>4. messages \o Results(messages[Len(messages)].by, SubSeq(toolCalls, 1, 0)) = messages
    BY <2>2, <2>3, NoResults
  <2>5. Engine!Fail
    BY <2>1, <2>2, <2>4, SameTranscripts DEF Engine!Fail
  <2> QED
    BY <1>1, <2>5, StatusFacts DEF Engine!EngineNext
<1> QED
  BY <1>3, <1>4, <1>5, <1>6 DEF AgentFn

(***************************************************************************)
(* Every step of tools_fn is an Answer of the contract, or a Fail with the *)
(* results of the calls before the one that raised.                        *)
(***************************************************************************)
THEOREM ToolsFnRefines ==
  ASSUME RunInv, NEW a \in Agents, NEW back \in PlainNodes, back # End, ToolsFn(a, back)
  PROVE  Engine!EngineNext
<1> USE NodeFacts
<1>1. Running /\ node = ToolsNode(a) /\ back \in Nodes
  BY DEF ToolsFn, PlainNodes
<1>2. /\ toolCalls \in Seq(Tools) /\ toolCalls # << >> /\ messages \in Seq(Message)
      /\ ran \in 0 .. RecursionLimit /\ ran < RecursionLimit
      /\ messages[Len(messages)].by = a
  BY <1>1 DEF RunInv, TypeOKRun, PendingMatchesNode
<1>3. Limit(a, toolCalls) \in 1 .. Len(toolCalls) /\ Len(toolCalls) \in Nat
  BY <1>2, LimitFacts
<1>4. CASE ToolsAnswer(a, back)
  <2>1. /\ AnswerFirst(a, Limit(a, toolCalls)) /\ toolCalls' = << >> /\ Goto(back)
        /\ UNCHANGED steps
    BY <1>4 DEF ToolsAnswer
  <2>2. outcome' \in {"running", "recursion"}
    BY <1>1, <1>2, <2>1, GotoFacts
  <2>3. Status' \in {"running", "failed"}
    BY <2>2 DEF Status, Errors
  <2>4. Engine!Answer
    BY <1>2, <1>3, <2>1, <2>3, SameTranscripts DEF Engine!Answer, AnswerFirst
  <2> QED
    BY <1>1, <2>4, StatusFacts DEF Engine!EngineNext
<1>5. CASE ToolsFail(a)
  <2>1. PICK j \in 1 .. Limit(a, toolCalls) :
          /\ AnswerFirst(a, j - 1)
          /\ Raise(IF toolCalls[j] \in Attached[a] THEN "tool" ELSE "detached")
    BY <1>5 DEF ToolsFail
  <2>2. j - 1 \in 0 .. Len(toolCalls)
    BY <1>3
  <2>3. UNCHANGED << toolCalls, steps >> /\ Status' = "failed"
    BY <1>5, <2>1 DEF ToolsFail, Raise, Status, Errors
  <2>4. Engine!Fail
    BY <1>2, <2>1, <2>2, <2>3, SameTranscripts DEF Engine!Fail, AnswerFirst
  <2> QED
    BY <1>1, <2>4, StatusFacts DEF Engine!EngineNext
<1> QED
  BY <1>4, <1>5 DEF ToolsFn

-----------------------------------------------------------------------------
(***************************************************************************)
(* What the transcript tells of the order of things: the effect of each    *)
(* node, and what follows for the assistant messages that stand last or    *)
(* next to each other.                                                     *)
(***************************************************************************)
\* The last assistant message, only tool results after it.
LastSpeech(msgs, p) ==
  /\ p \in 1 .. Len(msgs)
  /\ IsAssistant(msgs[p])
  /\ \A r \in p + 1 .. Len(msgs) : msgs[r].kind = "tool"

\* msgs is old with results of an agent's calls after it.
Extends(msgs, old, a) ==
  /\ msgs \in Seq(Message)
  /\ Len(msgs) >= Len(old)
  /\ \A p \in 1 .. Len(old) : msgs[p] = old[p]
  /\ \A p \in Len(old) + 1 .. Len(msgs) : msgs[p].kind = "tool" /\ msgs[p].by = a

\* Where the elements of a sequence stand after appending one.
LEMMA AppendFacts ==
  ASSUME NEW s \in Seq(Message), NEW m \in Message
  PROVE  /\ Append(s, m) \in Seq(Message)
         /\ Len(Append(s, m)) = Len(s) + 1
         /\ \A p \in 1 .. Len(s) : Append(s, m)[p] = s[p]
         /\ Append(s, m)[Len(s) + 1] = m
OBVIOUS

\* The speech that is appended stands last, and follows the one that stood last before.
LEMMA SpeechAppended ==
  ASSUME NEW s \in Seq(Message), NEW m \in Message, IsAssistant(m)
  PROVE  /\ \A p : LastSpeech(Append(s, m), p) <=> p = Len(s) + 1
         /\ \A p, q \in 1 .. Len(Append(s, m)) :
              NextSpeech(Append(s, m), p, q) =>
                \/ p \in 1 .. Len(s) /\ q \in 1 .. Len(s) /\ NextSpeech(s, p, q)
                \/ q = Len(s) + 1 /\ LastSpeech(s, p)
<1> DEFINE t == Append(s, m)
<1>1. /\ t \in Seq(Message) /\ Len(t) = Len(s) + 1 /\ Len(s) \in Nat
      /\ \A p \in 1 .. Len(s) : t[p] = s[p]
      /\ t[Len(s) + 1] = m
  BY AppendFacts
<1> HIDE DEF t
<1>2. m.kind # "tool"
  BY DEF IsAssistant
<1>3. ASSUME NEW p, LastSpeech(t, p) PROVE p = Len(s) + 1
  <2>1. p \in 1 .. Len(s) + 1 /\ \A r \in p + 1 .. Len(s) + 1 : t[r].kind = "tool"
    BY <1>1, <1>3 DEF LastSpeech
  <2>2. ~(Len(s) + 1 \in p + 1 .. Len(s) + 1)
    BY <1>1, <1>2, <2>1
  <2> QED
    BY <1>1, <2>1, <2>2
<1>4. LastSpeech(t, Len(s) + 1)
  BY <1>1 DEF LastSpeech
<1>5. ASSUME NEW p \in 1 .. Len(t), NEW q \in 1 .. Len(t), NextSpeech(t, p, q)
      PROVE  \/ p \in 1 .. Len(s) /\ q \in 1 .. Len(s) /\ NextSpeech(s, p, q)
             \/ q = Len(s) + 1 /\ LastSpeech(s, p)
  <2>1. p < q /\ IsAssistant(t[p]) /\ IsAssistant(t[q]) /\ \A r \in p + 1 .. q - 1 : t[r].kind = "tool"
    BY <1>5 DEF NextSpeech
  <2>2. p \in 1 .. Len(s) /\ t[p] = s[p]
    BY <1>1, <2>1
  <2>3. \A r \in p + 1 .. q - 1 : r \in 1 .. Len(s) /\ s[r].kind = "tool"
    BY <1>1, <2>1
  <2>4. CASE q \in 1 .. Len(s)
    BY <1>1, <2>1, <2>2, <2>3, <2>4 DEF NextSpeech
  <2>5. CASE q = Len(s) + 1
    <3>1. q - 1 = Len(s)
      BY <1>1, <2>5
    <3> QED
      BY <2>1, <2>2, <2>3, <2>5, <3>1 DEF LastSpeech
  <2> QED
    BY <1>1, <2>4, <2>5
<1> QED
  BY <1>3, <1>4, <1>5 DEF t

\* Tool results change nothing about who spoke last, or after whom.
LEMMA SpeechExtended ==
  ASSUME NEW s \in Seq(Message), NEW a, NEW t, Extends(t, s, a)
  PROVE  /\ \A p : LastSpeech(t, p) => LastSpeech(s, p)
         /\ \A p, q \in 1 .. Len(t) :
              NextSpeech(t, p, q) =>
                p \in 1 .. Len(s) /\ q \in 1 .. Len(s) /\ NextSpeech(s, p, q)
<1>1. /\ Len(s) \in Nat /\ Len(t) \in Nat /\ Len(t) >= Len(s)
      /\ \A p \in 1 .. Len(s) : t[p] = s[p]
      /\ \A p \in Len(s) + 1 .. Len(t) : t[p].kind = "tool"
  BY DEF Extends
<1>2. ASSUME NEW p \in 1 .. Len(t), IsAssistant(t[p]) PROVE p \in 1 .. Len(s) /\ IsAssistant(s[p])
  <2>1. ~(p \in Len(s) + 1 .. Len(t))
    BY <1>1, <1>2 DEF IsAssistant
  <2>2. p \in 1 .. Len(s)
    BY <1>1, <2>1
  <2> QED
    BY <1>1, <1>2, <2>2
<1>3. ASSUME NEW p, LastSpeech(t, p) PROVE LastSpeech(s, p)
  <2>1. p \in 1 .. Len(s) /\ IsAssistant(s[p])
    BY <1>2, <1>3 DEF LastSpeech
  <2>2. \A r \in p + 1 .. Len(s) : r \in 1 .. Len(s) /\ r \in p + 1 .. Len(t)
    BY <1>1, <2>1
  <2> QED
    BY <1>1, <1>3, <2>1, <2>2 DEF LastSpeech
<1>4. ASSUME NEW p \in 1 .. Len(t), NEW q \in 1 .. Len(t), NextSpeech(t, p, q)
      PROVE  p \in 1 .. Len(s) /\ q \in 1 .. Len(s) /\ NextSpeech(s, p, q)
  <2>1. p \in 1 .. Len(s) /\ IsAssistant(s[p]) /\ q \in 1 .. Len(s) /\ IsAssistant(s[q])
    BY <1>2, <1>4 DEF NextSpeech
  <2>2. \A r \in p + 1 .. q - 1 : r \in 1 .. Len(s)
    BY <1>1, <2>1
  <2> QED
    BY <1>1, <1>4, <2>1, <2>2 DEF NextSpeech
<1> QED
  BY <1>3, <1>4

-----------------------------------------------------------------------------
\* One assistant turn of agent a: the message and where the edge leads.
Turned(a, onward, m, n) ==
  /\ m \in Message
  /\ IsAssistant(m)
  /\ m.by = a
  /\ messages' = Append(messages, m)
  /\ toolCalls' = m.calls
  /\ steps' \in Nat /\ steps' > steps
  /\ \E reason \in Reasons :
       /\ finish' = FinishOf(Len(messages) + 1, reason)
       /\ m.kind = "refusal" => reason = "content_filter"
  /\ m.kind = "refusal" => m.calls = << >>
  /\ n \in IF m.calls # << >> THEN {ToolsNode(a)} ELSE onward
  /\ Goto(n)

\* A node raised; nothing else happened.
Raised ==
  /\ outcome' \in Errors
  /\ UNCHANGED << messages, toolCalls, steps, finish, node, ran >>

\* A turn of any kind is one message, or nothing but an exception.
LEMMA TurnEffect ==
  ASSUME steps \in Nat, NEW a \in Agents, NEW onward \in SUBSET PlainNodes,
         \/ BlockedTurn(a, onward)
         \/ StructuredTurn(a, onward)
         \/ ChatTurn(a, onward)
         \/ TurnFails(a)
  PROVE  \/ Raised
         \/ \E m \in Message, n \in Nodes : Turned(a, onward, m, n)
<1> USE NodeFacts
<1>1. onward \subseteq Nodes
  BY DEF PlainNodes
<1>2. ASSUME NEW kind \in {"reply", "refusal"}, NEW calls \in Seq(Tools),
             NEW k \in Nat \ {0}, NEW reason \in Reasons,
             RecordTurn(kind, a, calls, k, reason),
             kind = "refusal" => calls = << >> /\ reason = "content_filter",
             \E n \in (IF calls # << >> THEN {ToolsNode(a)} ELSE onward) : Goto(n)
      PROVE  \E m \in Message, n \in Nodes : Turned(a, onward, m, n)
  <2> DEFINE m == AssistantMessage(kind, a, calls)
  <2>1. m \in Message /\ m.kind = kind /\ m.by = a /\ m.calls = calls
    BY DEF AssistantMessage, Message, Kinds
  <2>2. /\ messages' = Append(messages, m) /\ toolCalls' = calls
        /\ finish' = FinishOf(Len(messages) + 1, reason)
        /\ steps' \in Nat /\ steps' > steps
    BY <1>2 DEF RecordTurn
  <2> HIDE DEF m
  <2>3. IsAssistant(m)
    BY <2>1 DEF IsAssistant
  <2>4. PICK n \in (IF calls # << >> THEN {ToolsNode(a)} ELSE onward) : Goto(n)
    BY <1>2
  <2>5. n \in Nodes
    BY <1>1, <2>4
  <2>6. Turned(a, onward, m, n)
    BY <1>2, <2>1, <2>2, <2>3, <2>4 DEF Turned
  <2> QED
    BY <2>1, <2>5, <2>6
<1>3. << >> \in Seq(Tools) /\ 1 \in Nat \ {0} /\ "content_filter" \in Reasons
  BY DEF Reasons
<1>4. CASE BlockedTurn(a, onward)
  <2>1. /\ RecordTurn("refusal", a, << >>, 1, "content_filter")
        /\ \E n \in onward : Goto(n)
    BY <1>4 DEF BlockedTurn
  <2> QED
    BY <1>2, <1>3, <2>1
<1>5. CASE StructuredTurn(a, onward)
  <2>1. PICK k \in 1 .. MaxAttempts, reason \in Reasons : RecordTurn("reply", a, << >>, k, reason)
    BY <1>5 DEF StructuredTurn
  <2>2. \E n \in onward : Goto(n)
    BY <1>5 DEF StructuredTurn
  <2>3. k \in Nat \ {0}
    BY AgentRunAssumption
  <2> QED
    BY <1>2, <1>3, <2>1, <2>2, <2>3
<1>6. CASE ChatTurn(a, onward)
  <2>1. PICK calls \in Replies, reason \in Reasons :
          /\ RecordTurn("reply", a, calls, 1, reason)
          /\ \E n \in (IF calls # << >> THEN {ToolsNode(a)} ELSE onward) : Goto(n)
    BY <1>6 DEF ChatTurn
  <2>2. calls \in Seq(Tools)
    BY AgentRunAssumption
  <2> QED
    BY <1>2, <2>1, <2>2
<1>7. CASE TurnFails(a)
  BY <1>7 DEF TurnFails, Raise, Raised, Errors
<1> QED
  BY <1>4, <1>5, <1>6, <1>7

\* What agent_fn does is one turn.
LEMMA AgentFnEffect ==
  ASSUME RunInv, NEW a \in Agents, NEW onward \in SUBSET PlainNodes, AgentFn(a, onward)
  PROVE  \/ Raised
         \/ \E m \in Message, n \in Nodes : Turned(a, onward, m, n)
BY TurnEffect DEF AgentFn, RunInv, TypeOKRun

\* The first n pending calls of agent a are answered.
Answered(a, n) ==
  /\ AnswerFirst(a, n)
  /\ Extends(messages', messages, a)
  /\ Len(messages') = Len(messages) + n
  /\ UNCHANGED << steps, finish >>

\* What tools_fn does is to answer as many calls as the limit says, or fewer and raise.
LEMMA ToolsFnEffect ==
  ASSUME TypeOKRun, PendingMatchesNode, NEW a \in Agents, NEW back \in PlainNodes, ToolsFn(a, back)
  PROVE  \/ /\ Answered(a, Limit(a, toolCalls))
            /\ toolCalls' = << >>
            /\ Goto(back)
         \/ /\ \E n \in 0 .. Len(toolCalls) : n < Limit(a, toolCalls) /\ Answered(a, n)
            /\ outcome' \in Errors /\ outcome' \in {"tool", "detached"}
            /\ UNCHANGED << toolCalls, node, ran >>
<1> USE NodeFacts
<1>1. Running /\ node = ToolsNode(a)
  BY DEF ToolsFn
<1>2. /\ toolCalls \in Seq(Tools) /\ toolCalls # << >> /\ messages \in Seq(Message)
  BY <1>1 DEF TypeOKRun, PendingMatchesNode
<1>3. Limit(a, toolCalls) \in 1 .. Len(toolCalls) /\ Len(toolCalls) \in Nat
  BY <1>2, LimitFacts
<1>4. ASSUME NEW n \in 0 .. Len(toolCalls), AnswerFirst(a, n)
      PROVE  Extends(messages', messages, a) /\ Len(messages') = Len(messages) + n
  <2> DEFINE first == SubSeq(toolCalls, 1, n)
             r == Results(a, first)
  <2>1. first \in Seq(Tools) /\ Len(first) = n
    BY <1>2
  <2> HIDE DEF first
  <2>2. /\ r \in Seq(Message) /\ Len(r) = n
        /\ \A i \in 1 .. n : r[i].kind = "tool" /\ r[i].by = a
    BY <2>1, ResultsType
  <2>3. messages' = messages \o r
    BY <1>4 DEF AnswerFirst, first
  <2> HIDE DEF r
  <2>4. /\ messages' \in Seq(Message) /\ Len(messages') = Len(messages) + n
        /\ \A p \in 1 .. Len(messages) : messages'[p] = messages[p]
        /\ \A i \in 1 .. n : messages'[Len(messages) + i] = r[i]
    BY <1>2, <2>2, <2>3, ConcatFacts
  <2>5. ASSUME NEW p \in Len(messages) + 1 .. Len(messages')
        PROVE  messages'[p].kind = "tool" /\ messages'[p].by = a
    <3>1. p - Len(messages) \in 1 .. n /\ p = Len(messages) + (p - Len(messages))
      BY <1>2, <2>4
    <3>2. messages'[Len(messages) + (p - Len(messages))] = r[p - Len(messages)]
      BY <2>4, <3>1
    <3> QED
      BY <2>2, <3>1, <3>2
  <2>6. Len(messages) \in Nat /\ n >= 0
    BY <1>2
  <2> QED
    BY <2>4, <2>5, <2>6 DEF Extends
<1>5. CASE ToolsAnswer(a, back)
  <2>1. /\ Limit(a, toolCalls) \in 0 .. Len(toolCalls) /\ AnswerFirst(a, Limit(a, toolCalls))
        /\ toolCalls' = << >> /\ Goto(back) /\ UNCHANGED << steps, finish >>
    BY <1>3, <1>5 DEF ToolsAnswer
  <2> QED
    BY <1>4, <2>1 DEF Answered
<1>6. CASE ToolsFail(a)
  <2>1. PICK j \in 1 .. Limit(a, toolCalls) :
          /\ AnswerFirst(a, j - 1)
          /\ Raise(IF toolCalls[j] \in Attached[a] THEN "tool" ELSE "detached")
    BY <1>6 DEF ToolsFail
  <2>2. j - 1 \in 0 .. Len(toolCalls) /\ j - 1 < Limit(a, toolCalls)
    BY <1>3
  <2>3. /\ outcome' \in Errors /\ outcome' \in {"tool", "detached"}
        /\ UNCHANGED << toolCalls, steps, finish, node, ran >>
    BY <1>6, <2>1 DEF ToolsFail, Raise, Errors
  <2>4. Answered(a, j - 1)
    BY <1>4, <2>1, <2>2, <2>3 DEF Answered
  <2> QED
    BY <2>2, <2>3, <2>4
<1> QED
  BY <1>5, <1>6 DEF ToolsFn

-----------------------------------------------------------------------------
(***************************************************************************)
(* Types and pending calls do not depend on how the transcript came about: *)
(* they are kept also where it holds results nobody in it asked for.       *)
(***************************************************************************)
\* A turn.
LEMMA TurnedCore ==
  ASSUME TypeOKRun, PendingMatchesNode, Running, node.fn # "tools",
         NEW a \in Agents, NEW onward \in SUBSET PlainNodes,
         NEW m \in Message, NEW n \in Nodes, Turned(a, onward, m, n)
  PROVE  TypeOKRun' /\ PendingMatchesNode'
<1>1. /\ messages \in Seq(Message) /\ ran \in 0 .. RecursionLimit /\ ran < RecursionLimit
  BY DEF TypeOKRun, PendingMatchesNode
<1>2. /\ messages' \in Seq(Message) /\ Len(messages') > 0 /\ messages'[Len(messages')] = m
      /\ toolCalls' = m.calls /\ steps' \in Nat /\ finish' \in [reason : Reasons, of : Nat]
      /\ IsAssistant(m) /\ m.by = a
      /\ m.kind = "refusal" => m.calls = << >>
      /\ n \in IF m.calls # << >> THEN {ToolsNode(a)} ELSE onward
      /\ Goto(n)
  BY <1>1, AppendFacts DEF Turned, FinishOf
<1>3. m.calls \in Seq(Tools)
  BY DEF Message
<1>4. /\ node' = n /\ ran' \in 0 .. RecursionLimit
      /\ outcome' \in {"running", "done", "recursion"}
      /\ outcome' = "running" => n # End /\ ran' < RecursionLimit
  BY <1>1, <1>2, GotoFacts
<1>5. /\ m.calls # << >> <=> n.fn = "tools"
      /\ n.fn = "tools" => n.agent = a /\ m.kind = "reply"
  BY <1>2, NodeFacts DEF PlainNodes, IsAssistant
<1>6. TypeOKRun'
  BY <1>2, <1>3, <1>4 DEF TypeOKRun, Errors
<1>7. PendingMatchesNode'
  BY <1>2, <1>4, <1>5 DEF PendingMatchesNode, Running
<1> QED
  BY <1>6, <1>7

\* The results of a batch, or of the calls before the one that raised.
LEMMA ToolsCore ==
  ASSUME TypeOKRun, PendingMatchesNode, NEW a \in Agents, NEW back \in PlainNodes, ToolsFn(a, back)
  PROVE  TypeOKRun' /\ PendingMatchesNode'
<1>1. /\ messages \in Seq(Message) /\ Len(messages) \in Nat /\ Len(messages) > 0
      /\ toolCalls \in Seq(Tools) /\ steps \in Nat /\ finish \in [reason : Reasons, of : Nat]
      /\ ran \in 0 .. RecursionLimit /\ ran < RecursionLimit /\ node \in Nodes
  BY DEF ToolsFn, TypeOKRun, PendingMatchesNode
<1>2. ASSUME NEW n, Answered(a, n)
      PROVE  messages' \in Seq(Message) /\ Len(messages') > 0 /\ UNCHANGED << steps, finish >>
  <2>1. messages' \in Seq(Message) /\ Len(messages') \in Nat /\ Len(messages') >= Len(messages)
    BY <1>2 DEF Answered, Extends
  <2> QED
    BY <1>1, <1>2, <2>1 DEF Answered
<1>3. CASE Answered(a, Limit(a, toolCalls)) /\ toolCalls' = << >> /\ Goto(back)
  <2>1. back \in Nodes /\ back.fn # "tools"
    BY DEF PlainNodes
  <2>2. /\ node' = back /\ ran' \in 0 .. RecursionLimit
        /\ outcome' \in {"running", "done", "recursion"}
        /\ outcome' = "running" => back # End /\ ran' < RecursionLimit
    BY <1>1, <1>3, <2>1, GotoFacts
  <2>3. TypeOKRun'
    BY <1>1, <1>2, <1>3, <2>1, <2>2 DEF TypeOKRun, Errors
  <2>4. PendingMatchesNode'
    BY <1>3, <2>1, <2>2 DEF PendingMatchesNode, Running
  <2> QED
    BY <2>3, <2>4
<1>4. ASSUME NEW n, Answered(a, n), outcome' \in Errors, UNCHANGED << toolCalls, node, ran >>
      PROVE  TypeOKRun' /\ PendingMatchesNode'
  <2>1. TypeOKRun'
    BY <1>1, <1>2, <1>4 DEF TypeOKRun
  <2>2. PendingMatchesNode'
    BY <1>4 DEF PendingMatchesNode, Running, Errors
  <2> QED
    BY <2>1, <2>2
<1> QED
  BY <1>3, <1>4, ToolsFnEffect

-----------------------------------------------------------------------------
(***************************************************************************)
(* Who asked for tools is the next to speak, after as many results as the  *)
(* limit lets through.  The transcript says so of the past, CallerIsNext   *)
(* of the speech that is still to come.                                    *)
(***************************************************************************)
CallsResumed ==
  \A p, q \in 1 .. Len(messages) :
    NextSpeech(messages, p, q) /\ messages[p].calls # << >> =>
      /\ messages[q].by = messages[p].by
      /\ q - p = 1 + Limit(messages[p].by, messages[p].calls)

CallerIsNext ==
  Running =>
    \A p \in 1 .. Len(messages) :
      LastSpeech(messages, p) /\ messages[p].calls # << >> =>
        IF node.fn = "tools" THEN p = Len(messages) /\ node.agent = messages[p].by
        ELSE /\ p + Limit(messages[p].by, messages[p].calls) = Len(messages)
             /\ node = AgentNode(messages[p].by)

SpeakersAreAgents == \A p \in 1 .. Len(messages) : IsAssistant(messages[p]) => messages[p].by \in Agents

OrderInv ==
  /\ SpeakersAreAgents
  /\ FinishIsLastTurns
  /\ CallsResumed
  /\ CallerIsNext

\* FinishIsLastTurns is about the last speech.
LEMMA FinishOfLast ==
  FinishIsLastTurns <=>
    \A p \in 1 .. Len(messages) :
      LastSpeech(messages, p) =>
        finish.of = p /\ (messages[p].kind = "refusal" => finish.reason = "content_filter")
BY DEF FinishIsLastTurns, LastSpeech

\* Nobody has spoken at the start.
LEMMA StartOrder ==
  ASSUME NEW n, StartAt(n)
  PROVE  OrderInv
<1>1. messages = << Input >> /\ Len(messages) = 1 /\ messages[1].kind = "input"
  BY DEF StartAt, Input
<1>2. \A p \in 1 .. Len(messages) : p = 1 /\ ~IsAssistant(messages[p])
  BY <1>1 DEF IsAssistant
<1> QED
  BY <1>2 DEF OrderInv, SpeakersAreAgents, FinishIsLastTurns, CallsResumed, CallerIsNext,
     NextSpeech, LastSpeech

\* Steps that say nothing, and leave no speech with calls unanswered.
LEMMA SilentOrder ==
  ASSUME OrderInv, UNCHANGED << messages, finish >>,
         Running' => Running /\ (UNCHANGED node \/ node.fn \notin {"agent", "tools"})
  PROVE  OrderInv'
<1>1. SpeakersAreAgents' /\ FinishIsLastTurns' /\ CallsResumed'
  BY DEF OrderInv, SpeakersAreAgents, FinishIsLastTurns, CallsResumed
<1>2. CallerIsNext'
  <2>1. SUFFICES ASSUME Running', NEW p \in 1 .. Len(messages),
                        LastSpeech(messages, p), messages[p].calls # << >>
                 PROVE  IF node'.fn = "tools" THEN p = Len(messages) /\ node'.agent = messages[p].by
                        ELSE /\ p + Limit(messages[p].by, messages[p].calls) = Len(messages)
                             /\ node' = AgentNode(messages[p].by)
    BY DEF CallerIsNext
  <2>2. Running /\ (node' = node \/ node.fn \notin {"agent", "tools"})
    BY <2>1
  <2>3. IF node.fn = "tools" THEN p = Len(messages) /\ node.agent = messages[p].by
        ELSE /\ p + Limit(messages[p].by, messages[p].calls) = Len(messages)
             /\ node = AgentNode(messages[p].by)
    BY <2>1, <2>2 DEF OrderInv, CallerIsNext
  <2>4. node.fn \in {"agent", "tools"}
    BY <2>3 DEF AgentNode
  <2> QED
    BY <2>2, <2>3, <2>4
<1> QED
  BY <1>1, <1>2 DEF OrderInv

\* A turn of agent a, whoever may be next.
LEMMA AgentFnOrder ==
  ASSUME RunInv, OrderInv, NEW a \in Agents, NEW onward \in SUBSET PlainNodes, AgentFn(a, onward)
  PROVE  OrderInv'
<1>1. /\ Running /\ node = AgentNode(a) /\ node.fn = "agent"
      /\ messages \in Seq(Message) /\ Len(messages) \in Nat /\ Len(messages) > 0
  BY DEF AgentFn, RunInv, TypeOKRun, AgentNode
<1>2. CASE Raised
  <2>1. UNCHANGED << messages, finish >> /\ ~Running'
    BY <1>2 DEF Raised, Running, Errors
  <2> QED
    BY <2>1, SilentOrder
<1>3. ASSUME NEW m \in Message, NEW n \in Nodes, Turned(a, onward, m, n)
      PROVE  OrderInv'
  <2> DEFINE l == Len(messages) + 1
  <2>1. /\ messages' \in Seq(Message) /\ Len(messages') = l
        /\ \A p \in 1 .. Len(messages) : messages'[p] = messages[p]
        /\ messages'[l] = m
        /\ IsAssistant(m) /\ m.by = a
    BY <1>1, <1>3, AppendFacts DEF Turned
  <2>2. /\ \A p : LastSpeech(messages', p) <=> p = l
        /\ \A p, q \in 1 .. Len(messages') :
             NextSpeech(messages', p, q) =>
               \/ p \in 1 .. Len(messages) /\ q \in 1 .. Len(messages) /\ NextSpeech(messages, p, q)
               \/ q = l /\ LastSpeech(messages, p)
    BY <1>1, <1>3, SpeechAppended DEF Turned
  <2>4. FinishIsLastTurns'
    <3>1. /\ finish'.of = l
          /\ m.kind = "refusal" => finish'.reason = "content_filter"
      BY <1>3 DEF Turned, FinishOf
    <3>2. \A p \in 1 .. Len(messages') :
            LastSpeech(messages', p) =>
              finish'.of = p /\ (messages'[p].kind = "refusal" => finish'.reason = "content_filter")
      BY <2>1, <2>2, <3>1
    <3>3. FinishIsLastTurns' <=>
            \A p \in 1 .. Len(messages') :
              LastSpeech(messages', p) =>
                finish'.of = p /\ (messages'[p].kind = "refusal" => finish'.reason = "content_filter")
      BY DEF FinishIsLastTurns, LastSpeech
    <3> QED
      BY <3>2, <3>3
  <2>5. CallsResumed'
    <3>1. SUFFICES ASSUME NEW p \in 1 .. Len(messages'), NEW q \in 1 .. Len(messages'),
                          NextSpeech(messages', p, q), messages'[p].calls # << >>
                   PROVE  /\ messages'[q].by = messages'[p].by
                          /\ q - p = 1 + Limit(messages'[p].by, messages'[p].calls)
      BY DEF CallsResumed, Limit
    <3>2. CASE p \in 1 .. Len(messages) /\ q \in 1 .. Len(messages) /\ NextSpeech(messages, p, q)
      BY <2>1, <3>1, <3>2 DEF OrderInv, CallsResumed
    <3>3. CASE q = l /\ LastSpeech(messages, p)
      <4>1. p \in 1 .. Len(messages) /\ messages'[p] = messages[p]
        BY <2>1, <3>3 DEF LastSpeech
      <4>2. /\ p + Limit(messages[p].by, messages[p].calls) = Len(messages)
            /\ node = AgentNode(messages[p].by)
        BY <1>1, <3>1, <3>3, <4>1 DEF OrderInv, CallerIsNext
      <4>3. messages[p].by = a
        BY <1>1, <4>2 DEF AgentNode
      <4>4. messages[p] \in Message
        BY <1>1, <4>1
      <4>5. messages[p].calls \in Seq(Tools)
        BY <4>4 DEF Message
      <4>6. Limit(a, messages[p].calls) \in 1 .. Len(messages[p].calls)
        BY <3>1, <4>1, <4>5, LimitFacts
      <4>7. Limit(a, messages[p].calls) \in Int
        BY <4>6
      <4> QED
        BY <1>1, <2>1, <3>3, <4>1, <4>2, <4>3, <4>7
    <3> QED
      BY <2>2, <3>1, <3>2, <3>3
  <2>6. CallerIsNext'
    <3>1. SUFFICES ASSUME m.calls # << >>
                   PROVE  node'.fn = "tools" /\ node'.agent = a
      BY <2>1, <2>2 DEF CallerIsNext
    <3> QED
      BY <1>3, <3>1 DEF Turned, Goto, ToolsNode
  <2>7. SpeakersAreAgents'
    <3>1. SUFFICES ASSUME NEW p \in 1 .. Len(messages'), IsAssistant(messages'[p])
                   PROVE  messages'[p].by \in Agents
      BY DEF SpeakersAreAgents
    <3>2. p \in 1 .. Len(messages) \/ p = l
      BY <1>1, <2>1
    <3> QED
      BY <2>1, <3>1, <3>2 DEF OrderInv, SpeakersAreAgents
  <2> QED
    BY <2>4, <2>5, <2>6, <2>7 DEF OrderInv
<1> QED
  BY <1>2, <1>3, AgentFnEffect

\* The results of agent a, who is the next to speak if the run goes on.
LEMMA ToolsFnOrder ==
  ASSUME RunInv, OrderInv, NEW a \in Agents, ToolsFn(a, AgentNode(a))
  PROVE  OrderInv'
<1>1. /\ Running /\ node = ToolsNode(a) /\ node.fn = "tools" /\ node.agent = a
      /\ messages \in Seq(Message) /\ Len(messages) \in Nat /\ Len(messages) > 0
      /\ messages[Len(messages)].calls = toolCalls
  BY DEF ToolsFn, RunInv, TypeOKRun, PendingMatchesNode, ToolsNode
<1>2. PICK n \in Nat :
        /\ Answered(a, n)
        /\ \/ n = Limit(a, toolCalls) /\ node' = AgentNode(a)
           \/ ~Running'
  <2>1. Limit(a, toolCalls) \in Nat
    BY <1>1, LimitFacts DEF RunInv, TypeOKRun, PendingMatchesNode
  <2>2. AgentNode(a) \in PlainNodes
    BY NodeFacts
  <2> QED
    BY <2>1, <2>2, ToolsFnEffect DEF RunInv, Goto, Running, Errors
<1>3. /\ Extends(messages', messages, a) /\ Len(messages') = Len(messages) + n
      /\ UNCHANGED finish
      /\ \A p \in 1 .. Len(messages) : messages'[p] = messages[p]
      /\ \A p \in Len(messages) + 1 .. Len(messages') : messages'[p].kind = "tool"
  BY <1>2 DEF Answered, Extends
<1>4. /\ \A p : LastSpeech(messages', p) => LastSpeech(messages, p)
      /\ \A p, q \in 1 .. Len(messages') :
           NextSpeech(messages', p, q) =>
             p \in 1 .. Len(messages) /\ q \in 1 .. Len(messages) /\ NextSpeech(messages, p, q)
  BY <1>1, <1>3, SpeechExtended
<1>6. FinishIsLastTurns'
  <2>1. SUFFICES ASSUME NEW p \in 1 .. Len(messages'), LastSpeech(messages', p)
                 PROVE  /\ finish'.of = p
                        /\ messages'[p].kind = "refusal" => finish'.reason = "content_filter"
    BY DEF FinishIsLastTurns, LastSpeech
  <2>2. p \in 1 .. Len(messages) /\ LastSpeech(messages, p)
    BY <1>4, <2>1 DEF LastSpeech
  <2> QED
    BY <1>3, <2>2, FinishOfLast DEF OrderInv
<1>7. CallsResumed'
  BY <1>3, <1>4, ZenonT(60) DEF OrderInv, CallsResumed, Limit
<1>8. CallerIsNext'
  <2>1. SUFFICES ASSUME Running', NEW p \in 1 .. Len(messages'),
                        LastSpeech(messages', p), messages'[p].calls # << >>
                 PROVE  /\ node'.fn # "tools"
                        /\ p + Limit(messages'[p].by, messages'[p].calls) = Len(messages')
                        /\ node' = AgentNode(messages'[p].by)
    BY DEF CallerIsNext, Limit
  <2>2. p \in 1 .. Len(messages) /\ LastSpeech(messages, p) /\ messages'[p] = messages[p]
    BY <1>3, <1>4, <2>1 DEF LastSpeech
  <2>3. p = Len(messages) /\ messages[p].by = a
    BY <1>1, <2>1, <2>2 DEF OrderInv, CallerIsNext
  <2>4. n = Limit(a, toolCalls) /\ node' = AgentNode(a)
    BY <1>2, <2>1
  <2> QED
    BY <1>1, <1>3, <2>2, <2>3, <2>4 DEF AgentNode
<1>9. SpeakersAreAgents'
  <2>1. SUFFICES ASSUME NEW p \in 1 .. Len(messages'), IsAssistant(messages'[p])
                 PROVE  messages'[p].by \in Agents
    BY DEF SpeakersAreAgents
  <2>2. ~(p \in Len(messages) + 1 .. Len(messages'))
    BY <1>3, <2>1 DEF IsAssistant
  <2>3. p \in 1 .. Len(messages)
    BY <1>1, <1>2, <1>3, <2>2
  <2> QED
    BY <1>3, <2>1, <2>3 DEF OrderInv, SpeakersAreAgents
<1> QED
  BY <1>6, <1>7, <1>8, <1>9 DEF OrderInv

=============================================================================
