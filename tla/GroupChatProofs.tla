--------------------------- MODULE GroupChatProofs ---------------------------
(***************************************************************************)
(* The group chat builder, proved for any number of participants, any turn *)
(* limit, both selection modes and whatever the moderator's model answers; *)
(* and the handoff builder, for every graph of agents and whatever the     *)
(* routing model answers.                                                  *)
(***************************************************************************)
EXTENDS GroupChat, Handoff, AgentRunProofs, FiniteSetTheorems

\* The speakers, by the place they have in the configuration.
Seats == 1 .. Len(Participants)

LEMMA SeatFacts ==
  /\ Len(Participants) \in Nat /\ Len(Participants) >= 1
  /\ 1 \in Seats
  /\ \A i \in Seats : i \in Nat /\ Participants[i] \in Ids(Participants)
  /\ \A i, j \in Seats : Participants[i] = Participants[j] => i = j
  /\ \A a \in Ids(Participants) : a \in Agents /\ \E i \in Seats : Participants[i] = a
  /\ Head(Participants) = Participants[1]
BY GroupChatAssumption DEF Seats, Ids

(***************************************************************************)
(* choose_next_speaker always names a participant, whatever the model of   *)
(* the moderator answered: an unknown name, a mention, nonsense, nothing.  *)
(***************************************************************************)
THEOREM ModeratorPicksParticipant ==
  ASSUME NEW r
  PROVE  ChooseNextSpeaker(Participants, r) \in Ids(Participants)
<1>1. Head(Participants) \in Ids(Participants)
  BY SeatFacts
<1>2. r.mentions \cap Ids(Participants) # {} => FirstIn(Participants, r.mentions) \in Ids(Participants)
  BY FirstInFacts, GroupChatAssumption
<1>3. Names(r, Participants) => TheNamed(r) \in Ids(Participants)
  BY DEF Names
<1>4. CASE r.failed
  BY <1>1, <1>4 DEF ChooseNextSpeaker
<1>5. CASE ~r.failed /\ r.json /\ r.named # {}
  BY <1>1, <1>3, <1>5 DEF ChooseNextSpeaker
<1>6. CASE ~r.failed /\ ~(r.json /\ r.named # {})
  BY <1>1, <1>2, <1>6 DEF ChooseNextSpeaker
<1> QED
  BY <1>4, <1>5, <1>6

\* The seat after seat c, and the first one after the last.
LEMMA SeatAfter ==
  ASSUME NEW c \in Seats
  PROVE  (c % Len(Participants)) + 1 = IF c = Len(Participants) THEN 1 ELSE c + 1
<1>1. c \in Nat /\ c >= 1 /\ c <= Len(Participants) /\ Len(Participants) \in Nat
  BY SeatFacts DEF Seats
<1> QED
  BY <1>1

\* pick_round_robin starts at the first seat and goes round.
LEMMA RoundRobinPicks ==
  /\ PickRoundRobin(Participants, {}) = Participants[1]
  /\ \A c \in Seats :
       PickRoundRobin(Participants, {Participants[c]}) =
         Participants[IF c = Len(Participants) THEN 1 ELSE c + 1]
<1>1. PickRoundRobin(Participants, {}) = Participants[1]
  BY SeatFacts DEF PickRoundRobin
<1>2. ASSUME NEW c \in Seats
      PROVE  PickRoundRobin(Participants, {Participants[c]}) =
               Participants[IF c = Len(Participants) THEN 1 ELSE c + 1]
  <2>1. {Participants[c]} \cap Ids(Participants) # {}
    BY SeatFacts
  <2>2. (CHOOSE k \in 1 .. Len(Participants) : Participants[k] \in {Participants[c]}) = c
    BY SeatFacts DEF Seats
  <2> QED
    BY <2>1, <2>2, SeatAfter DEF PickRoundRobin
<1> QED
  BY <1>1, <1>2

-----------------------------------------------------------------------------
(***************************************************************************)
(* What a step does.  select_next ends the chat or gives the floor to a    *)
(* participant; group_tools answers the whole batch or raises.             *)
(***************************************************************************)
\* The floor goes to the participant at seat k.
Given(k) ==
  /\ k \in Seats
  /\ speaker' = {Participants[k]}
  /\ Goto(AgentNode(Participants[k]))
  /\ UNCHANGED << turn, over >>

LEMMA GiveFacts ==
  ASSUME NEW s \in Ids(Participants), Give(s)
  PROVE  \E k \in Seats : s = Participants[k] /\ Given(k)
<1>1. PICK k \in Seats : Participants[k] = s
  BY SeatFacts
<1>2. Given(k)
  BY <1>1 DEF Given, Give, SpeakOrEnd
<1> QED
  BY <1>1, <1>2

LEMMA SelectEffect ==
  ASSUME SelectNext, mode \in Modes,
         mode = "round_robin" => speaker = {} \/ \E c \in Seats : speaker = {Participants[c]}
  PROVE  /\ Running /\ node = Select
         /\ UNCHANGED << messages, toolCalls, steps, finish, mode >>
         /\ \/ EndChat /\ (turn >= MaxTurns \/ mode = "moderator")
            \/ /\ turn < MaxTurns
               /\ \E k \in Seats :
                    /\ Given(k)
                    /\ mode = "round_robin" => Participants[k] = PickRoundRobin(Participants, speaker)
<1>1. CASE turn >= MaxTurns /\ EndChat
  BY <1>1 DEF SelectNext
<1>2. CASE turn < MaxTurns /\ mode = "round_robin" /\ GiveInOrder
  <2>1. PickRoundRobin(Participants, speaker) \in Ids(Participants)
    <3>1. CASE speaker = {}
      BY <3>1, RoundRobinPicks, SeatFacts
    <3>2. ASSUME NEW c \in Seats, speaker = {Participants[c]}
          PROVE  PickRoundRobin(Participants, speaker) \in Ids(Participants)
      <4>1. (IF c = Len(Participants) THEN 1 ELSE c + 1) \in Seats
        BY SeatFacts DEF Seats
      <4> QED
        BY <3>2, <4>1, RoundRobinPicks, SeatFacts
    <3> QED
      BY <1>2, <3>1, <3>2
  <2> QED
    BY <1>2, <2>1, GiveFacts DEF SelectNext, GiveInOrder
<1>3. CASE turn < MaxTurns /\ mode = "moderator" /\ ModeratorDecides
  <2>1. PICK r \in ModeratorReplies :
          \/ ModeratorEnds(r) /\ EndChat
          \/ ~ModeratorEnds(r) /\ Give(ChooseNextSpeaker(Participants, r))
    BY <1>3 DEF ModeratorDecides
  <2>2. ChooseNextSpeaker(Participants, r) \in Ids(Participants)
    BY ModeratorPicksParticipant
  <2>3. EndChat \/ \E k \in Seats : Given(k)
    BY <2>1, <2>2, GiveFacts
  <2> QED
    BY <1>3, <2>3 DEF SelectNext
<1> QED
  BY <1>1, <1>2, <1>3 DEF SelectNext

\* The batch of agent a is answered up to its limit, or not at all.
LEMMA GroupToolsEffect ==
  ASSUME NEW a, GroupTools(a)
  PROVE  /\ Running /\ node = ToolsNode(a)
         /\ UNCHANGED groupVars
         /\ \/ ToolsAnswer(a, AgentNode(a)) /\ ToolsFn(a, AgentNode(a))
            \/ Raise("tool") /\ Raised
BY DEF GroupTools, ToolsFn, Raise, Raised, Errors

-----------------------------------------------------------------------------
(***************************************************************************)
(* The invariant of the engine and, on top of it, that of the selection:   *)
(* who has the floor is a participant, and there is a turn left for it.    *)
(***************************************************************************)
SelectionInv ==
  /\ mode \in Modes
  /\ speaker = {} \/ \E c \in Seats : speaker = {Participants[c]}
  /\ turn \in 0 .. MaxTurns
  /\ over \in BOOLEAN
  /\ Running /\ node.fn \in {"agent", "tools"} => turn < MaxTurns

ChatInv == RunInv /\ SelectionInv

LEMMA InitInv == Init => ChatInv
<1> SUFFICES ASSUME Init PROVE ChatInv
  OBVIOUS
<1>1. RunInv
  BY StartInv, NodeFacts DEF Init, Select
<1>2. node.fn = "select" /\ MaxTurns \in Nat
  BY GroupChatAssumption DEF Init, StartAt, Select, SyntheticNode
<1>3. mode \in Modes /\ speaker = {} /\ turn = 0 /\ over \in BOOLEAN
  BY DEF Init
<1>4. SelectionInv
  BY <1>2, <1>3 DEF SelectionInv
<1> QED
  BY <1>1, <1>4 DEF ChatInv

\* The selection.
LEMMA SelectInv == ChatInv /\ SelectNext => ChatInv'
<1> SUFFICES ASSUME ChatInv, SelectNext PROVE ChatInv'
  OBVIOUS
<1>1. /\ Running /\ node = Select
      /\ UNCHANGED << messages, toolCalls, steps, finish, mode >>
      /\ \/ EndChat
         \/ turn < MaxTurns /\ \E k \in Seats : Given(k)
  BY SelectEffect DEF ChatInv, SelectionInv
<1>2. node.fn # "tools" /\ End \in PlainNodes /\ End.fn \notin {"agent", "tools"}
  BY <1>1, NodeFacts DEF Select, SyntheticNode, End
<1>3. MaxTurns \in Nat
  BY GroupChatAssumption
<1>4. CASE EndChat
  <2>1. RunInv'
    BY <1>1, <1>2, <1>4, MoveInv DEF ChatInv, EndChat
  <2>2. UNCHANGED << speaker, turn, mode >> /\ over' \in BOOLEAN /\ node' = End
    BY <1>1, <1>4 DEF EndChat, Goto
  <2>3. SelectionInv'
    BY <1>2, <2>2 DEF ChatInv, SelectionInv
  <2> QED
    BY <2>1, <2>3 DEF ChatInv
<1>5. ASSUME turn < MaxTurns, NEW k \in Seats, Given(k) PROVE ChatInv'
  <2>1. AgentNode(Participants[k]) \in PlainNodes
    BY SeatFacts, NodeFacts
  <2>2. RunInv'
    BY <1>1, <1>2, <1>5, <2>1, MoveInv DEF ChatInv, Given
  <2>3. SelectionInv'
    BY <1>1, <1>5 DEF ChatInv, SelectionInv, Given
  <2> QED
    BY <2>2, <2>3 DEF ChatInv
<1> QED
  BY <1>1, <1>4, <1>5

\* Only select_next follows a turn without calls.
LEMMA SelectIsPlain == {Select} \in SUBSET PlainNodes /\ Select # End /\ Select.fn = "select"
BY NodeFacts DEF Select, SyntheticNode

\* The turn of a participant.
LEMMA SpeakInv ==
  ASSUME ChatInv, NEW a \in Ids(Participants), Speak(a)
  PROVE  ChatInv'
<1>1. /\ a \in Agents /\ AgentFn(a, {Select}) /\ turn' = CountTurn
      /\ UNCHANGED << mode, speaker, over >> /\ RunInv /\ SelectionInv
  BY SeatFacts DEF Speak, ChatInv
<1>2. Running /\ node.fn = "agent" /\ turn \in Nat /\ MaxTurns \in Nat /\ turn < MaxTurns
  BY <1>1, GroupChatAssumption DEF AgentFn, AgentNode, SelectionInv
<1>3. RunInv'
  BY <1>1, SelectIsPlain, AgentFnInv
<1>4. turn' \in 0 .. MaxTurns
  BY <1>1, <1>2 DEF CountTurn
<1>5. Running' /\ node'.fn \in {"agent", "tools"} => turn' < MaxTurns
  <2>1. CASE Raised
    BY <2>1 DEF Raised, Running, Errors
  <2>2. ASSUME NEW m \in Message, NEW n \in Nodes, Turned(a, {Select}, m, n)
        PROVE  node'.fn \in {"agent", "tools"} => turn' < MaxTurns
    <3>1. CASE m.calls = << >>
      BY <2>2, <3>1, SelectIsPlain DEF Turned, Goto
    <3>2. CASE m.calls # << >>
      BY <1>1, <1>2, <2>2, <3>2 DEF Turned, CountTurn
    <3> QED
      BY <3>1, <3>2
  <2> QED
    BY <1>1, <2>1, <2>2, SelectIsPlain, AgentFnEffect
<1> QED
  BY <1>1, <1>3, <1>4, <1>5 DEF ChatInv, SelectionInv

\* The tools of a participant.
LEMMA ToolsInv ==
  ASSUME ChatInv, NEW a \in Ids(Participants), GroupTools(a)
  PROVE  ChatInv'
<1>1. a \in Agents /\ AgentNode(a) \in PlainNodes /\ RunInv /\ SelectionInv
  BY SeatFacts, NodeFacts DEF ChatInv
<1>2. RunInv'
  <2>1. CASE ToolsFn(a, AgentNode(a))
    BY <1>1, <2>1, ToolsFnInv
  <2>2. CASE Raise("tool") /\ Raised
    BY <1>1, <2>2, RaiseInv DEF Raised, Errors
  <2> QED
    BY <2>1, <2>2, GroupToolsEffect
<1>3. SelectionInv'
  <2>1. Running /\ node.fn = "tools"
    BY <1>1, GroupToolsEffect, NodeFacts
  <2>2. turn < MaxTurns /\ UNCHANGED groupVars
    BY <1>1, <2>1, GroupToolsEffect DEF SelectionInv
  <2> QED
    BY <1>1, <2>2 DEF SelectionInv, groupVars
<1> QED
  BY <1>2, <1>3 DEF ChatInv

LEMMA StepInv == ChatInv /\ [Next]_vars => ChatInv'
<1> SUFFICES ASSUME ChatInv, [Next]_vars PROVE ChatInv'
  OBVIOUS
<1>1. CASE UNCHANGED vars
  BY <1>1 DEF vars, runVars, groupVars, ChatInv, SelectionInv, RunInv, TypeOKRun,
     PendingMatchesNode, ToolsAnswerCalls, Running
<1> QED
  BY <1>1, SelectInv, SpeakInv, ToolsInv DEF Next

(***************************************************************************)
(* Group chats keep the inductive invariant: types, the super-step limit,  *)
(* the pairing of calls and results, and the turn limit.                   *)
(***************************************************************************)
THEOREM Invariance == Spec => []ChatInv
BY InitInv, StepInv, PTL DEF Spec

\* A step of a group chat is a step of the contract, or changes nothing of it.
LEMMA StepRefines == ChatInv /\ [Next]_vars => [Engine!EngineNext]_(Engine!engineVars)
<1> SUFFICES ASSUME ChatInv, [Next]_vars PROVE [Engine!EngineNext]_(Engine!engineVars)
  OBVIOUS
<1>1. CASE UNCHANGED vars
  BY <1>1 DEF vars, runVars, Engine!engineVars, Status
<1>2. CASE SelectNext
  <2>1. /\ Running /\ node.fn # "tools" /\ RunInv
        /\ UNCHANGED << messages, toolCalls, steps >>
        /\ EndChat \/ \E k \in Seats : Given(k)
    BY <1>2, SelectEffect, SelectIsPlain DEF ChatInv, SelectionInv
  <2>2. PICK n \in Nodes : Goto(n)
    <3>1. CASE EndChat
      BY <3>1, NodeFacts DEF EndChat, PlainNodes
    <3>2. ASSUME NEW k \in Seats, Given(k) PROVE \E n \in Nodes : Goto(n)
      BY <3>2, SeatFacts, NodeFacts DEF Given, PlainNodes
    <3> QED
      BY <2>1, <3>1, <3>2
  <2> QED
    BY <2>1, <2>2, MoveRefines
<1>3. ASSUME NEW a \in Ids(Participants), Speak(a) PROVE Engine!EngineNext
  BY <1>3, SeatFacts, SelectIsPlain, AgentFnRefines DEF Speak, ChatInv
<1>4. ASSUME NEW a \in Ids(Participants), GroupTools(a) PROVE Engine!EngineNext
  <2>1. a \in Agents /\ AgentNode(a) \in PlainNodes /\ AgentNode(a) # End /\ RunInv /\ Running
    BY <1>4, SeatFacts, NodeFacts, GroupToolsEffect DEF ChatInv
  <2>2. CASE ToolsFn(a, AgentNode(a))
    BY <2>1, <2>2, ToolsFnRefines
  <2>3. CASE Raise("tool") /\ Raised
    BY <2>1, <2>3, RaiseRefines DEF Raised, Errors
  <2> QED
    BY <1>4, <2>2, <2>3, GroupToolsEffect
<1> QED
  BY <1>1, <1>2, <1>3, <1>4 DEF Next

(***************************************************************************)
(* Every group chat is a run of the engine's contract, in which the        *)
(* selection of a speaker is invisible or ends the run.                    *)
(***************************************************************************)
THEOREM Refinement == Spec => ImplementsEngine
<1>1. Init => Engine!EngineInit
  BY StartRefines DEF Init
<1> QED
  BY <1>1, StepRefines, Invariance, PTL DEF Spec, ImplementsEngine

-----------------------------------------------------------------------------
(***************************************************************************)
(* The order of the transcript, and whole batches.                         *)
(***************************************************************************)
\* What a step says: nothing, one turn of the participant whose node it is, or the
\* results of all the calls its limit lets through.
Silent ==
  /\ UNCHANGED << messages, finish, turn >>
  /\ Running' => Running /\ (UNCHANGED node \/ node = Select)

Spoken(a, m, n) ==
  /\ Speak(a) /\ Running /\ node = AgentNode(a)
  /\ Turned(a, {Select}, m, n)

Batch(a) ==
  /\ ToolsFn(a, AgentNode(a)) /\ Running /\ node = ToolsNode(a)
  /\ ToolsAnswer(a, AgentNode(a))
  /\ Answered(a, Limit(a, toolCalls))
  /\ Goto(AgentNode(a))
  /\ UNCHANGED groupVars

\* A batch that does not raise is answered up to the limit.
LEMMA WholeBatch ==
  ASSUME ChatInv, NEW a \in Ids(Participants), GroupTools(a), ToolsAnswer(a, AgentNode(a))
  PROVE  Batch(a)
<1>1. /\ a \in Agents /\ AgentNode(a) \in PlainNodes /\ RunInv
      /\ Running /\ node = ToolsNode(a) /\ UNCHANGED groupVars
      /\ messages \in Seq(Message) /\ toolCalls \in Seq(Tools) /\ toolCalls # << >>
  BY SeatFacts, NodeFacts, GroupToolsEffect DEF ChatInv, RunInv, TypeOKRun, PendingMatchesNode
<1>2. ToolsFn(a, AgentNode(a)) /\ toolCalls' = << >> /\ Goto(AgentNode(a))
  BY <1>1 DEF ToolsFn, ToolsAnswer
<1>3. Answered(a, Limit(a, toolCalls))
  BY <1>1, <1>2, ToolsFnEffect DEF RunInv
<1> QED
  BY <1>1, <1>2, <1>3 DEF Batch

LEMMA StepEffect ==
  ASSUME ChatInv, [Next]_vars
  PROVE  \/ Silent
         \/ \E a \in Ids(Participants), m \in Message, n \in Nodes : Spoken(a, m, n)
         \/ \E a \in Ids(Participants) : Batch(a)
<1>1. CASE UNCHANGED vars
  BY <1>1 DEF vars, runVars, groupVars, Silent, Running
<1>2. CASE SelectNext
  <2>1. /\ Running /\ node = Select /\ UNCHANGED << messages, finish >>
        /\ EndChat \/ \E k \in Seats : Given(k)
    BY <1>2, SelectEffect DEF ChatInv, SelectionInv
  <2> QED
    BY <2>1 DEF Silent, EndChat, Given
<1>3. ASSUME NEW a \in Ids(Participants), Speak(a)
      PROVE  Silent \/ \E m \in Message, n \in Nodes : Spoken(a, m, n)
  <2>1. /\ a \in Agents /\ AgentFn(a, {Select}) /\ turn' = CountTurn /\ RunInv
        /\ Running /\ node = AgentNode(a)
    BY <1>3, SeatFacts DEF Speak, AgentFn, ChatInv
  <2>2. Raised => Silent
    BY <2>1 DEF Raised, Silent, CountTurn, Running, Errors
  <2> QED
    BY <1>3, <2>1, <2>2, SelectIsPlain, AgentFnEffect DEF Spoken
<1>4. ASSUME NEW a \in Ids(Participants), GroupTools(a) PROVE Silent \/ Batch(a)
  <2>1. /\ a \in Agents /\ AgentNode(a) \in PlainNodes /\ RunInv
        /\ Running /\ node = ToolsNode(a) /\ UNCHANGED groupVars
        /\ messages \in Seq(Message) /\ toolCalls \in Seq(Tools) /\ toolCalls # << >>
    BY <1>4, SeatFacts, NodeFacts, GroupToolsEffect DEF ChatInv, RunInv, TypeOKRun, PendingMatchesNode
  <2>2. CASE ToolsAnswer(a, AgentNode(a)) /\ ToolsFn(a, AgentNode(a))
    BY <1>4, <2>2, WholeBatch
  <2>3. CASE Raise("tool") /\ Raised
    BY <2>1, <2>3 DEF Raised, Silent, Running, Errors, groupVars
  <2> QED
    BY <1>4, <2>2, <2>3, GroupToolsEffect
<1> QED
  BY <1>1, <1>2, <1>3, <1>4 DEF Next

\* Each step keeps the order of calls and answers.
LEMMA StepOrder == ChatInv /\ OrderInv /\ [Next]_vars => OrderInv'
<1> SUFFICES ASSUME ChatInv, OrderInv, [Next]_vars PROVE OrderInv'
  OBVIOUS
<1>1. CASE Silent
  BY <1>1, SilentOrder, SelectIsPlain DEF Silent
<1>2. ASSUME NEW a \in Ids(Participants), Speak(a) PROVE OrderInv'
  BY <1>2, SeatFacts, SelectIsPlain, AgentFnOrder DEF Speak, ChatInv
<1>3. ASSUME NEW a \in Ids(Participants), Batch(a) PROVE OrderInv'
  BY <1>3, SeatFacts, ToolsFnOrder DEF Batch, ChatInv
<1> QED
  BY <1>1, <1>2, <1>3, StepEffect DEF Spoken

LEMMA OrderInvariance == Spec => []OrderInv
<1>1. Init => OrderInv
  BY StartOrder DEF Init
<1> QED
  BY <1>1, StepOrder, Invariance, PTL DEF Spec

\* Message p of s, if it asks for tools, is the last, or all its calls up to the limit
\* are answered right after it and its author is the next to speak.
Whole(s, p) ==
  s[p].calls # << >> /\ IsAssistant(s[p]) =>
    LET n == Limit(s[p].by, s[p].calls)
    IN \/ p = Len(s)
       \/ /\ p + n <= Len(s)
          /\ \A i \in 1 .. n : Answers(s, p + i, p)
          /\ p + n < Len(s) => IsAssistant(s[p + n + 1]) /\ s[p + n + 1].by = s[p].by

LEMMA WholeMeans == WholeBatches <=> \A p \in 1 .. Len(messages) : Whole(messages, p)
BY DEF WholeBatches, Whole

\* Which results answer a call is a matter of the messages up to them.
LEMMA OldAnswers ==
  ASSUME NEW s, NEW t, NEW l \in Nat, \A p \in 1 .. l : t[p] = s[p],
         NEW p \in 1 .. l, NEW q \in 1 .. l, Answers(s, p, q)
  PROVE  Answers(t, p, q)
<1>1. \A r \in q + 1 .. p : r \in 1 .. l
  OBVIOUS
<1> QED
  BY <1>1 DEF Answers, IsAssistant

\* A turn is taken by the author of a batch that was just answered.
LEMMA SpokenWhole ==
  ASSUME ChatInv, OrderInv, \A p \in 1 .. Len(messages) : Whole(messages, p),
         NEW a \in Ids(Participants), NEW m \in Message, NEW nd \in Nodes, Spoken(a, m, nd),
         NEW p \in 1 .. Len(messages')
  PROVE  Whole(messages', p)
<1> DEFINE l == Len(messages)
<1>1. /\ messages \in Seq(Message) /\ l \in Nat /\ l > 0
      /\ Running /\ node = AgentNode(a) /\ node.fn = "agent"
  BY DEF Spoken, ChatInv, RunInv, TypeOKRun, AgentNode
<1>2. /\ messages' \in Seq(Message) /\ Len(messages') = l + 1
      /\ \A q \in 1 .. l : messages'[q] = messages[q]
      /\ messages'[l + 1] = m /\ IsAssistant(m) /\ m.by = a
  BY <1>1, AppendFacts DEF Spoken, Turned
<1>3. CASE p = l + 1
  <2>1. p = Len(messages')
    BY <1>2, <1>3
  <2> QED
    BY <2>1, Zenon DEF Whole
<1>4. ASSUME p \in 1 .. l, messages[p].calls # << >>, IsAssistant(messages[p])
      PROVE  Whole(messages', p)
  <2> DEFINE n == Limit(messages[p].by, messages[p].calls)
  <2>1. messages[p] \in Message
    BY <1>1, <1>4
  <2>2. messages[p].calls \in Seq(Tools) /\ messages[p].by \in Agents
    BY <1>4, <2>1 DEF Message, OrderInv, SpeakersAreAgents
  <2>3. n \in Nat /\ n >= 1
    BY <1>4, <2>2, LimitFacts
  <2> HIDE DEF n
  <2>4. Whole(messages, p) /\ messages'[p] = messages[p]
    BY <1>2, <1>4
  <2>5. ASSUME LastSpeech(messages, p) PROVE p + n = l /\ messages[p].by = a
    BY <1>1, <1>4, <2>5 DEF OrderInv, CallerIsNext, AgentNode, n
  <2>6. p # l
    <3>1. p = l => LastSpeech(messages, p)
      BY <1>1, <1>4 DEF LastSpeech
    <3> QED
      BY <1>1, <2>3, <2>5, <3>1
  <2>7. /\ p + n <= l
        /\ \A i \in 1 .. n : Answers(messages, p + i, p)
        /\ p + n < l => IsAssistant(messages[p + n + 1]) /\ messages[p + n + 1].by = messages[p].by
    BY <1>4, <2>4, <2>6 DEF Whole, n
  <2>8. \A i \in 1 .. n : Answers(messages', p + i, p)
    <3>1. p + n <= l
      BY <2>7
    <3>2. \A i \in 1 .. n : p + i \in 1 .. l
      BY <1>1, <1>4, <2>3, <3>1
    <3> QED
      BY <1>1, <1>2, <1>4, <2>7, <3>2, OldAnswers
  <2>9. IsAssistant(messages'[p + n + 1]) /\ messages'[p + n + 1].by = messages[p].by
    <3>1. CASE p + n < l
      <4>1. p + n + 1 \in 1 .. l
        BY <1>1, <1>4, <2>3, <3>1
      <4> QED
        BY <1>2, <2>7, <3>1, <4>1
    <3>2. CASE p + n = l
      <4>1. n \in 1 .. n /\ Answers(messages, p + n, p)
        BY <2>3, <2>7
      <4>2. \A r \in p + 1 .. p + n : messages[r].kind = "tool"
        BY <4>1 DEF Answers
      <4>3. LastSpeech(messages, p)
        BY <1>4, <3>2, <4>2 DEF LastSpeech
      <4> QED
        BY <1>2, <2>5, <3>2, <4>3
    <3> QED
      BY <1>1, <1>4, <2>3, <2>7, <3>1, <3>2
  <2>10. p + n <= Len(messages')
    BY <1>1, <1>2, <1>4, <2>3, <2>7
  <2> QED
    BY <2>4, <2>8, <2>9, <2>10, Zenon DEF Whole, n, Limit
<1>5. p \in 1 .. l \/ p = l + 1
  BY <1>1, <1>2
<1>6. p \in 1 .. l => messages'[p] = messages[p]
  BY <1>2
<1> QED
  BY <1>3, <1>4, <1>5, <1>6 DEF Whole

\* The results of a batch answer the calls of the last message, up to the limit.
LEMMA BatchAnswers ==
  ASSUME ChatInv, NEW a \in Ids(Participants), Batch(a)
  PROVE  \A i \in 1 .. Limit(a, toolCalls) : Answers(messages', Len(messages) + i, Len(messages))
<1> DEFINE l == Len(messages)
           n == Limit(a, toolCalls)
           first == SubSeq(toolCalls, 1, n)
<1>1. /\ messages \in Seq(Message) /\ l \in Nat /\ l > 0
      /\ toolCalls \in Seq(Tools) /\ toolCalls # << >>
      /\ messages[l].kind = "reply" /\ messages[l].by = a /\ messages[l].calls = toolCalls
      /\ a \in Agents
  BY SeatFacts, NodeFacts DEF Batch, ChatInv, RunInv, TypeOKRun, PendingMatchesNode
<1>2. n \in 1 .. Len(toolCalls) /\ Len(toolCalls) \in Nat
  BY <1>1, LimitFacts
<1> HIDE DEF n
<1>3. first \in Seq(Tools) /\ Len(first) = n /\ \A i \in 1 .. n : first[i] = toolCalls[i]
  BY <1>1, <1>2
<1>4. messages' = messages \o Results(a, first)
  BY DEF Batch, Answered, AnswerFirst, n
<1> HIDE DEF first
<1>5. /\ Results(a, first) \in Seq(Message) /\ Len(Results(a, first)) = n
      /\ \A i \in 1 .. n : Results(a, first)[i].calls = << toolCalls[i] >>
  BY <1>1, <1>3, ResultsType
<1>6. \A i \in 1 .. n : messages'[l + i] = Results(a, first)[i]
  <2>1. Results(a, first) \in Seq(Message) /\ Len(Results(a, first)) = n
    BY <1>5
  <2> QED
    BY <1>1, <1>4, <2>1, ConcatFacts
<1>7. /\ Len(messages') = l + n /\ messages'[l] = messages[l]
      /\ \A r \in l + 1 .. l + n : messages'[r].kind = "tool" /\ messages'[r].by = a
  BY <1>1, SMTT(60) DEF Batch, Answered, Extends, n
<1>8. ASSUME NEW i \in 1 .. n PROVE Answers(messages', l + i, l)
  <2>1. /\ l < l + i /\ l + i - l = i /\ i <= Len(toolCalls) /\ l + i \in l + 1 .. l + n
        /\ \A r \in l + 1 .. l + i : r \in l + 1 .. l + n
    BY <1>1, <1>2
  <2>2. messages'[l + i].by = a /\ messages'[l + i].calls = << toolCalls[i] >>
    BY <1>5, <1>6, <1>7, <2>1
  <2>3. IsAssistant(messages'[l]) /\ messages'[l].by = a /\ messages'[l].calls = toolCalls
    BY <1>1, <1>7 DEF IsAssistant
  <2>4. \A r \in l + 1 .. l + i : messages'[r].kind = "tool"
    BY <1>7, <2>1
  <2>5. /\ messages'[l].by = messages'[l + i].by
        /\ l + i - l <= Len(messages'[l].calls)
        /\ messages'[l + i].calls = << messages'[l].calls[l + i - l] >>
    BY <2>1, <2>2, <2>3
  <2> QED
    BY <2>1, <2>3, <2>4, <2>5 DEF Answers
<1> QED
  BY <1>8 DEF n

LEMMA BatchWhole ==
  ASSUME ChatInv, OrderInv, \A p \in 1 .. Len(messages) : Whole(messages, p),
         NEW a \in Ids(Participants), Batch(a),
         NEW p \in 1 .. Len(messages')
  PROVE  Whole(messages', p)
<1> DEFINE l == Len(messages)
           k == Limit(a, toolCalls)
<1>1. /\ messages \in Seq(Message) /\ l \in Nat /\ l > 0
      /\ toolCalls \in Seq(Tools) /\ toolCalls # << >>
      /\ messages[l].kind = "reply" /\ messages[l].by = a /\ messages[l].calls = toolCalls
      /\ a \in Agents
  BY SeatFacts, NodeFacts DEF Batch, ChatInv, RunInv, TypeOKRun, PendingMatchesNode
<1>2. k \in Nat /\ k >= 1
  BY <1>1, LimitFacts
<1>3. \A i \in 1 .. k : Answers(messages', l + i, l)
  BY BatchAnswers
<1>4. /\ Len(messages') = l + k
      /\ \A q \in 1 .. l : messages'[q] = messages[q]
      /\ \A q \in l + 1 .. Len(messages') : messages'[q].kind = "tool"
  BY DEF Batch, Answered, Extends
<1> HIDE DEF k
<1>5. CASE p \in l + 1 .. Len(messages')
  BY <1>4, <1>5 DEF Whole, IsAssistant
<1>6. CASE p = l
  <2>1. messages'[p].by = a /\ messages'[p].calls = toolCalls
    BY <1>1, <1>4, <1>6
  <2>2. p + k <= Len(messages') /\ ~(p + k < Len(messages'))
    BY <1>1, <1>2, <1>4, <1>6, SMTT(60)
  <2> QED
    BY <1>3, <1>6, <2>1, <2>2 DEF Whole, k, Limit
<1>7. ASSUME p \in 1 .. l, p # l, messages[p].calls # << >>, IsAssistant(messages[p])
      PROVE  Whole(messages', p)
  <2> DEFINE n == Limit(messages[p].by, messages[p].calls)
  <2>1. messages[p] \in Message
    BY <1>1, <1>7
  <2>2. messages[p].calls \in Seq(Tools) /\ messages[p].by \in Agents
    BY <1>7, <2>1 DEF Message, OrderInv, SpeakersAreAgents
  <2>3. n \in Nat /\ n >= 1
    BY <1>7, <2>2, LimitFacts
  <2> HIDE DEF n
  <2>4. Whole(messages, p) /\ messages'[p] = messages[p]
    BY <1>4, <1>7
  <2>5. /\ p + n <= l
        /\ \A i \in 1 .. n : Answers(messages, p + i, p)
        /\ p + n < l => IsAssistant(messages[p + n + 1]) /\ messages[p + n + 1].by = messages[p].by
    BY <1>7, <2>4 DEF Whole, n
  <2>6. p + n # l
    <3>1. n \in 1 .. n /\ p + n \in p + 1 .. p + n
      BY <1>7, <2>3
    <3>2. messages[p + n].kind = "tool"
      BY <2>5, <3>1 DEF Answers
    <3> QED
      BY <1>1, <3>2
  <2>7. p + n + 1 \in 1 .. l /\ p + n <= Len(messages') /\ p + n < l
        /\ \A i \in 1 .. n : p + i \in 1 .. l
    BY <1>1, <1>2, <1>4, <1>7, <2>3, <2>5, <2>6
  <2>8. \A i \in 1 .. n : Answers(messages', p + i, p)
    BY <1>1, <1>4, <1>7, <2>5, <2>7, OldAnswers
  <2> QED
    BY <1>4, <2>4, <2>5, <2>7, <2>8 DEF Whole, n, Limit
<1>8. p \in 1 .. l \/ p \in l + 1 .. Len(messages')
  BY <1>1, <1>4
<1>9. p \in 1 .. l => messages'[p] = messages[p]
  BY <1>4
<1> QED
  BY <1>5, <1>6, <1>7, <1>8, <1>9 DEF Whole

(***************************************************************************)
(* A speaker keeps the floor until its answer asks for no more tools, and  *)
(* is given the results of all the calls it may make or none.              *)
(***************************************************************************)
THEOREM BatchesCorrect == Spec => []WholeBatches
<1>1. Init => WholeBatches
  BY DEF Init, StartAt, Input, WholeBatches, IsAssistant
<1>2. ChatInv /\ OrderInv /\ WholeBatches /\ [Next]_vars => WholeBatches'
  <2> SUFFICES ASSUME ChatInv, OrderInv, WholeBatches, [Next]_vars PROVE WholeBatches'
    OBVIOUS
  <2>1. \A p \in 1 .. Len(messages) : Whole(messages, p)
    BY WholeMeans
  <2>2. WholeBatches' <=> \A p \in 1 .. Len(messages') : Whole(messages', p)
    BY DEF WholeBatches, Whole, Limit
  <2>3. Silent => WholeBatches'
    BY <2>1, <2>2 DEF Silent
  <2> QED
    BY <2>1, <2>2, <2>3, StepEffect, SpokenWhole, BatchWhole
<1> QED
  BY <1>1, <1>2, Invariance, OrderInvariance, PTL DEF Spec

-----------------------------------------------------------------------------
(***************************************************************************)
(* Counting speeches.                                                      *)
(***************************************************************************)
\* The answers of the agents of B in s, and their refusals if K says so.
Counts(m, B, K) == m.by \in B /\ ((m.kind = "reply" /\ m.calls = << >>) \/ m.kind \in K)

Said(s, B, K) == {p \in 1 .. Len(s) : Counts(s[p], B, K)}

LEMMA SaidMeans ==
  /\ UNION {AnswersOf(a) : a \in Ids(Participants)} = Said(messages, Ids(Participants), {})
  /\ \A a : SpeechesOf(a) = Said(messages, {a}, {"refusal"})
<1>1. UNION {AnswersOf(a) : a \in Ids(Participants)} = Said(messages, Ids(Participants), {})
  BY DEF AnswersOf, Said, Counts
<1>2. \A a : SpeechesOf(a) = Said(messages, {a}, {"refusal"})
  BY DEF AnswersOf, SpeechesOf, Said, Counts
<1> QED
  BY <1>1, <1>2

LEMMA SaidFinite ==
  ASSUME NEW s \in Seq(Message), NEW B, NEW K
  PROVE  IsFiniteSet(Said(s, B, K)) /\ Cardinality(Said(s, B, K)) \in Nat
<1>1. 1 \in Int /\ Len(s) \in Int
  OBVIOUS
<1>2. IsFiniteSet(1 .. Len(s))
  BY <1>1, FS_Interval
<1>3. Said(s, B, K) \in SUBSET (1 .. Len(s))
  BY DEF Said
<1>4. IsFiniteSet(Said(s, B, K))
  BY <1>2, <1>3, FS_Subset
<1> QED
  BY <1>4, FS_CardinalityType

\* A turn adds one to the speeches of those it counts for.
LEMMA SaidAppended ==
  ASSUME NEW s \in Seq(Message), NEW m \in Message, NEW B, NEW K
  PROVE  Cardinality(Said(Append(s, m), B, K)) =
           IF Counts(m, B, K) THEN Cardinality(Said(s, B, K)) + 1 ELSE Cardinality(Said(s, B, K))
<1> DEFINE t == Append(s, m)
           l == Len(s)
<1>1. /\ Len(t) = l + 1 /\ l \in Nat
      /\ \A p \in 1 .. l : t[p] = s[p]
      /\ t[l + 1] = m
  BY AppendFacts
<1> HIDE DEF t, l
<1>2. /\ \A p \in 1 .. l + 1 : p \in 1 .. l \/ p = l + 1
      /\ \A p \in 1 .. l : p \in 1 .. l + 1 /\ p # l + 1
      /\ l + 1 \in 1 .. l + 1
      /\ l + 1 \notin 1 .. l
  BY <1>1
<1>3. Said(t, B, K) = {p \in 1 .. l + 1 : Counts(t[p], B, K)} /\ Said(s, B, K) = {p \in 1 .. l : Counts(s[p], B, K)}
  BY <1>1 DEF Said, l
<1>4. CASE ~Counts(m, B, K)
  <2>1. Said(t, B, K) = Said(s, B, K)
    BY <1>1, <1>2, <1>3, <1>4
  <2> QED
    BY <1>4, <2>1 DEF t
<1>5. CASE Counts(m, B, K)
  <2>1. Said(t, B, K) = Said(s, B, K) \cup {l + 1}
    BY <1>1, <1>2, <1>3, <1>5
  <2>2. l + 1 \notin Said(s, B, K)
    BY <1>2, <1>3
  <2> QED
    BY <1>5, <2>1, <2>2, SaidFinite, FS_AddElement DEF t
<1> QED
  BY <1>4, <1>5

\* Results of calls are no speeches.
LEMMA SaidExtended ==
  ASSUME NEW s \in Seq(Message), NEW t, NEW a, Extends(t, s, a),
         NEW B, NEW K \in SUBSET {"refusal"}
  PROVE  Said(t, B, K) = Said(s, B, K)
<1>1. /\ Len(s) \in Nat /\ Len(t) \in Nat /\ Len(t) >= Len(s)
      /\ \A p \in 1 .. Len(s) : t[p] = s[p]
      /\ \A p \in Len(s) + 1 .. Len(t) : t[p].kind = "tool"
  BY DEF Extends
<1>2. \A p \in Len(s) + 1 .. Len(t) : ~Counts(t[p], B, K)
  BY <1>1 DEF Counts
<1>3. \A p \in 1 .. Len(t) : p \in 1 .. Len(s) \/ p \in Len(s) + 1 .. Len(t)
  BY <1>1
<1>4. \A p \in 1 .. Len(s) : p \in 1 .. Len(t)
  BY <1>1
<1> QED
  BY <1>1, <1>2, <1>3, <1>4 DEF Said

(***************************************************************************)
(* The turn counter is the number of answers, so that it runs out exactly  *)
(* after max_turns of them; and END is only ever reached by EndChat.       *)
(***************************************************************************)
TurnsAreAnswers == turn = Cardinality(Said(messages, Ids(Participants), {}))

EndedWhenDue == outcome = "done" => over /\ (turn = MaxTurns \/ mode = "moderator")

CountInv == TurnsAreAnswers /\ EndedWhenDue

\* Nobody has answered at the start.
LEMMA NobodySaid ==
  ASSUME Init, NEW B \in SUBSET Agents, NEW K \in SUBSET {"refusal"}
  PROVE  Cardinality(Said(messages, B, K)) = 0
<1>1. messages = << Input >> /\ Len(messages) = 1 /\ messages[1].by = User
  BY DEF Init, StartAt, Input
<1>2. \A p \in 1 .. Len(messages) : ~Counts(messages[p], B, K)
  BY <1>1, UserIsNoAgent DEF Counts
<1>3. Said(messages, B, K) = {}
  BY <1>2 DEF Said
<1> QED
  BY <1>3, FS_EmptySet

LEMMA InitCount == Init => CountInv
<1> SUFFICES ASSUME Init PROVE CountInv
  OBVIOUS
<1>1. Ids(Participants) \in SUBSET Agents
  BY SeatFacts
<1>2. Cardinality(Said(messages, Ids(Participants), {})) = 0
  BY <1>1, NobodySaid
<1>3. turn = 0 /\ outcome = "running"
  BY DEF Init, StartAt
<1> QED
  BY <1>2, <1>3 DEF CountInv, TurnsAreAnswers, EndedWhenDue

\* How each step changes the transcript, where it ends the run and what it counts.
LEMMA SpokenFacts ==
  ASSUME ChatInv, NEW a \in Ids(Participants), NEW m \in Message, NEW n \in Nodes, Spoken(a, m, n)
  PROVE  /\ messages \in Seq(Message) /\ messages' = Append(messages, m)
         /\ IsAssistant(m) /\ m.by = a /\ toolCalls' = m.calls
         /\ m.kind = "refusal" => m.calls = << >>
         /\ n = IF m.calls # << >> THEN ToolsNode(a) ELSE Select
         /\ node' = n
         /\ outcome' # "done"
         /\ UNCHANGED << mode, speaker, over >>
         /\ turn' = IF Counts(m, Ids(Participants), {}) THEN turn + 1 ELSE turn
<1>1. /\ messages \in Seq(Message) /\ ran \in 0 .. RecursionLimit /\ ran < RecursionLimit
      /\ a \in Agents
  BY SeatFacts DEF Spoken, ChatInv, RunInv, TypeOKRun, PendingMatchesNode
<1>2. /\ messages' = Append(messages, m) /\ IsAssistant(m) /\ m.by = a /\ toolCalls' = m.calls
      /\ m.kind = "refusal" => m.calls = << >>
      /\ n = IF m.calls # << >> THEN ToolsNode(a) ELSE Select
      /\ Goto(n)
  BY DEF Spoken, Turned
<1>3. n # End
  BY <1>1, <1>2, SelectIsPlain, NodeFacts
<1>4. node' = n /\ outcome' # "done"
  BY <1>1, <1>2, <1>3, GotoFacts
<1>5. messages' # messages /\ messages'[Len(messages')] = m
  <2>1. Len(messages') = Len(messages) + 1 /\ Len(messages) \in Nat
    BY <1>1, <1>2, AppendFacts
  <2> QED
    BY <1>1, <1>2, <2>1, AppendFacts
<1>6. turn' = CountTurn /\ UNCHANGED << mode, speaker, over >>
  BY DEF Spoken, Speak
<1>7. Counts(m, Ids(Participants), {}) <=> (m.kind = "reply" /\ m.calls = << >>)
  BY <1>2 DEF Counts
<1>8. turn' = IF Counts(m, Ids(Participants), {}) THEN turn + 1 ELSE turn
  BY <1>2, <1>5, <1>6, <1>7 DEF CountTurn
<1> QED
  BY <1>1, <1>2, <1>4, <1>6, <1>8

LEMMA BatchFacts ==
  ASSUME ChatInv, NEW a \in Ids(Participants), Batch(a)
  PROVE  /\ messages \in Seq(Message) /\ Extends(messages', messages, a)
         /\ node' = AgentNode(a) /\ outcome' # "done" /\ UNCHANGED groupVars
<1>1. /\ messages \in Seq(Message) /\ ran \in 0 .. RecursionLimit /\ ran < RecursionLimit
      /\ a \in Agents
  BY SeatFacts DEF Batch, ChatInv, RunInv, TypeOKRun, PendingMatchesNode
<1>2. AgentNode(a) \in Nodes /\ AgentNode(a) # End
  BY <1>1, NodeFacts DEF PlainNodes
<1>3. node' = AgentNode(a) /\ outcome' # "done"
  BY <1>1, <1>2, GotoFacts DEF Batch
<1> QED
  BY <1>1, <1>3 DEF Batch, Answered

\* Every step keeps the count, and ends the run only when it is due.
LEMMA StepCount == ChatInv /\ CountInv /\ [Next]_vars => CountInv'
<1> SUFFICES ASSUME ChatInv, CountInv, [Next]_vars PROVE CountInv'
  OBVIOUS
<1>1. TurnsAreAnswers'
  <2>1. CASE Silent
    BY <2>1 DEF Silent, CountInv, TurnsAreAnswers
  <2>2. ASSUME NEW a \in Ids(Participants), NEW m \in Message, NEW n \in Nodes, Spoken(a, m, n)
        PROVE  turn' = Cardinality(Said(messages', Ids(Participants), {}))
    <3>1. /\ messages \in Seq(Message) /\ messages' = Append(messages, m)
          /\ turn' = IF Counts(m, Ids(Participants), {}) THEN turn + 1 ELSE turn
      BY <2>2, SpokenFacts
    <3>2. turn = Cardinality(Said(messages, Ids(Participants), {}))
      BY DEF CountInv, TurnsAreAnswers
    <3>3. Cardinality(Said(Append(messages, m), Ids(Participants), {})) =
            IF Counts(m, Ids(Participants), {})
            THEN Cardinality(Said(messages, Ids(Participants), {})) + 1
            ELSE Cardinality(Said(messages, Ids(Participants), {}))
      BY <3>1, SaidAppended
    <3> QED
      BY <3>1, <3>2, <3>3
  <2>3. ASSUME NEW a \in Ids(Participants), Batch(a)
        PROVE  turn' = Cardinality(Said(messages', Ids(Participants), {}))
    <3>1. Said(messages', Ids(Participants), {}) = Said(messages, Ids(Participants), {})
      BY <2>3, BatchFacts, SaidExtended
    <3> QED
      BY <2>3, <3>1, BatchFacts DEF CountInv, TurnsAreAnswers, groupVars
  <2> QED
    BY <2>1, <2>2, <2>3, StepEffect DEF TurnsAreAnswers
<1>2. EndedWhenDue'
  <2>1. CASE UNCHANGED vars
    BY <2>1 DEF vars, runVars, groupVars, CountInv, EndedWhenDue
  <2>2. CASE SelectNext
    <3>1. /\ RunInv /\ turn \in 0 .. MaxTurns /\ MaxTurns \in Nat
          /\ ran \in 0 .. RecursionLimit /\ ran < RecursionLimit
          /\ UNCHANGED mode
          /\ \/ EndChat /\ (turn >= MaxTurns \/ mode = "moderator")
             \/ \E k \in Seats : Given(k)
      BY <2>2, SelectEffect, GroupChatAssumption
         DEF ChatInv, SelectionInv, RunInv, TypeOKRun, PendingMatchesNode
    <3>2. CASE EndChat /\ (turn >= MaxTurns \/ mode = "moderator")
      <4>1. over' /\ turn' = turn
        BY <3>2 DEF EndChat
      <4>2. turn' = MaxTurns \/ mode' = "moderator"
        BY <3>1, <3>2, <4>1
      <4> QED
        BY <4>1, <4>2 DEF EndedWhenDue
    <3>3. ASSUME NEW k \in Seats, Given(k) PROVE outcome' # "done"
      <4>1. AgentNode(Participants[k]) \in Nodes /\ AgentNode(Participants[k]) # End
        BY SeatFacts, NodeFacts DEF PlainNodes
      <4> QED
        BY <3>1, <3>3, <4>1, GotoFacts DEF Given
    <3> QED
      BY <3>1, <3>2, <3>3 DEF EndedWhenDue
  <2>3. ASSUME NEW a \in Ids(Participants), Speak(a) PROVE outcome' # "done"
    <3>1. a \in Agents /\ AgentFn(a, {Select}) /\ RunInv /\ Running /\ node = AgentNode(a)
      BY <2>3, SeatFacts DEF Speak, AgentFn, ChatInv
    <3>2. Raised => outcome' # "done"
      BY DEF Raised, Errors
    <3>3. ASSUME NEW m \in Message, NEW n \in Nodes, Turned(a, {Select}, m, n)
          PROVE  outcome' # "done"
      BY <2>3, <3>1, <3>3, SpokenFacts DEF Spoken
    <3> QED
      BY <3>1, <3>2, <3>3, SelectIsPlain, AgentFnEffect
  <2>4. ASSUME NEW a \in Ids(Participants), GroupTools(a) PROVE outcome' # "done"
    <3>1. ran \in 0 .. RecursionLimit /\ ran < RecursionLimit /\ a \in Agents
      BY <2>4, SeatFacts DEF GroupTools, ChatInv, RunInv, TypeOKRun, PendingMatchesNode
    <3>2. AgentNode(a) \in Nodes /\ AgentNode(a) # End
      BY <3>1, NodeFacts DEF PlainNodes
    <3>3. Goto(AgentNode(a)) => outcome' # "done"
      BY <3>1, <3>2, GotoFacts
    <3>4. Raise("tool") => outcome' # "done"
      BY DEF Raise
    <3> QED
      BY <2>4, <3>3, <3>4 DEF GroupTools, ToolsAnswer
  <2> QED
    BY <2>1, <2>2, <2>3, <2>4 DEF Next, EndedWhenDue
<1> QED
  BY <1>1, <1>2 DEF CountInv

(***************************************************************************)
(* A chat that ends normally was ended, in turns after exactly max_turns   *)
(* answers, and never because the selection came up with nobody.           *)
(***************************************************************************)
THEOREM EndCorrect == Spec => []EndsWhenDue
<1>1. ChatInv /\ CountInv => EndsWhenDue
  <2> SUFFICES ASSUME ChatInv, CountInv PROVE EndsWhenDue
    OBVIOUS
  <2>1. speaker \subseteq Ids(Participants)
    BY SeatFacts DEF ChatInv, SelectionInv
  <2>2. TypeOK
    BY <2>1 DEF ChatInv, SelectionInv, RunInv, TypeOK
  <2>3. UNION {AnswersOf(a) : a \in Ids(Participants)} = Said(messages, Ids(Participants), {})
    BY SaidMeans
  <2>4. outcome = "done" =>
          over /\ (Cardinality(Said(messages, Ids(Participants), {})) = MaxTurns \/ mode = "moderator")
    BY DEF CountInv, TurnsAreAnswers, EndedWhenDue
  <2> QED
    BY <2>2, <2>3, <2>4 DEF EndsWhenDue
<1> QED
  BY <1>1, InitCount, StepCount, Invariance, PTL DEF Spec

-----------------------------------------------------------------------------
(***************************************************************************)
(* Rounds.  That round robin is balanced is not inductive: it must be      *)
(* known that the first c seats have spoken once more than the others, and *)
(* that the one the floor is given to next is the seat after them.         *)
(***************************************************************************)
Speeches(s, i) == Cardinality(Said(s, {Participants[i]}, {"refusal"}))

\* In s, every seat has spoken in R rounds, and the first c in one round more.
Rounds(s, R, c) == \A i \in Seats : Speeches(s, i) = IF i <= c THEN R + 1 ELSE R

\* select_next is to give the floor to the seat after c.
Waiting(c) == node = Select /\ speaker = IF c = 0 THEN {} ELSE {Participants[c]}

\* The seat after c has the floor.
Speaking(c) ==
  /\ c + 1 \in Seats
  /\ node \in {AgentNode(Participants[c + 1]), ToolsNode(Participants[c + 1])}
  /\ speaker = {Participants[c + 1]}

RoundInv ==
  mode = "round_robin" =>
    \E R \in Nat, c \in 0 .. Len(Participants) :
      Rounds(messages, R, c) /\ (Running => Waiting(c) \/ Speaking(c))

LEMMA InitRounds == Init => RoundInv
<1> SUFFICES ASSUME Init PROVE RoundInv
  OBVIOUS
<1>1. ASSUME NEW i \in Seats PROVE Speeches(messages, i) = 0 /\ ~(i <= 0)
  <2>1. {Participants[i]} \in SUBSET Agents /\ {"refusal"} \in SUBSET {"refusal"}
    BY SeatFacts
  <2>2. Cardinality(Said(messages, {Participants[i]}, {"refusal"})) = 0
    BY <2>1, NobodySaid
  <2> QED
    BY <2>2, SeatFacts DEF Speeches, Seats
<1>2. Rounds(messages, 0, 0)
  BY <1>1 DEF Rounds
<1>3. Waiting(0)
  BY DEF Init, StartAt, Waiting
<1>4. 0 \in Nat /\ 0 \in 0 .. Len(Participants)
  BY SeatFacts
<1> QED
  BY <1>2, <1>3, <1>4 DEF RoundInv

\* A round that everybody has spoken in is over, and the next one starts.
LEMMA RoundOver ==
  ASSUME NEW s, NEW R \in Nat, Rounds(s, R, Len(Participants))
  PROVE  Rounds(s, R + 1, 0)
<1>1. \A i \in Seats : i <= Len(Participants) /\ ~(i <= 0)
  BY SeatFacts DEF Seats
<1> QED
  BY <1>1 DEF Rounds

\* The selection gives the floor to the next seat.
LEMMA SelectRounds == ChatInv /\ RoundInv /\ SelectNext => RoundInv'
<1> SUFFICES ASSUME ChatInv, RoundInv, SelectNext, mode' = "round_robin" PROVE RoundInv'
  BY DEF RoundInv
<1>1. /\ Running /\ node = Select /\ UNCHANGED << messages, mode >>
      /\ \/ EndChat
         \/ \E k \in Seats : Given(k) /\ Participants[k] = PickRoundRobin(Participants, speaker)
  BY SelectEffect DEF ChatInv, SelectionInv
<1>2. PICK R \in Nat, c \in 0 .. Len(Participants) :
        Rounds(messages, R, c) /\ (Waiting(c) \/ Speaking(c))
  BY <1>1 DEF RoundInv
<1>3. Waiting(c)
  <2>1. \A i \in Seats : Select \notin {AgentNode(Participants[i]), ToolsNode(Participants[i])}
    BY SelectIsPlain DEF AgentNode, ToolsNode
  <2> QED
    BY <1>1, <1>2, <2>1 DEF Speaking
<1>4. CASE EndChat
  <2>1. ~Running'
    BY <1>4 DEF EndChat, Goto, Running
  <2> QED
    BY <1>1, <1>2, <2>1 DEF RoundInv, Rounds, Speeches
<1>5. ASSUME NEW k \in Seats, Given(k), Participants[k] = PickRoundRobin(Participants, speaker)
      PROVE  RoundInv'
  <2>1. /\ node' = AgentNode(Participants[k]) /\ speaker' = {Participants[k]}
    BY <1>5 DEF Given, Goto
  <2>2. ASSUME NEW S \in Nat, NEW d \in 0 .. Len(Participants), d + 1 = k,
               Rounds(messages, S, d)
        PROVE  RoundInv'
    <3>1. Speaking(d)'
      BY <2>1, <2>2 DEF Speaking
    <3>2. Rounds(messages', S, d)
      BY <1>1, <2>2
    <3> QED
      BY <3>1, <3>2 DEF RoundInv, Rounds, Speeches
  <2>3. CASE c = 0
    <3>1. k = 1
      BY <1>3, <1>5, <2>3, RoundRobinPicks, SeatFacts DEF Waiting
    <3> QED
      BY <1>2, <2>2, <2>3, <3>1
  <2>4. CASE c \in Seats /\ c # Len(Participants)
    <3>1. c + 1 \in Seats /\ c # 0
      BY <2>4, SeatFacts DEF Seats
    <3>2. Participants[k] = Participants[c + 1]
      BY <1>3, <1>5, <2>4, <3>1, RoundRobinPicks DEF Waiting
    <3>3. k = c + 1
      BY <3>1, <3>2, SeatFacts
    <3> QED
      BY <1>2, <2>2, <3>3
  <2>5. CASE c = Len(Participants)
    <3>1. c \in Seats /\ c # 0
      BY <2>5, SeatFacts DEF Seats
    <3>2. Participants[k] = Participants[1]
      BY <1>3, <1>5, <2>5, <3>1, RoundRobinPicks DEF Waiting
    <3>3. k = 1
      BY <3>2, SeatFacts
    <3>4. 0 + 1 = k /\ 0 \in 0 .. Len(Participants) /\ R + 1 \in Nat
      BY <3>3, SeatFacts
    <3>5. Rounds(messages, R + 1, 0)
      BY <1>2, <2>5, RoundOver
    <3> QED
      BY <2>2, <3>4, <3>5
  <2> QED
    BY <2>3, <2>4, <2>5, SeatFacts DEF Seats
<1> QED
  BY <1>1, <1>4, <1>5

\* Who has the floor when a node of a participant runs.
LEMMA HasFloor ==
  ASSUME NEW a \in Ids(Participants), node \in {AgentNode(a), ToolsNode(a)},
         NEW c, Waiting(c) \/ Speaking(c)
  PROVE  c + 1 \in Seats /\ a = Participants[c + 1] /\ speaker = {a}
<1>1. node.agent = a /\ node.fn # "select"
  BY DEF AgentNode, ToolsNode
<1>2. Speaking(c)
  BY <1>1, SelectIsPlain DEF Waiting
<1> QED
  BY <1>1, <1>2 DEF Speaking, AgentNode, ToolsNode

\* A turn without calls passes the floor on, one with calls keeps it.
LEMMA SpokenRounds ==
  ASSUME ChatInv, RoundInv, NEW a \in Ids(Participants), NEW m \in Message, NEW n \in Nodes,
         Spoken(a, m, n)
  PROVE  RoundInv'
<1>1. /\ messages \in Seq(Message) /\ messages' = Append(messages, m)
      /\ IsAssistant(m) /\ m.by = a
      /\ m.kind = "refusal" => m.calls = << >>
      /\ node' = IF m.calls # << >> THEN ToolsNode(a) ELSE Select
      /\ UNCHANGED << mode, speaker >>
      /\ Running /\ node = AgentNode(a)
  BY SpokenFacts DEF Spoken
<1> SUFFICES ASSUME mode' = "round_robin"
             PROVE  \E R \in Nat, c \in 0 .. Len(Participants) :
                      Rounds(messages', R, c) /\ (Waiting(c)' \/ Speaking(c)')
  BY DEF RoundInv, Rounds, Speeches
<1>2. PICK R \in Nat, c \in 0 .. Len(Participants) :
        Rounds(messages, R, c) /\ (Waiting(c) \/ Speaking(c))
  BY <1>1 DEF RoundInv
<1>3. c + 1 \in Seats /\ a = Participants[c + 1] /\ speaker = {a}
  BY <1>1, <1>2, HasFloor
<1>4. \A i \in Seats : Counts(m, {Participants[i]}, {"refusal"}) <=> (i = c + 1 /\ m.calls = << >>)
  <2>1. \A i \in Seats : a \in {Participants[i]} <=> i = c + 1
    BY <1>3, SeatFacts
  <2>2. ((m.kind = "reply" /\ m.calls = << >>) \/ m.kind \in {"refusal"}) <=> m.calls = << >>
    BY <1>1 DEF IsAssistant
  <2> QED
    BY <1>1, <2>1, <2>2 DEF Counts
<1>5. \A i \in Seats :
        Speeches(messages', i) =
          IF i = c + 1 /\ m.calls = << >> THEN Speeches(messages, i) + 1 ELSE Speeches(messages, i)
  BY <1>1, <1>4, SaidAppended DEF Speeches
<1>6. CASE m.calls # << >>
  <2>1. Rounds(messages', R, c)
    BY <1>2, <1>5, <1>6 DEF Rounds
  <2>2. Speaking(c)'
    BY <1>1, <1>3, <1>6 DEF Speaking
  <2> QED
    BY <2>1, <2>2
<1>7. CASE m.calls = << >>
  <2>1. /\ c + 1 \in 0 .. Len(Participants) /\ c + 1 # 0
        /\ \A i \in Seats : (i <= c + 1) <=> (i <= c \/ i = c + 1)
        /\ ~(c + 1 <= c)
    BY <1>3, SeatFacts DEF Seats
  <2>2. Rounds(messages', R, c + 1)
    BY <1>2, <1>5, <1>7, <2>1 DEF Rounds
  <2>3. Waiting(c + 1)'
    BY <1>1, <1>3, <1>7, <2>1 DEF Waiting
  <2> QED
    BY <2>1, <2>2, <2>3
<1> QED
  BY <1>6, <1>7

\* The results of a batch leave the floor where it is.
LEMMA BatchRounds ==
  ASSUME ChatInv, RoundInv, NEW a \in Ids(Participants), Batch(a)
  PROVE  RoundInv'
<1>1. /\ messages \in Seq(Message) /\ Extends(messages', messages, a)
      /\ node' = AgentNode(a) /\ UNCHANGED << mode, speaker >>
      /\ Running /\ node = ToolsNode(a)
  BY BatchFacts DEF Batch, groupVars
<1> SUFFICES ASSUME mode' = "round_robin"
             PROVE  \E R \in Nat, c \in 0 .. Len(Participants) :
                      Rounds(messages', R, c) /\ (Waiting(c)' \/ Speaking(c)')
  BY DEF RoundInv, Rounds, Speeches
<1>2. PICK R \in Nat, c \in 0 .. Len(Participants) :
        Rounds(messages, R, c) /\ (Waiting(c) \/ Speaking(c))
  BY <1>1 DEF RoundInv
<1>3. c + 1 \in Seats /\ a = Participants[c + 1] /\ speaker = {a}
  BY <1>1, <1>2, HasFloor
<1>4. \A i \in Seats : Speeches(messages', i) = Speeches(messages, i)
  BY <1>1, SaidExtended DEF Speeches
<1>5. Rounds(messages', R, c)
  BY <1>2, <1>4 DEF Rounds
<1>6. Speaking(c)'
  BY <1>1, <1>3 DEF Speaking
<1> QED
  BY <1>5, <1>6

(***************************************************************************)
(* Round robin is balanced: with any number of participants and through    *)
(* tool loops, refusals and failures, nobody is more than one speech ahead *)
(* of anybody else.                                                        *)
(***************************************************************************)
THEOREM RoundsBalanced == Spec => []Balanced
<1>1. ChatInv /\ RoundInv /\ [Next]_vars => RoundInv'
  <2> SUFFICES ASSUME ChatInv, RoundInv, [Next]_vars PROVE RoundInv'
    OBVIOUS
  <2>1. CASE UNCHANGED vars
    BY <2>1 DEF vars, runVars, groupVars, RoundInv, Rounds, Speeches, Waiting, Speaking, Running
  <2>2. ASSUME Silent, UNCHANGED << mode, speaker >>, UNCHANGED node \/ ~Running' PROVE RoundInv'
    BY <2>2 DEF RoundInv, Rounds, Speeches, Waiting, Speaking, Silent
  <2>3. ASSUME NEW a \in Ids(Participants), Speak(a) PROVE RoundInv'
    <3>1. a \in Agents /\ AgentFn(a, {Select}) /\ RunInv /\ Running /\ node = AgentNode(a)
          /\ UNCHANGED << mode, speaker >> /\ turn' = CountTurn
      BY <2>3, SeatFacts DEF Speak, AgentFn, ChatInv
    <3>2. Raised => Silent /\ ~Running'
      BY <3>1 DEF Raised, Silent, CountTurn, Running, Errors
    <3>3. CASE Raised
      BY <2>2, <3>1, <3>2, <3>3
    <3>4. ASSUME NEW m \in Message, NEW n \in Nodes, Turned(a, {Select}, m, n) PROVE RoundInv'
      BY <2>3, <3>1, <3>4, SpokenRounds DEF Spoken
    <3> QED
      BY <3>1, <3>3, <3>4, SelectIsPlain, AgentFnEffect
  <2>4. ASSUME NEW a \in Ids(Participants), GroupTools(a) PROVE RoundInv'
    <3>1. CASE Batch(a)
      BY <3>1, BatchRounds
    <3>2. CASE Raise("tool") /\ Raised
      <4>1. Silent /\ ~Running' /\ UNCHANGED << mode, speaker >>
        BY <2>4, <3>2 DEF GroupTools, Raised, Silent, Running, Errors, groupVars
      <4> QED
        BY <2>2, <4>1
    <3>3. CASE ToolsAnswer(a, AgentNode(a)) /\ ToolsFn(a, AgentNode(a))
      <4>1. Batch(a)
        BY <2>4, <3>3, WholeBatch
      <4> QED
        BY <3>1, <4>1
    <3> QED
      BY <2>4, <3>2, <3>3, GroupToolsEffect
  <2> QED
    BY <2>1, <2>3, <2>4, SelectRounds DEF Next
<1>2. RoundInv => Balanced
  <2> SUFFICES ASSUME RoundInv, mode = "round_robin",
                      NEW a \in Ids(Participants), NEW b \in Ids(Participants)
               PROVE  Cardinality(SpeechesOf(a)) <= Cardinality(SpeechesOf(b)) + 1
    BY DEF Balanced
  <2>1. PICK R \in Nat, c \in 0 .. Len(Participants) : Rounds(messages, R, c)
    BY DEF RoundInv
  <2>2. PICK i \in Seats, j \in Seats : a = Participants[i] /\ b = Participants[j]
    BY SeatFacts
  <2>3. /\ Cardinality(SpeechesOf(a)) = Speeches(messages, i)
        /\ Cardinality(SpeechesOf(b)) = Speeches(messages, j)
    BY <2>2, SaidMeans DEF Speeches
  <2>4. Speeches(messages, i) \in {R, R + 1} /\ Speeches(messages, j) \in {R, R + 1}
    BY <2>1 DEF Rounds
  <2> QED
    BY <2>3, <2>4
<1> QED
  BY <1>1, <1>2, InitRounds, Invariance, PTL DEF Spec

-----------------------------------------------------------------------------
(* The handoff builder. *)

(***************************************************************************)
(* The router always names one of the candidates, whether the routing      *)
(* model answered with an id, with a mention, with nonsense or not at all. *)
(***************************************************************************)
THEOREM RouterPicksCandidate ==
  ASSUME NEW list \in Seq(Agents), list # << >>,
         NEW r, r.failed \in BOOLEAN, r.json \in BOOLEAN
  PROVE  ChooseNextAgent(list, r) \in Ids(list)
<1>1. Head(list) \in Ids(list)
  BY DEF Ids
<1>2. r.mentions \cap Ids(list) # {} => FirstIn(list, r.mentions) \in Ids(list)
  BY FirstInFacts
<1>3. Names(r, list) => TheNamed(r) \in Ids(list)
  BY DEF Names
<1>4. CASE r.failed
  BY <1>1, <1>4 DEF ChooseNextAgent
<1>5. CASE ~r.failed /\ Names(r, list)
  BY <1>3, <1>5 DEF ChooseNextAgent
<1>6. CASE ~r.failed /\ ~Names(r, list)
  BY <1>1, <1>2, <1>6 DEF ChooseNextAgent
<1> QED
  BY <1>4, <1>5, <1>6

\* The edges of the graph lead to agents of the graph, or to END, whatever the router answers.
LEMMA Edges ==
  ASSUME NEW a \in Agents
  PROVE  Onward(a) \in SUBSET PlainNodes
<1>1. Adjacency[a] \in Seq(Agents) /\ Len(Adjacency[a]) \in Nat
  BY HandoffAssumption
<1>2. \A b \in Ids(Adjacency[a]) : b \in Agents
  BY <1>1 DEF Ids
<1>3. CASE Len(Adjacency[a]) = 0
  BY <1>3, NodeFacts DEF Onward
<1>4. CASE Len(Adjacency[a]) = 1
  <2>1. Adjacency[a][1] \in Agents
    BY <1>1, <1>4
  <2> QED
    BY <1>4, <2>1, NodeFacts DEF Onward
<1>5. CASE Len(Adjacency[a]) > 1
  <2>1. \A r \in RouterReplies : ChooseNextAgent(Adjacency[a], r) \in Agents
    BY <1>1, <1>2, <1>5, RouterPicksCandidate, HandoffAssumption
  <2>2. Onward(a) = {AgentNode(ChooseNextAgent(Adjacency[a], r)) : r \in RouterReplies}
    BY <1>5 DEF Onward
  <2> QED
    BY <2>1, <2>2, NodeFacts
<1>6. Len(Adjacency[a]) = 0 \/ Len(Adjacency[a]) = 1 \/ Len(Adjacency[a]) > 1
  <2>1. \A n \in Nat : n = 0 \/ n = 1 \/ n > 1
    OBVIOUS
  <2> QED
    BY <1>1, <2>1
<1> QED
  BY <1>3, <1>4, <1>5, <1>6

\* The run starts at the root, with the invariant.
LEMMA HandoffInitInv == HandoffInit => RunInv
BY StartInv, HandoffAssumption, NodeFacts DEF HandoffInit

\* Every node of the graph keeps the invariant.
LEMMA HandoffStepInv == RunInv /\ [HandoffNext]_runVars => RunInv'
<1> SUFFICES ASSUME RunInv, [HandoffNext]_runVars PROVE RunInv'
  OBVIOUS
<1>1. CASE UNCHANGED runVars
  BY <1>1 DEF runVars, RunInv, TypeOKRun, PendingMatchesNode, ToolsAnswerCalls, Running
<1>2. ASSUME NEW a \in Agents, HandoffSpeak(a) PROVE RunInv'
  BY <1>2, Edges, AgentFnInv DEF HandoffSpeak
<1>3. ASSUME NEW a \in Agents, CallTools(a) PROVE RunInv'
  BY <1>3, NodeFacts, ToolsFnInv DEF CallTools
<1> QED
  BY <1>1, <1>2, <1>3 DEF HandoffNext

(***************************************************************************)
(* Handoff runs keep the inductive invariant of the engine, and with it    *)
(* types, the super-step limit and the answering of tool calls.            *)
(***************************************************************************)
THEOREM HandoffInvariance == HandoffSpec => []RunInv
BY HandoffInitInv, HandoffStepInv, PTL DEF HandoffSpec

(***************************************************************************)
(* The router never leads a run to a node that the graph does not have.    *)
(***************************************************************************)
THEOREM HandoffTypeCorrect == HandoffSpec => []HandoffTypeOK
<1>1. RunInv => HandoffTypeOK
  BY DEF RunInv, HandoffTypeOK
<1> QED
  BY HandoffInvariance, <1>1, PTL

(***************************************************************************)
(* Every tool message of a handoff run answers the call it stands for.     *)
(***************************************************************************)
THEOREM HandoffAnswersCorrect == HandoffSpec => []ToolsAnswerCalls
<1>1. RunInv => ToolsAnswerCalls
  BY DEF RunInv
<1> QED
  BY HandoffInvariance, <1>1, PTL

\* Every step of a handoff run is a step of the contract.
LEMMA HandoffStepRefines == RunInv /\ [HandoffNext]_runVars => [Engine!EngineNext]_(Engine!engineVars)
<1> SUFFICES ASSUME RunInv, [HandoffNext]_runVars PROVE [Engine!EngineNext]_(Engine!engineVars)
  OBVIOUS
<1>1. CASE UNCHANGED runVars
  BY <1>1 DEF runVars, Engine!engineVars, Status
<1>2. ASSUME NEW a \in Agents, HandoffSpeak(a) PROVE Engine!EngineNext
  BY <1>2, Edges, AgentFnRefines DEF HandoffSpeak
<1>3. ASSUME NEW a \in Agents, CallTools(a) PROVE Engine!EngineNext
  BY <1>3, NodeFacts, ToolsFnRefines DEF CallTools
<1> QED
  BY <1>1, <1>2, <1>3 DEF HandoffNext

(***************************************************************************)
(* Every handoff run is a run of the engine's contract.                    *)
(***************************************************************************)
THEOREM HandoffRefinement == HandoffSpec => ImplementsEngine
<1>1. HandoffInit => Engine!EngineInit
  BY StartRefines DEF HandoffInit
<1>2. RunInv /\ [HandoffNext]_runVars => [Engine!EngineNext]_(Engine!engineVars)
  BY HandoffStepRefines
<1> QED
  BY <1>1, <1>2, HandoffInvariance, PTL DEF HandoffSpec, ImplementsEngine

-----------------------------------------------------------------------------
(***************************************************************************)
(* The order of the transcript.                                            *)
(***************************************************************************)
\* Each node function keeps the order of calls and answers.
LEMMA HandoffStepOrder == RunInv /\ OrderInv /\ [HandoffNext]_runVars => OrderInv'
<1> SUFFICES ASSUME RunInv, OrderInv, [HandoffNext]_runVars PROVE OrderInv'
  OBVIOUS
<1>1. CASE UNCHANGED runVars
  BY <1>1, SilentOrder DEF runVars, Running
<1>2. ASSUME NEW a \in Agents, HandoffSpeak(a) PROVE OrderInv'
  BY <1>2, Edges, AgentFnOrder DEF HandoffSpeak
<1>3. ASSUME NEW a \in Agents, CallTools(a) PROVE OrderInv'
  BY <1>3, ToolsFnOrder DEF CallTools
<1> QED
  BY <1>1, <1>2, <1>3 DEF HandoffNext

\* Handoff runs keep that order.
LEMMA HandoffOrderInvariance == HandoffSpec => []OrderInv
<1>1. HandoffInit => OrderInv
  BY StartOrder DEF HandoffInit
<1> QED
  BY <1>1, HandoffStepOrder, HandoffInvariance, PTL DEF HandoffSpec

-----------------------------------------------------------------------------
(***************************************************************************)
(* The edges.  That nobody who handed over comes back is a matter of where *)
(* the run stands in the graph: beyond everybody who has handed over.      *)
(***************************************************************************)
HandedOver(p) == IsAssistant(messages[p]) /\ messages[p].calls = << >>

EdgesTaken ==
  \A p, q \in 1 .. Len(messages) :
    NextSpeech(messages, p, q) /\ messages[p].calls = << >> =>
      messages[q].by \in Ids(Adjacency[messages[p].by])

NoneReturns ==
  \A p, q \in 1 .. Len(messages) :
    p < q /\ HandedOver(p) => messages[q].by # messages[p].by

EndsAtLeaf == outcome = "done" => Adjacency[messages[Len(messages)].by] = << >>

SuccessorIsNext ==
  Running =>
    \A p \in 1 .. Len(messages) :
      LastSpeech(messages, p) /\ messages[p].calls = << >> =>
        \E b \in Ids(Adjacency[messages[p].by]) : node = AgentNode(b)

BeyondAll ==
  Running =>
    \A p \in 1 .. Len(messages) :
      HandedOver(p) => messages[p].by \in Agents /\ Depth[messages[p].by] < Depth[node.agent]

EdgeInv ==
  /\ EdgesTaken
  /\ NoneReturns
  /\ EndsAtLeaf
  /\ SuccessorIsNext
  /\ BeyondAll

LEMMA EdgeInvImplies == EdgeInv /\ OrderInv => FollowsEdges
BY DEF EdgeInv, EdgesTaken, NoneReturns, EndsAtLeaf, HandedOver, OrderInv, CallsResumed, FollowsEdges

\* Where an edge leads: to END from a leaf, else to a successor.
LEMMA EdgeEnds ==
  ASSUME NEW a \in Agents, NEW n \in Onward(a)
  PROVE  \/ n = End /\ Adjacency[a] = << >>
         \/ \E b \in Ids(Adjacency[a]) : n = AgentNode(b)
<1>1. Adjacency[a] \in Seq(Agents) /\ Len(Adjacency[a]) \in Nat
  BY HandoffAssumption
<1>2. CASE Len(Adjacency[a]) = 0
  BY <1>1, <1>2 DEF Onward
<1>3. CASE Len(Adjacency[a]) = 1
  <2>1. Adjacency[a][1] \in Ids(Adjacency[a])
    BY <1>3 DEF Ids
  <2> QED
    BY <1>3, <2>1 DEF Onward
<1>4. CASE Len(Adjacency[a]) > 1
  <2>1. \A r \in RouterReplies : ChooseNextAgent(Adjacency[a], r) \in Ids(Adjacency[a])
    BY <1>1, <1>4, RouterPicksCandidate, HandoffAssumption
  <2>2. Onward(a) = {AgentNode(ChooseNextAgent(Adjacency[a], r)) : r \in RouterReplies}
    BY <1>4 DEF Onward
  <2> QED
    BY <2>1, <2>2
<1>5. Len(Adjacency[a]) = 0 \/ Len(Adjacency[a]) = 1 \/ Len(Adjacency[a]) > 1
  <2>1. \A n1 \in Nat : n1 = 0 \/ n1 = 1 \/ n1 > 1
    OBVIOUS
  <2> QED
    BY <1>1, <2>1
<1> QED
  BY <1>2, <1>3, <1>4, <1>5

\* Successors are agents of the graph that lie deeper in it.
LEMMA Deeper ==
  ASSUME NEW a \in Agents, NEW b \in Ids(Adjacency[a])
  PROVE  b \in Agents /\ Depth[a] \in Nat /\ Depth[b] \in Nat /\ Depth[a] < Depth[b]
<1>1. Adjacency[a] \in Seq(Agents)
  BY HandoffAssumption
<1>2. b \in Agents
  BY <1>1 DEF Ids
<1> QED
  BY <1>2, HandoffAssumption

\* Nobody has spoken at the start.
LEMMA InitEdges == HandoffInit => EdgeInv
<1> SUFFICES ASSUME HandoffInit PROVE EdgeInv
  OBVIOUS
<1>1. messages = << Input >> /\ Len(messages) = 1 /\ outcome = "running"
      /\ messages[1].kind = "input"
  BY DEF HandoffInit, StartAt, Input
<1>2. \A p \in 1 .. Len(messages) : ~IsAssistant(messages[p])
  BY <1>1 DEF IsAssistant
<1> QED
  BY <1>1, <1>2 DEF EdgeInv, EdgesTaken, NoneReturns, EndsAtLeaf, SuccessorIsNext, BeyondAll,
     HandedOver, NextSpeech, LastSpeech

\* Steps that say nothing and end the run by an exception, or change nothing.
LEMMA SilentEdges ==
  ASSUME EdgeInv, UNCHANGED << messages, node >>, UNCHANGED outcome \/ outcome' \in Errors
  PROVE  EdgeInv'
<1>1. EdgesTaken' /\ NoneReturns'
  BY DEF EdgeInv, EdgesTaken, NoneReturns, HandedOver
<1>2. EndsAtLeaf'
  BY DEF EdgeInv, EndsAtLeaf, Errors
<1>3. SuccessorIsNext' /\ BeyondAll'
  BY DEF EdgeInv, SuccessorIsNext, BeyondAll, HandedOver, Running, Errors
<1> QED
  BY <1>1, <1>2, <1>3 DEF EdgeInv

\* A turn of agent a follows an edge to it, and leaves along one.
LEMMA SpeakEdges ==
  ASSUME RunInv, OrderInv, EdgeInv, NEW a \in Agents, HandoffSpeak(a)
  PROVE  EdgeInv'
<1> DEFINE l == Len(messages)
<1>1. /\ Running /\ node = AgentNode(a) /\ node.agent = a
      /\ messages \in Seq(Message) /\ l \in Nat /\ l > 0
      /\ ran \in 0 .. RecursionLimit /\ ran < RecursionLimit
      /\ AgentFn(a, Onward(a))
  BY DEF HandoffSpeak, AgentFn, RunInv, TypeOKRun, PendingMatchesNode, AgentNode
<1>2. CASE Raised
  BY <1>2, SilentEdges DEF Raised
<1>3. ASSUME NEW m \in Message, NEW n \in Nodes, Turned(a, Onward(a), m, n)
      PROVE  EdgeInv'
  <2>1. /\ messages' \in Seq(Message) /\ Len(messages') = l + 1
        /\ \A p \in 1 .. l : messages'[p] = messages[p]
        /\ messages'[l + 1] = m
        /\ IsAssistant(m) /\ m.by = a
    BY <1>1, <1>3, AppendFacts DEF Turned
  <2>2. /\ node' = n
        /\ outcome' = "running" => n # End
        /\ outcome' = "done" => n = End
    BY <1>1, <1>3, GotoFacts DEF Turned
  <2>3. /\ \A p : LastSpeech(messages', p) <=> p = l + 1
        /\ \A p, q \in 1 .. Len(messages') :
             NextSpeech(messages', p, q) =>
               \/ p \in 1 .. l /\ q \in 1 .. l /\ NextSpeech(messages, p, q)
               \/ q = l + 1 /\ LastSpeech(messages, p)
    BY <1>1, <1>3, SpeechAppended DEF Turned
  <2>4. \/ m.calls # << >> /\ n = ToolsNode(a)
        \/ m.calls = << >> /\ n = End /\ Adjacency[a] = << >>
        \/ m.calls = << >> /\ \E b \in Ids(Adjacency[a]) : n = AgentNode(b)
    BY <1>3, EdgeEnds DEF Turned
  <2>5. \A p \in 1 .. Len(messages') : p \in 1 .. l \/ p = l + 1
    BY <1>1, <2>1
  <2>6. \A p \in 1 .. l : HandedOver(p) => messages[p].by \in Agents /\ Depth[messages[p].by] < Depth[a]
    BY <1>1 DEF EdgeInv, BeyondAll
  <2> HIDE DEF l
  <2>7. EdgesTaken'
    <3>1. SUFFICES ASSUME NEW p \in 1 .. Len(messages'), NEW q \in 1 .. Len(messages'),
                          NextSpeech(messages', p, q), messages'[p].calls = << >>
                   PROVE  messages'[q].by \in Ids(Adjacency[messages'[p].by])
      BY DEF EdgesTaken
    <3>2. CASE p \in 1 .. l /\ q \in 1 .. l /\ NextSpeech(messages, p, q)
      BY <2>1, <3>1, <3>2 DEF EdgeInv, EdgesTaken, l
    <3>3. CASE q = l + 1 /\ LastSpeech(messages, p)
      <4>1. p \in 1 .. Len(messages) /\ messages'[p] = messages[p]
        BY <2>1, <3>3 DEF LastSpeech, l
      <4>2. PICK b \in Ids(Adjacency[messages[p].by]) : node = AgentNode(b)
        BY <1>1, <3>1, <3>3, <4>1 DEF EdgeInv, SuccessorIsNext
      <4>3. b = a
        BY <1>1, <4>2 DEF AgentNode
      <4> QED
        BY <2>1, <3>3, <4>1, <4>2, <4>3
    <3> QED
      BY <2>3, <3>1, <3>2, <3>3
  <2>8. NoneReturns'
    <3>1. SUFFICES ASSUME NEW p \in 1 .. Len(messages'), NEW q \in 1 .. Len(messages'),
                          p < q, IsAssistant(messages'[p]), messages'[p].calls = << >>
                   PROVE  messages'[q].by # messages'[p].by
      BY DEF NoneReturns, HandedOver
    <3>2. p \in 1 .. l /\ messages'[p] = messages[p] /\ HandedOver(p)
      BY <1>1, <2>1, <2>5, <3>1 DEF HandedOver
    <3>3. CASE q \in 1 .. l
      BY <2>1, <3>1, <3>2, <3>3 DEF EdgeInv, NoneReturns, l
    <3>4. CASE q = l + 1
      <4>1. messages[p].by \in Agents /\ Depth[messages[p].by] < Depth[a]
        BY <2>6, <3>2
      <4>2. Depth[a] \in Nat
        BY HandoffAssumption
      <4>3. messages[p].by # a
        BY <4>1, <4>2
      <4> QED
        BY <2>1, <3>2, <3>4, <4>3
    <3> QED
      BY <2>5, <3>3, <3>4
  <2>9. EndsAtLeaf'
    <3>1. SUFFICES ASSUME n = End PROVE Adjacency[a] = << >>
      BY <2>1, <2>2 DEF EndsAtLeaf
    <3>2. n # ToolsNode(a) /\ \A b \in Ids(Adjacency[a]) : n # AgentNode(b)
      BY <3>1, Deeper, NodeFacts
    <3> QED
      BY <2>4, <3>2
  <2>10. SuccessorIsNext'
    <3>1. SUFFICES ASSUME n # End, m.calls = << >>
                   PROVE  \E b \in Ids(Adjacency[a]) : n = AgentNode(b)
      BY <2>1, <2>2, <2>3 DEF SuccessorIsNext, Running
    <3> QED
      BY <2>4, <3>1
  <2>11. BeyondAll'
    <3>1. SUFFICES ASSUME n # End, NEW p \in 1 .. Len(messages'),
                          IsAssistant(messages'[p]), messages'[p].calls = << >>
                   PROVE  messages'[p].by \in Agents /\ Depth[messages'[p].by] < Depth[n.agent]
      BY <2>2 DEF BeyondAll, HandedOver, Running
    <3>2. Depth[a] \in Nat /\ Depth[n.agent] \in Nat
          /\ (Depth[a] < Depth[n.agent] \/ (m.calls # << >> /\ n.agent = a))
      <4>1. CASE n = ToolsNode(a) /\ m.calls # << >>
        BY <4>1, NodeFacts, HandoffAssumption
      <4>2. ASSUME NEW b \in Ids(Adjacency[a]), n = AgentNode(b)
            PROVE  Depth[a] \in Nat /\ Depth[n.agent] \in Nat /\ Depth[a] < Depth[n.agent]
        BY <4>2, Deeper DEF AgentNode
      <4> QED
        BY <2>4, <3>1, <4>1, <4>2
    <3>3. CASE p \in 1 .. l
      <4>1. messages'[p] = messages[p] /\ messages[p].by \in Agents /\ Depth[messages[p].by] < Depth[a]
        BY <2>1, <2>6, <3>1, <3>3 DEF HandedOver
      <4>2. Depth[messages[p].by] \in Nat
        BY <4>1, HandoffAssumption
      <4> QED
        BY <3>2, <4>1, <4>2
    <3>4. CASE p = l + 1
      BY <2>1, <3>1, <3>2, <3>4
    <3> QED
      BY <2>5, <3>3, <3>4
  <2> QED
    BY <2>7, <2>8, <2>9, <2>10, <2>11 DEF EdgeInv
<1> QED
  BY <1>1, <1>2, <1>3, Edges, AgentFnEffect

\* The results of agent a's calls are no speeches, and a is the one to go on.
LEMMA CallToolsEdges ==
  ASSUME RunInv, OrderInv, EdgeInv, NEW a \in Agents, CallTools(a)
  PROVE  EdgeInv'
<1> DEFINE l == Len(messages)
<1>1. /\ Running /\ node = ToolsNode(a) /\ node.agent = a
      /\ messages \in Seq(Message) /\ l \in Nat /\ l > 0
      /\ messages[l].kind = "reply" /\ messages[l].calls = toolCalls
      /\ toolCalls \in Seq(Tools) /\ toolCalls # << >>
      /\ ran \in 0 .. RecursionLimit /\ ran < RecursionLimit
      /\ ToolsFn(a, AgentNode(a))
  BY DEF CallTools, ToolsFn, RunInv, TypeOKRun, PendingMatchesNode, ToolsNode
<1>2. AgentNode(a) \in PlainNodes /\ AgentNode(a) \in Nodes /\ AgentNode(a) # End
  BY NodeFacts DEF PlainNodes
<1>3. PICK n \in Nat : Answered(a, n) /\ outcome' # "done" /\ (Running' => node' = AgentNode(a))
  <2>1. Limit(a, toolCalls) \in Nat
    BY <1>1, LimitFacts
  <2>2. Goto(AgentNode(a)) => outcome' # "done" /\ node' = AgentNode(a)
    BY <1>1, <1>2, GotoFacts
  <2> QED
    BY <1>1, <1>2, <2>1, <2>2, ToolsFnEffect DEF RunInv, Running, Errors
<1>4. /\ Extends(messages', messages, a)
      /\ Len(messages') \in Nat /\ Len(messages') >= l
      /\ \A p \in 1 .. l : messages'[p] = messages[p]
      /\ \A p \in l + 1 .. Len(messages') : messages'[p].kind = "tool" /\ messages'[p].by = a
  BY <1>1, <1>3 DEF Answered, Extends
<1>5. /\ \A p : LastSpeech(messages', p) => LastSpeech(messages, p)
      /\ \A p, q \in 1 .. Len(messages') :
           NextSpeech(messages', p, q) => p \in 1 .. l /\ q \in 1 .. l /\ NextSpeech(messages, p, q)
  BY <1>1, <1>4, SpeechExtended
<1>6. \A p \in 1 .. Len(messages') : p \in 1 .. l \/ p \in l + 1 .. Len(messages')
  BY <1>1, <1>4
<1>7. \A p \in 1 .. l : HandedOver(p) => messages[p].by \in Agents /\ Depth[messages[p].by] < Depth[a]
  BY <1>1 DEF EdgeInv, BeyondAll
<1>8. ASSUME NEW p \in 1 .. Len(messages'), IsAssistant(messages'[p]), messages'[p].calls = << >>
      PROVE  p \in 1 .. l /\ messages'[p] = messages[p] /\ HandedOver(p)
  <2>1. ~(p \in l + 1 .. Len(messages'))
    BY <1>4, <1>8 DEF IsAssistant
  <2>2. p \in 1 .. l
    BY <1>6, <2>1
  <2> QED
    BY <1>4, <1>8, <2>2 DEF HandedOver
<1> HIDE DEF l
<1>9. EdgesTaken'
  BY <1>4, <1>5 DEF EdgeInv, EdgesTaken, l
<1>10. NoneReturns'
  <2>1. SUFFICES ASSUME NEW p \in 1 .. Len(messages'), NEW q \in 1 .. Len(messages'),
                        p < q, IsAssistant(messages'[p]), messages'[p].calls = << >>
                 PROVE  messages'[q].by # messages'[p].by
    BY DEF NoneReturns, HandedOver
  <2>2. p \in 1 .. l /\ messages'[p] = messages[p] /\ HandedOver(p)
    BY <1>8, <2>1
  <2>3. CASE q \in 1 .. l
    BY <1>4, <2>1, <2>2, <2>3 DEF EdgeInv, NoneReturns, l
  <2>4. CASE q \in l + 1 .. Len(messages')
    <3>1. messages[p].by \in Agents /\ Depth[messages[p].by] < Depth[a]
      BY <1>7, <2>2
    <3>2. Depth[a] \in Nat
      BY HandoffAssumption
    <3>3. messages[p].by # a
      BY <3>1, <3>2
    <3> QED
      BY <1>4, <2>2, <2>4, <3>3
  <2> QED
    BY <1>6, <2>3, <2>4
<1>11. EndsAtLeaf'
  BY <1>3 DEF EndsAtLeaf
<1>12. SuccessorIsNext'
  <2>1. SUFFICES ASSUME NEW p \in 1 .. Len(messages'),
                        LastSpeech(messages', p), messages'[p].calls = << >>
                 PROVE  FALSE
    BY DEF SuccessorIsNext
  <2>2. p \in 1 .. l /\ messages'[p] = messages[p] /\ LastSpeech(messages, p)
    BY <1>5, <1>8, <2>1 DEF LastSpeech
  <2>3. p # l
    BY <1>1, <2>1, <2>2
  <2>4. l \in p + 1 .. l
    BY <1>1, <2>2, <2>3
  <2> QED
    BY <1>1, <2>2, <2>4 DEF LastSpeech, l
<1>13. BeyondAll'
  <2>1. SUFFICES ASSUME Running', NEW p \in 1 .. Len(messages'),
                        IsAssistant(messages'[p]), messages'[p].calls = << >>
                 PROVE  messages'[p].by \in Agents /\ Depth[messages'[p].by] < Depth[node'.agent]
    BY DEF BeyondAll, HandedOver
  <2>2. node'.agent = a
    BY <1>3, <2>1 DEF AgentNode
  <2> QED
    BY <1>7, <1>8, <2>1, <2>2
<1> QED
  BY <1>9, <1>10, <1>11, <1>12, <1>13 DEF EdgeInv

(***************************************************************************)
(* Whatever the routing model answers, control follows the edges of the    *)
(* graph, nobody who handed over speaks again, and a run that ends         *)
(* normally ends at an agent that has nobody to hand over to.              *)
(***************************************************************************)
THEOREM EdgesCorrect == HandoffSpec => []FollowsEdges
<1>1. RunInv /\ OrderInv /\ EdgeInv /\ [HandoffNext]_runVars => EdgeInv'
  <2> SUFFICES ASSUME RunInv, OrderInv, EdgeInv, [HandoffNext]_runVars PROVE EdgeInv'
    OBVIOUS
  <2>1. CASE UNCHANGED runVars
    BY <2>1, SilentEdges DEF runVars
  <2>2. CASE HandoffNext
    BY <2>2, SpeakEdges, CallToolsEdges DEF HandoffNext
  <2> QED
    BY <2>1, <2>2
<1> QED
  BY InitEdges, <1>1, EdgeInvImplies, HandoffInvariance, HandoffOrderInvariance, PTL DEF HandoffSpec

=============================================================================
