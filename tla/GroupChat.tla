------------------------------ MODULE GroupChat ------------------------------
(***************************************************************************)
(* The group chat builder: select_next picks the next speaker, by turns or *)
(* by asking the moderator's model, the speaker answers (with its own tool *)
(* loop), and select_next runs again, until the turn limit is reached or   *)
(* the moderator ends the chat.                                            *)
(***************************************************************************)
EXTENDS AgentRun, Routing, FiniteSets

CONSTANTS
  Participants,     \* the speakers, in the order of the configuration; the
                    \* moderator of moderator mode is not one of them
  Modes,            \* how speakers may be selected: "round_robin", "moderator"
  MaxTurns,         \* max_turns_eff, 6 unless a positive max_turns is given
  ModeratorReplies  \* what the moderator's model may answer

ASSUME GroupChatAssumption ==
  /\ Participants \in Seq(Agents)
  /\ Participants # << >>
  /\ \A i, j \in 1 .. Len(Participants) : Participants[i] = Participants[j] => i = j
  /\ Modes \subseteq {"round_robin", "moderator"}
  /\ MaxTurns \in Nat \ {0}

VARIABLES
  mode,     \* group["mode"]
  speaker,  \* group["speaker"]: a set with the last speaker chosen, or {}
  turn,     \* group["turn"]
  over      \* group["end"]

groupVars == << mode, speaker, turn, over >>

vars == << runVars, groupVars >>

Select == SyntheticNode("select")

Init ==
  /\ StartAt(Select)
  /\ mode \in Modes
  /\ speaker = {}
  /\ turn = 0
  /\ over = FALSE
-----------------------------------------------------------------------------
\* The edge out of select_next leads to END for a speaker that is no participant.
SpeakOrEnd(s) == IF s \in Ids(Participants) THEN AgentNode(s) ELSE End

EndChat ==
  /\ over' = TRUE
  /\ Goto(End)
  /\ UNCHANGED << speaker, turn >>

Give(s) ==
  /\ speaker' = {s}
  /\ Goto(SpeakOrEnd(s))
  /\ UNCHANGED << turn, over >>

\* Variants: the moderator's choice is not looked up; the last one is never next.
ModeratorGivesAny ==
  \E r \in ModeratorReplies : Give(IF r.named # {} THEN TheNamed(r) ELSE Head(Participants))

GiveInOrderButLast ==
  Give(PickRoundRobin(SubSeq(Participants, 1, Len(Participants) - 1), speaker))

GiveInOrder == Give(PickRoundRobin(Participants, speaker))

ModeratorDecides ==
  \E r \in ModeratorReplies :
    \/ ModeratorEnds(r) /\ EndChat
    \/ ~ModeratorEnds(r) /\ Give(ChooseNextSpeaker(Participants, r))

SelectNext ==
  /\ Running
  /\ node = Select
  /\ \/ turn >= MaxTurns /\ EndChat
     \/ turn < MaxTurns /\ mode = "round_robin" /\ GiveInOrder
     \/ turn < MaxTurns /\ mode = "moderator" /\ ModeratorDecides
  /\ UNCHANGED << messages, toolCalls, steps, finish, mode >>

\* A turn counts when the model answered without asking for a tool; a refusal
\* leaves agent_fn before the count.
CountTurn ==
  IF messages' # messages /\ messages'[Len(messages')].kind = "reply" /\ toolCalls' = << >>
  THEN turn + 1 ELSE turn

Speak(a) ==
  /\ AgentFn(a, {Select})
  /\ turn' = CountTurn
  /\ UNCHANGED << mode, speaker, over >>

\* Variant: the results of the calls before the failed one are kept.
GroupToolsPartial(a) == ToolsFn(a, AgentNode(a)) /\ UNCHANGED groupVars

\* execute_many answers the whole batch or raises.  Its own error for a call
\* that is not attached is one of the tool errors.
GroupTools(a) ==
  /\ Running
  /\ node = ToolsNode(a)
  /\ \/ ToolsAnswer(a, AgentNode(a))
     \/ Raise("tool") /\ UNCHANGED << messages, toolCalls, steps, finish >>
  /\ UNCHANGED groupVars

Next ==
  \/ SelectNext
  \/ \E a \in Ids(Participants) : Speak(a) \/ GroupTools(a)

Spec == Init /\ [][Next]_vars
-----------------------------------------------------------------------------
TypeOK ==
  /\ TypeOKRun
  /\ mode \in Modes
  /\ speaker \subseteq Ids(Participants)
  /\ turn \in 0 .. MaxTurns
  /\ over \in BOOLEAN

AnswersOf(a) ==
  {p \in 1 .. Len(messages) :
    messages[p].kind = "reply" /\ messages[p].by = a /\ messages[p].calls = << >>}

(***************************************************************************)
(* In moderator mode and in turns, a chat that ends normally was ended: by *)
(* the turn limit after that many answers, or by the moderator.  It never  *)
(* ends because the selection came up with nobody.  With the types, by     *)
(* which the count never exceeds the limit.                                *)
(***************************************************************************)
EndsWhenDue ==
  /\ TypeOK
  /\ outcome = "done" =>
       /\ over
       /\ \/ Cardinality(UNION {AnswersOf(a) : a \in Ids(Participants)}) = MaxTurns
          \/ mode = "moderator"

SpeechesOf(a) == AnswersOf(a) \cup
  {p \in 1 .. Len(messages) : messages[p].kind = "refusal" /\ messages[p].by = a}

(***************************************************************************)
(* Round robin is balanced: between tool loops and refusals no participant *)
(* is ever more than one speech ahead of another.                          *)
(***************************************************************************)
Balanced ==
  mode = "round_robin" =>
    \A a, b \in Ids(Participants) :
      Cardinality(SpeechesOf(a)) <= Cardinality(SpeechesOf(b)) + 1

(***************************************************************************)
(* A speaker keeps the floor until its answer asks for no more tools, and  *)
(* is given the results of all the calls it may make or none: a batch that *)
(* fails leaves no result in the transcript.                               *)
(***************************************************************************)
WholeBatches ==
  \A p \in 1 .. Len(messages) :
    messages[p].calls # << >> /\ IsAssistant(messages[p]) =>
      LET n == Limit(messages[p].by, messages[p].calls)
      IN \/ p = Len(messages)
         \/ /\ p + n <= Len(messages)
            /\ \A i \in 1 .. n : Answers(messages, p + i, p)
            /\ p + n < Len(messages) =>
                 IsAssistant(messages[p + n + 1]) /\ messages[p + n + 1].by = messages[p].by

(***************************************************************************)
(* docs/orchestrations.md: the chat goes on "until turn >= max_turns or    *)
(* moderator ends"; unless a model or tool call fails it would end no      *)
(* other way.                                                              *)
(***************************************************************************)
EndsAsDocumented == outcome \in {"done", "recursion"} => over

=============================================================================
