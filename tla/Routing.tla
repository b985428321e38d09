------------------------------- MODULE Routing -------------------------------
(***************************************************************************)
(* Who is next: the LLM router of handoff (engine/router.py) and the       *)
(* moderator and the round robin of group chat (engine/group_policy.py).   *)
(* What the model answers is reduced to what the parsers look for:         *)
(*   failed    the provider raised                                         *)
(*   json      the text is a JSON object                                   *)
(*   end       it has "end": true                                          *)
(*   named     the set of the id it names, known or not, {} if it does not *)
(*   mentions  the ids that occur in the text, ignoring case               *)
(***************************************************************************)
EXTENDS Integers, Sequences

RoutingReply(Ids) ==
  [failed : BOOLEAN, json : BOOLEAN, end : BOOLEAN,
   named : {{}} \cup {{i} : i \in Ids}, mentions : SUBSET Ids]

Ids(list) == {list[k] : k \in 1 .. Len(list)}

\* The first element of the list that is in S.
FirstIn(list, S) ==
  list[CHOOSE k \in 1 .. Len(list) :
         list[k] \in S /\ \A l \in 1 .. k - 1 : list[l] \notin S]

TheNamed(reply) == CHOOSE i \in reply.named : TRUE

Names(reply, list) == reply.json /\ reply.named # {} /\ TheNamed(reply) \in Ids(list)

\* choose_next_agent: the named candidate, else the first candidate the text
\* mentions, else the first candidate.
ChooseNextAgent(candidates, reply) ==
  CASE reply.failed -> Head(candidates)
    [] ~reply.failed /\ Names(reply, candidates) -> TheNamed(reply)
    [] ~reply.failed /\ ~Names(reply, candidates) ->
         IF reply.mentions \cap Ids(candidates) # {}
         THEN FirstIn(candidates, reply.mentions) ELSE Head(candidates)

ModeratorEnds(reply) == ~reply.failed /\ reply.json /\ reply.end

\* choose_next_speaker when the moderator does not end the chat.  Unlike the
\* router, an unknown name means the first participant, whatever is mentioned.
ChooseNextSpeaker(participants, reply) ==
  CASE reply.failed -> Head(participants)
    [] ~reply.failed /\ reply.json /\ reply.named # {} ->
         IF Names(reply, participants) THEN TheNamed(reply) ELSE Head(participants)
    [] ~reply.failed /\ ~(reply.json /\ reply.named # {}) ->
         IF reply.mentions \cap Ids(participants) # {}
         THEN FirstIn(participants, reply.mentions) ELSE Head(participants)

\* pick_round_robin: current is a set with the last speaker, {} before the first.
PickRoundRobin(participants, current) ==
  IF current \cap Ids(participants) = {} THEN Head(participants)
  ELSE LET k == CHOOSE k \in 1 .. Len(participants) : participants[k] \in current
       IN participants[(k % Len(participants)) + 1]

=============================================================================
