---------------------------- MODULE MCGroupChat -----------------------------
(***************************************************************************)
(* Three participants; the second is defended and the third has one tool,  *)
(* the first may have one of its two calls answered per turn.  In          *)
(* moderator mode the model may also name "mod", the moderator itself.     *)
(***************************************************************************)
EXTENDS GroupChat

CONSTANTS p1, p2, p3, mod, t1, t2

MCParticipants == << p1, p2, p3 >>
MCTwoParticipants == << p1, p2 >>
MCAttached == [a \in Agents |-> IF a = p3 THEN {t1} ELSE {t1, t2}]
MCMaxCalls == [a \in Agents |-> IF a = p1 THEN 1 ELSE 0]
MCReplies == {<< >>, << t1, t2 >>}
MCOneCall == {<< >>, << t1 >>}

\* Every combination over these names, but nothing from a failed call and no
\* name or end without JSON.
MCModeratorReplies ==
  {r \in RoutingReply({p2, p3, mod}) :
    /\ r.failed => ~r.json /\ r.mentions = {}
    /\ ~r.json => r.named = {} /\ ~r.end}

=============================================================================
