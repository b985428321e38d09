----------------------------- MODULE MCHandoff ------------------------------
(***************************************************************************)
(* A triage agent with two specialists, one of which passes on to a closer *)
(* (the only successor, no routing) while the other is a sink itself.      *)
(***************************************************************************)
EXTENDS Handoff

CONSTANTS triage, left, right, closer, t1, t2

MCAdjacency ==
  [a \in Agents |-> IF a = triage THEN << left, right >>
                    ELSE IF a = left THEN << closer >> ELSE << >>]
MCDepth == [a \in Agents |-> IF a = triage THEN 0 ELSE IF a = closer THEN 2 ELSE 1]
MCAttached == [a \in Agents |-> IF a \in {triage, left} THEN {t1, t2} ELSE {t1}]
MCMaxCalls == [a \in Agents |-> IF a = triage THEN 1 ELSE 0]
MCReplies == {<< >>, << t1, t2 >>}

\* Every combination, but no name without JSON and nothing from a failed call.
MCRouterReplies ==
  {r \in RoutingReply(Agents) :
    /\ r.failed => ~r.json /\ r.mentions = {}
    /\ ~r.json => r.named = {} /\ ~r.end}

=============================================================================
