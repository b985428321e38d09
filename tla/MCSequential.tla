---------------------------- MODULE MCSequential ----------------------------
(***************************************************************************)
(* A chain of three agents.  The first is defended, may use both tools and *)
(* has at most two calls answered per turn; the second is defended and     *)
(* produces structured output; the third has one tool and no limit, so a   *)
(* reply may ask it for a tool it does not have.  RecursionLimit 9 leaves  *)
(* room for the whole chain with three tool rounds and cuts longer runs.   *)
(***************************************************************************)
EXTENDS Sequential

CONSTANTS a1, a2, a3, t1, t2

MCOrder == << a1, a2, a3 >>
MCAttached == [a \in Agents |-> IF a = a1 THEN {t1, t2} ELSE {t1}]
MCMaxCalls == [a \in Agents |-> IF a = a1 THEN 2 ELSE 0]
MCReplies == {<< >>, << t1 >>, << t2, t1, t1 >>}

=============================================================================
