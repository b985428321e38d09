---------------------------- MODULE MCConcurrent ----------------------------
(***************************************************************************)
(* Two branch agents, in one instance the first is listed twice (two edges *)
(* lead to it), with or without a next agent.  A reply asks for two tools; *)
(* the second branch has only the first of them, and answers one call.     *)
(***************************************************************************)
EXTENDS Concurrent

CONSTANTS b1, b2, c, t1, t2

MCBranchesTwice == << b1, b2, b1 >>
MCAttached == [a \in Agents |-> IF a = b2 THEN {t1} ELSE {t1, t2}]
MCMaxCalls == [a \in Agents |-> IF a = b2 THEN 1 ELSE 0]
MCReplies == {<< >>, << t1, t2 >>}
MCParallelism == [a \in Agents |-> IF a = b2 THEN 2 ELSE 3]

=============================================================================
