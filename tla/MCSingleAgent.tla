--------------------------- MODULE MCSingleAgent ----------------------------
(***************************************************************************)
(* One agent, defended or with structured output, with one of two tools    *)
(* and at most two calls answered per turn; the limit leaves room for      *)
(* three rounds of tools.                                                  *)
(***************************************************************************)
EXTENDS SingleAgent

CONSTANTS a, s, t1, t2

MCAttached == [x \in Agents |-> {t1}]
MCMaxCalls == [x \in Agents |-> 2]
MCReplies == {<< >>, << t1 >>, << t1, t1, t2 >>, << t1, t2 >>}

=============================================================================
