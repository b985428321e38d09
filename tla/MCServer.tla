------------------------------ MODULE MCServer ------------------------------
(***************************************************************************)
(* Three requests on two threads: one for each endpoint, the stream's      *)
(* model stuck on one of the threads; two streams and an execution without *)
(* sse-starlette.  All are first requests, and race for everything.        *)
(***************************************************************************)
EXTENDS Server

CONSTANTS r1, r2, r3

MCSettings ==
  {[kind |-> [r \in Requests |-> CASE r = r1 -> "stream" [] r = r2 -> "execute"
                                   [] r = r3 -> "compile"],
    sse |-> TRUE, builtin |-> {}, stuck |-> {r1}],
   [kind |-> [r \in Requests |-> IF r = r3 THEN "execute" ELSE "stream"],
    sse |-> FALSE, builtin |-> Tools, stuck |-> {}]}

=============================================================================
