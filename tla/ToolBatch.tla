----------------------------- MODULE ToolBatch ------------------------------
(***************************************************************************)
(* What execute_many promises its caller: one answer to the whole batch,   *)
(* either an exception and no message at all, or the results of all calls  *)
(* in the order the model asked for them.                                  *)
(***************************************************************************)
EXTENDS Integers, Sequences

CONSTANT Calls  \* number of calls in the batch

VARIABLE answer

None == << "none" >>
Exception == << "exception" >>
InCallOrder == << "messages", [i \in 1 .. Calls |-> i] >>

BatchInit == answer = None

BatchNext == answer = None /\ answer' \in {Exception, InCallOrder}

BatchSpec == BatchInit /\ [][BatchNext]_answer

=============================================================================
