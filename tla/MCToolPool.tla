----------------------------- MODULE MCToolPool -----------------------------
(***************************************************************************)
(* Three calls in one turn, with every kind of parallelism: none and       *)
(* nonsense (the serial path), fewer workers than calls, as many, more.    *)
(***************************************************************************)
EXTENDS ToolPool

MCParallelisms == {-1, 1, 2, 3, 5}

=============================================================================
