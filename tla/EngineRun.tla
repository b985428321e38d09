----------------------------- MODULE EngineRun ------------------------------
(***************************************************************************)
(* What the engine promises of one run, whatever the orchestration: the    *)
(* contract between the nodes that a graph builder wires.  The transcript  *)
(* only grows.  A turn appends exactly one assistant message and charges   *)
(* at least one LLM turn to steps.  While calls are pending nothing but    *)
(* their results may be appended, in order, and the calls are then         *)
(* cleared.  A run ends normally only when no call is pending, and a run   *)
(* that ended stays as it is.                                              *)
(***************************************************************************)
EXTENDS Transcript

VARIABLES
  messages,  \* the transcript
  pending,   \* calls of the last assistant message still to be answered
  steps,     \* LLM turns charged so far
  status     \* "running", "done" or "failed"

engineVars == << messages, pending, steps, status >>

EngineInit ==
  /\ messages = << Input >>
  /\ pending = << >>
  /\ steps = 0
  /\ status = "running"

\* One assistant turn of some agent; the calls it asks for become pending.
Turn ==
  /\ pending = << >>
  /\ pending' \in Seq(Tools)
  /\ \E a \in Agents, k \in {"reply", "refusal"} :
       /\ messages' = Append(messages, AssistantMessage(k, a, pending'))
       /\ k = "refusal" => pending' = << >>
  /\ steps' \in Nat
  /\ steps' > steps
  /\ status' \in {"running", "failed"} \cup (IF pending' = << >> THEN {"done"} ELSE {})

\* The agent whose message is last has its first n calls answered.
Answer ==
  /\ pending # << >>
  /\ \E n \in 1 .. Len(pending) :
       messages' = messages \o Results(messages[Len(messages)].by, SubSeq(pending, 1, n))
  /\ pending' = << >>
  /\ UNCHANGED steps
  /\ status' \in {"running", "failed"}

\* The run ends normally between two turns.
Stop ==
  /\ pending = << >>
  /\ status' = "done"
  /\ UNCHANGED << messages, pending, steps >>

\* The run fails before a turn, or between two calls of a batch.
Fail ==
  /\ status' = "failed"
  /\ \E n \in 0 .. Len(pending) :
       messages' = messages \o Results(messages[Len(messages)].by, SubSeq(pending, 1, n))
  /\ UNCHANGED << pending, steps >>

EngineNext ==
  /\ status = "running"
  /\ Turn \/ Answer \/ Stop \/ Fail

EngineSpec == EngineInit /\ [][EngineNext]_engineVars

=============================================================================
