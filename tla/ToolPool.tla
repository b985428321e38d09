------------------------------ MODULE ToolPool ------------------------------
(***************************************************************************)
(* execute_many: the tool calls of one assistant turn, executed one by one *)
(* on the calling thread (one call, or max_workers <= 1) or on a pool of   *)
(* threads, each call with the optional timeout of run_with_timeout.       *)
(*                                                                         *)
(* run_with_timeout runs the tool on a thread of its own and waits for it  *)
(* with a timeout.  When the timeout passes, cancel() does not stop a tool *)
(* that runs, and ToolTimeoutError leaves the with block only after the    *)
(* tool's thread has ended: a call stays "expired" until then.             *)
(***************************************************************************)
EXTENDS FuturePool

CONSTANTS
  Parallelisms,  \* values of max_workers: tools.parallelism as configured
  HasTimeout     \* whether a positive timeout_s is given

ASSUME ToolPoolAssumption ==
  /\ Parallelisms \subseteq Int
  /\ HasTimeout \in BOOLEAN

VARIABLES
  maxWorkers,  \* max_workers of this call
  tool,        \* state of each call's tool
  caller,      \* where execute_many is
  out          \* the messages it returns, by the index of the call they answer

vars == << poolVars, maxWorkers, tool, caller, out >>

Serial == N = 1 \/ maxWorkers <= 1

PoolSize == IF maxWorkers < N THEN maxWorkers ELSE N

Init ==
  /\ PoolInit
  /\ maxWorkers \in Parallelisms
  /\ tool = [i \in Jobs |-> "idle"]
  /\ caller = IF Serial THEN "serial" ELSE "submitting"
  /\ out = << >>

Over == caller \in {"returned", "raised"}

InFlight == {i \in Jobs : tool[i] \in {"invoked", "expired"}}

Settled(i) == tool[i] \in {"answered", "failed"}
-----------------------------------------------------------------------------
(***************************************************************************)
(* execute_tool_call, run_with_timeout                                     *)
(***************************************************************************)
\* A call is rejected before its tool is invoked when the tool is not attached
\* to the agent or the arguments are no JSON object or fail the tool's schema.
Invoke(i) ==
  \E r \in {"invoked", "failed"} : tool' = [tool EXCEPT ![i] = r]

ToolEnds(i) ==
  /\ \/ /\ tool[i] = "invoked"
        /\ \E r \in {"answered", "failed"} : tool' = [tool EXCEPT ![i] = r]
     \/ /\ tool[i] = "expired"  \* the late result is thrown away
        /\ tool' = [tool EXCEPT ![i] = "failed"]
  /\ UNCHANGED << poolVars, maxWorkers, caller, out >>

TimerFires(i) ==
  /\ HasTimeout
  /\ tool[i] = "invoked"
  /\ tool' = [tool EXCEPT ![i] = "expired"]
  /\ UNCHANGED << poolVars, maxWorkers, caller, out >>

-----------------------------------------------------------------------------
(***************************************************************************)
(* The serial path: the loop of the calling thread.                        *)
(***************************************************************************)
\* Variant: the loop goes on after a failed call.
SerialNextSkips(i) ==
  /\ caller = "serial"
  /\ tool[i] = "idle"
  /\ \A j \in 1 .. i - 1 : Settled(j)
  /\ Invoke(i)
  /\ UNCHANGED << poolVars, maxWorkers, caller, out >>

SerialNext(i) ==
  /\ caller = "serial"
  /\ tool[i] = "idle"
  /\ \A j \in 1 .. i - 1 : tool[j] = "answered"
  /\ Invoke(i)
  /\ UNCHANGED << poolVars, maxWorkers, caller, out >>

SerialEnd ==
  /\ caller = "serial"
  /\ \/ /\ \A i \in Jobs : tool[i] = "answered"
        /\ caller' = "returned"
        /\ out' = [i \in Jobs |-> i]
     \/ /\ \E i \in Jobs : tool[i] = "failed"
        /\ caller' = "raised"
        /\ UNCHANGED out
  /\ UNCHANGED << poolVars, maxWorkers, tool >>
-----------------------------------------------------------------------------
(***************************************************************************)
(* The pool path                                                           *)
(***************************************************************************)
SubmitCall(i) ==
  /\ caller = "submitting"
  /\ Submit(i)
  /\ UNCHANGED << maxWorkers, tool, caller, out >>

CallAsCompleted ==
  /\ caller = "submitting"
  /\ Await
  /\ caller' = "collecting"
  /\ UNCHANGED << maxWorkers, tool, out >>

WorkerStarts(i) ==
  /\ Take(i, PoolSize)
  /\ Invoke(i)
  /\ UNCHANGED << maxWorkers, caller, out >>

WorkerEnds(i) ==
  /\ Settled(i)
  /\ Complete(i, caller = "collecting")
  /\ UNCHANGED << maxWorkers, tool, caller, out >>

\* Variant: an exception of a call is passed over.
CollectResultSkips(i) ==
  /\ caller = "collecting"
  /\ YieldNext(i)
  /\ UNCHANGED << maxWorkers, tool, caller, out >>

\* fut.result() returns the message, or raises inside the with block.
CollectResult(i) ==
  /\ caller = "collecting"
  /\ YieldNext(i)
  /\ caller' = IF tool[i] = "failed" THEN "raising" ELSE caller
  /\ UNCHANGED << maxWorkers, tool, out >>

\* Variant: the results are not sorted by index.
AsCollected(s) == s

InOrder(s) ==
  [k \in 1 .. Len(s) |->
     CHOOSE i \in Jobs :
       /\ \E p \in 1 .. Len(s) : s[p] = i
       /\ Cardinality({p \in 1 .. Len(s) : s[p] <= i}) = k]

\* Variant: the with block is left without joining the workers.
LeaveAtOnce ==
  /\ \/ /\ caller = "collecting" /\ Len(yielded) = N
        /\ caller' = "returned"
        /\ out' = InOrder(yielded)
     \/ /\ caller = "raising"
        /\ caller' = "raised"
        /\ UNCHANGED out
  /\ UNCHANGED << poolVars, maxWorkers, tool >>

\* Leaving the with block joins every worker, and the workers drain the queue.
LeavePool ==
  /\ AllDone
  /\ \/ /\ caller = "collecting" /\ Len(yielded) = N
        /\ caller' = "returned"
        /\ out' = InOrder(yielded)
     \/ /\ caller = "raising"
        /\ caller' = "raised"
        /\ UNCHANGED out
  /\ UNCHANGED << poolVars, maxWorkers, tool >>
-----------------------------------------------------------------------------
Thread(i) == TimerFires(i) \/ WorkerStarts(i) \/ WorkerEnds(i)

CallerStep ==
  \/ \E i \in Jobs : SerialNext(i) \/ SubmitCall(i) \/ CollectResult(i)
  \/ SerialEnd
  \/ CallAsCompleted
  \/ LeavePool

Next == CallerStep \/ \E i \in Jobs : Thread(i) \/ ToolEnds(i)

Spec == Init /\ [][Next]_vars

\* The threads of the engine make progress; a tool may run for ever.
EngineFairness ==
  /\ WF_vars(CallerStep)
  /\ \A i \in Jobs : WF_vars(Thread(i))

EngineFairSpec == Spec /\ EngineFairness

\* Every tool ends sooner or later.
FairSpec == EngineFairSpec /\ \A i \in Jobs : WF_vars(ToolEnds(i))
-----------------------------------------------------------------------------
TypeOK ==
  /\ PoolTypeOK
  /\ maxWorkers \in Parallelisms
  /\ tool \in [Jobs -> {"idle", "invoked", "expired", "answered", "failed"}]
  /\ caller \in {"serial", "submitting", "collecting", "raising", "returned", "raised"}
  /\ out \in Seq(Jobs)

(***************************************************************************)
(* No more tools run at once than the configured parallelism, and one on   *)
(* the serial path, the expired ones included.  With the types.            *)
(***************************************************************************)
BoundedParallelism ==
  /\ TypeOK
  /\ Cardinality(InFlight) <= IF maxWorkers > 1 THEN maxWorkers ELSE 1

(***************************************************************************)
(* When execute_many is over, by a result or by an exception, no tool it   *)
(* started still runs, and none will start: a failed turn leaves no thread *)
(* behind that could act during a later one.                               *)
(***************************************************************************)
NothingOutlivesTheCall ==
  Over => InFlight = {} /\ \A i \in Jobs : fut[i] \in {"unsubmitted", "done"}

(***************************************************************************)
(* How much of a failed batch has been done: on the serial path exactly    *)
(* the calls before the one that failed, on the pool path all the others,  *)
(* although none of their results reaches the transcript.                  *)
(***************************************************************************)
FailedBatchEffects ==
  caller = "raised" =>
    \E i \in Jobs :
      /\ tool[i] = "failed"
      /\ IF Serial
         THEN /\ \A j \in 1 .. i - 1 : tool[j] = "answered"
              /\ \A j \in i + 1 .. N : tool[j] = "idle"
         ELSE \A j \in Jobs : Settled(j)

(***************************************************************************)
(* Once the time of a call is up, execute_many never returns messages,     *)
(* whatever the tool still returns, on whichever path, however many other  *)
(* calls answer before its exception is collected, and wherever it stands  *)
(* among those that were done before as_completed was called.              *)
(***************************************************************************)
LateCallDoomsBatch ==
  \A i \in Jobs : [](tool[i] = "expired" => [](caller # "returned"))

(***************************************************************************)
(* execute_many implements its contract: all the results in call order, or *)
(* an exception and nothing.                                               *)
(***************************************************************************)
Answer ==
  CASE caller = "returned" -> << "messages", out >>
    [] caller = "raised" -> << "exception" >>
    [] OTHER -> << "none" >>

Batch == INSTANCE ToolBatch WITH Calls <- N, answer <- Answer

ImplementsBatch == Batch!BatchInit /\ [][Batch!BatchNext]_Answer

\* If every tool ends, execute_many ends: nobody waits on anybody for ever.
Termination == <>Over

(***************************************************************************)
(* docs/tools.md: "Use execute_tool_call to enforce per-call timeouts" and *)
(* "If execution exceeds timeout_s, ToolTimeoutError is raised": a call    *)
(* whose time is up would give its caller an answer whatever the tool does.*)
(***************************************************************************)
TimeoutReleasesCaller == \A i \in Jobs : tool[i] = "expired" ~> tool[i] = "failed"

=============================================================================
