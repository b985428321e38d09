----------------------------- MODULE Concurrent -----------------------------
(***************************************************************************)
(* The concurrent builder: a fan-out node runs one assistant turn of every *)
(* branch agent on a thread pool, a join node merges the branch answers    *)
(* into one assistant message, and an optional next agent continues with   *)
(* its own tool loop.  The agent at the root of the fan-out never runs.    *)
(*                                                                         *)
(* While the fan-out node runs, the steps of run_branches, of its worker   *)
(* threads and of as_completed interleave; they touch the engine state     *)
(* only when the node is over.                                             *)
(***************************************************************************)
EXTENDS AgentRun, FuturePool

CONSTANTS
  Branches,     \* the branch agents as the compiler lists them; an agent that
                \* two edges lead to is listed twice
  NextChoices,  \* what the common next agent may be: singletons, or {} for none
  Parallelism   \* [Agents -> Int]: tools.parallelism

ASSUME ConcurrentAssumption ==
  /\ Branches \in Seq(Agents)
  /\ Len(Branches) = N
  /\ NextChoices # {}
  /\ NextChoices \subseteq {{}} \cup {{a} : a \in Agents}
  /\ Parallelism \in [Agents -> Int]

VARIABLES
  next,      \* the common next agent of this graph, {} for none
  caller,    \* where run_branches is: "submitting", "collecting", "raising", "left"
  result,    \* what each branch's thread has come to
  order,     \* finished_order: the agents of the yielded futures
  keys,      \* the keys of the results dict, in insertion order
  kept,      \* the job whose result the dict holds for each agent, 0 for none
  completed  \* history: the jobs in the order they really completed

branchVars == << poolVars, next, caller, result, order, keys, kept, completed >>

vars == << runVars, branchVars >>

Fanout == SyntheticNode("fanout")
Join == SyntheticNode("join")

NoResult == [kind |-> "none", calls |-> << >>]

Failures == {"model", "structured", "tool"}

Init ==
  /\ StartAt(Fanout)
  /\ PoolInit
  /\ next \in NextChoices
  /\ caller = "submitting"
  /\ result = [i \in Jobs |-> NoResult]
  /\ order = << >>
  /\ keys = << >>
  /\ kept = [a \in Agents |-> 0]
  /\ completed = << >>

InFanout == Running /\ node = Fanout
-----------------------------------------------------------------------------
(***************************************************************************)
(* run_branches                                                            *)
(***************************************************************************)
\* Variant: the largest parallelism bounds the branches.
LooseParallelism ==
  LET bounds == {Parallelism[Branches[i]] : i \in Jobs}
      most == CHOOSE m \in bounds : \A b \in bounds : m >= b
  IN IF most < 1 THEN 1 ELSE most

\* The bound across branches: the smallest parallelism, at least one.
CrossParallelism ==
  LET bounds == {Parallelism[Branches[i]] : i \in Jobs}
      least == CHOOSE m \in bounds : \A b \in bounds : m <= b
  IN IF least < 1 THEN 1 ELSE least

SubmitBranch(i) ==
  /\ InFanout /\ caller = "submitting"
  /\ Submit(i)
  /\ UNCHANGED << runVars, next, caller, result, order, keys, kept, completed >>

CallAsCompleted ==
  /\ InFanout /\ caller = "submitting"
  /\ Await
  /\ caller' = "collecting"
  /\ UNCHANGED << runVars, next, result, order, keys, kept, completed >>

BranchStarts(i) ==
  /\ Take(i, CrossParallelism)
  /\ UNCHANGED << runVars, next, caller, result, order, keys, kept, completed >>

\* One assistant turn, then its tool calls by execute_many; the model is not
\* called again with the results.
Turns(a) ==
  (IF MayBlock(a) THEN {[kind |-> "refusal", calls |-> << >>]} ELSE {})
    \cup {[kind |-> "reply", calls |-> c] : c \in IF a \in Structured THEN {<< >>} ELSE Replies}

Answerable(a, calls) == \A k \in 1 .. Limit(a, calls) : calls[k] \in Attached[a]

BranchEnds(i) ==
  LET a == Branches[i]
  IN /\ fut[i] = "running"
     /\ \/ \E t \in Turns(a) :
             Answerable(a, t.calls) /\ result' = [result EXCEPT ![i] = t]
        \/ \E f \in (IF a \in Structured THEN Failures ELSE Failures \ {"structured"}) :
             result' = [result EXCEPT ![i] = [kind |-> f, calls |-> << >>]]
     /\ Complete(i, caller = "collecting")
     /\ completed' = Append(completed, i)
     /\ UNCHANGED << runVars, next, caller, order, keys, kept >>

Failed(i) == result[i].kind \in Failures

\* finished_order grows even when fut.result() raises.
CollectBranch(i) ==
  LET a == Branches[i]
  IN /\ InFanout /\ caller = "collecting"
     /\ YieldNext(i)
     /\ order' = Append(order, a)
     /\ IF Failed(i)
        THEN caller' = "raising" /\ UNCHANGED << keys, kept >>
        ELSE /\ kept' = [kept EXCEPT ![a] = i]
             /\ keys' = IF kept[a] = 0 THEN Append(keys, a) ELSE keys
             /\ UNCHANGED caller
     /\ UNCHANGED << runVars, next, result, completed >>
-----------------------------------------------------------------------------
(***************************************************************************)
(* fanout_fn, after run_branches: the tool messages of the branches are    *)
(* appended in the order of the results dict; the answers are only kept.   *)
(***************************************************************************)
ToolMessages(a) ==
  LET calls == result[kept[a]].calls
  IN Results(a, SubSeq(calls, 1, Limit(a, calls)))

\* Variant: one block per future instead of one per agent.
ToolMessagesPerFuture ==
  LET upTo[k \in 0 .. Len(order)] ==
        IF k = 0 THEN << >> ELSE upTo[k - 1] \o ToolMessages(order[k])
  IN upTo[Len(order)]

AllToolMessages ==
  LET upTo[k \in 0 .. Len(keys)] ==
        IF k = 0 THEN << >> ELSE upTo[k - 1] \o ToolMessages(keys[k])
  IN upTo[Len(keys)]

FanoutReturns ==
  /\ InFanout /\ caller = "collecting"
  /\ Len(yielded) = N /\ AllDone
  /\ messages' = messages \o AllToolMessages
  /\ caller' = "left"
  /\ Goto(Join)
  /\ UNCHANGED << toolCalls, steps, finish, poolVars, next, result, order, keys, kept, completed >>

\* Variant: the pool is left without waiting for the other branches.
FanoutRaisesAtOnce ==
  /\ InFanout /\ caller = "raising"
  /\ Raise(result[yielded[Len(yielded)]].kind)
  /\ UNCHANGED << messages, toolCalls, steps, finish, branchVars >>

\* The exception leaves the pool only when every other branch has ended too.
FanoutRaises ==
  /\ InFanout /\ caller = "raising"
  /\ AllDone
  /\ Raise(result[yielded[Len(yielded)]].kind)
  /\ UNCHANGED << messages, toolCalls, steps, finish, branchVars >>
-----------------------------------------------------------------------------
(***************************************************************************)
(* join_fn: first_finish when there is a next agent, else aggregate.  The  *)
(* merged text of aggregate is nobody's message and carries no calls.      *)
(***************************************************************************)
FirstFinish == AssistantMessage(result[kept[order[1]]].kind, order[1], result[kept[order[1]]].calls)

Aggregate == AssistantMessage("reply", User, << >>)

Merged == IF next # {} THEN FirstFinish ELSE Aggregate

\* Variant: the calls of the merged message are taken for pending ones.
JoinFnPending ==
  /\ Running /\ node = Join
  /\ messages' = Append(messages, Merged)
  /\ toolCalls' = Merged.calls
  /\ \E n \in (IF next # {} THEN {AgentNode(a) : a \in next} ELSE {End}) : Goto(n)
  /\ UNCHANGED << steps, finish, branchVars >>

JoinFn ==
  /\ Running /\ node = Join
  /\ messages' = Append(messages, Merged)
  /\ \E n \in (IF next # {} THEN {AgentNode(a) : a \in next} ELSE {End}) : Goto(n)
  /\ UNCHANGED << toolCalls, steps, finish, branchVars >>

\* The next agent's node has no structured output path.
NextAgentFn(a) ==
  /\ Running /\ node = AgentNode(a)
  /\ \/ BlockedTurn(a, {End})
     \/ ChatTurn(a, {End})
     \/ Raise("model") /\ UNCHANGED << messages, toolCalls, steps, finish >>
  /\ UNCHANGED branchVars

NextToolsFn(a) == ToolsFn(a, AgentNode(a)) /\ UNCHANGED branchVars
-----------------------------------------------------------------------------
BranchThread(i) == BranchStarts(i) \/ BranchEnds(i)

EngineStep ==
  \/ \E i \in Jobs : SubmitBranch(i) \/ CollectBranch(i)
  \/ CallAsCompleted
  \/ FanoutReturns
  \/ FanoutRaises
  \/ JoinFn
  \/ \E a \in next : NextAgentFn(a) \/ NextToolsFn(a)

Next == EngineStep \/ \E i \in Jobs : BranchThread(i)

Spec == Init /\ [][Next]_vars

\* The calling thread and every worker make progress: model and tool calls end.
FairSpec == Spec /\ WF_vars(EngineStep) /\ \A i \in Jobs : WF_vars(BranchThread(i))
-----------------------------------------------------------------------------
TypeOK ==
  /\ TypeOKRun
  /\ PoolTypeOK
  /\ caller \in {"submitting", "collecting", "raising", "left"}
  /\ result \in [Jobs -> [kind : {"none", "reply", "refusal"} \cup Failures, calls : Seq(Tools)]]
  /\ next \in NextChoices
  /\ order \in Seq(Agents)
  /\ keys \in Seq(Agents)
  /\ kept \in [Agents -> 0 .. N]
  /\ completed \in Seq(Jobs)

(***************************************************************************)
(* The fan-out is all or nothing, and over when it is over.  Once the run  *)
(* has left the fan-out node, by its edge or by an exception, no branch    *)
(* runs or waits any more; by its edge only if every branch succeeded, and *)
(* by an exception only with the transcript untouched.  With the types.    *)
(***************************************************************************)
FanoutIsAtomic ==
  /\ TypeOK
  /\ ~InFanout =>
       /\ AllDone
       /\ IF node = Fanout THEN messages = << Input >>
          ELSE \A i \in Jobs : ~Failed(i) /\ kept[Branches[i]] # 0

\* Every branch sees at most as many turns under way as its own parallelism allows.
BoundedBranches ==
  \A i \in Jobs :
    Cardinality(Busy) <= IF Parallelism[Branches[i]] > 1 THEN Parallelism[Branches[i]] ELSE 1

(***************************************************************************)
(* In whatever order the branches complete, the transcript after the       *)
(* fan-out holds one unbroken block of tool messages per agent, which      *)
(* answers the agent's calls from the first one on, in their order.        *)
(***************************************************************************)
FanoutBlock ==
  {p \in 2 .. Len(messages) : \A q \in 2 .. p : messages[q].kind = "tool"}

ToolBlocksStayTogether ==
  \A p, q \in FanoutBlock :
    LET a == messages[p].by
    IN p <= q /\ messages[q].by = a =>
         /\ \A r \in p .. q : messages[r].by = a
         /\ (\A r \in FanoutBlock : messages[r].by = a => r >= p)
              => LET asked == result[kept[a]].calls
                 IN q - p + 1 \in DOMAIN asked /\ messages[q].calls[1] = asked[q - p + 1]

(***************************************************************************)
(* What finished_order does tell: among the branches that completed after  *)
(* as_completed was called, and between those and the earlier ones, it is  *)
(* the order of completion.                                                *)
(***************************************************************************)
OrderFaithfulOnceAwaited ==
  \A k, l \in 1 .. Len(yielded) :
    k < l /\ yielded[l] \notin early =>
      \E m, n \in 1 .. Len(completed) :
        m < n /\ completed[m] = yielded[k] /\ completed[n] = yielded[l]

\* If model and tool calls end, the run ends.
Termination == <>(~Running)

=============================================================================
