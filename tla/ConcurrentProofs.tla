--------------------------- MODULE ConcurrentProofs ---------------------------
(***************************************************************************)
(* The concurrent builder, proved for any number of branches, listed twice *)
(* or not, any parallelism, and any interleaving of run_branches with its  *)
(* worker threads and with as_completed.                                   *)
(***************************************************************************)
EXTENDS Concurrent, AgentRunProofs, FuturePoolProofs

\* Where run_branches is, in the pool and in the graph.
PhaseInv ==
  /\ caller = "submitting" => NotAwaited
  /\ caller # "submitting" => AllSubmitted
  /\ caller = "left" <=> node # Fanout
  /\ node = Fanout => messages = << Input >> /\ toolCalls = << >>
  /\ caller = "left" => Len(yielded) = N
  /\ InFanout \/ AllDone

\* What was collected: the first failure ends the collecting, and until then
\* the dict holds an answer for the agent of every future handed out.
CollectedInv ==
  /\ \A i \in Done : result[i].kind # "none"
  /\ \A a \in Agents : kept[a] # 0 =>
       /\ kept[a] \in Elements(yielded)
       /\ Branches[kept[a]] = a
       /\ ~Failed(kept[a])
  /\ caller \in {"collecting", "left"} =>
       \A k \in 1 .. Len(yielded) : ~Failed(yielded[k]) /\ kept[Branches[yielded[k]]] # 0
  /\ caller = "raising" => Len(yielded) > 0 /\ Failed(yielded[Len(yielded)])

\* The two sequences of agents that run_branches returns.
NamesInv ==
  /\ Distinct(keys)
  /\ Elements(keys) = {a \in Agents : kept[a] # 0}
  /\ Len(order) = Len(yielded)
  /\ \A k \in 1 .. Len(order) : order[k] = Branches[yielded[k]]

\* The futures notified are those that completed from the e-th on, as long as
\* the caller collects; the early ones are among the first e.
NotifiedFrom(e) ==
  /\ e + Len(notified) <= Len(completed)
  /\ caller = "collecting" => e + Len(notified) = Len(completed)
  /\ \A k \in 1 .. Len(notified) : completed[e + k] = notified[k]
  /\ \A i \in early : \E m \in 1 .. e : completed[m] = i

CompletionInv ==
  /\ Done \subseteq Elements(completed)
  /\ \E e \in 0 .. Len(completed) : NotifiedFrom(e)

BoundInv == Cardinality(Busy) <= CrossParallelism

ConcurrentInv ==
  /\ TypeOK
  /\ PendingMatchesNode
  /\ PoolInv
  /\ PhaseInv
  /\ CollectedInv
  /\ NamesInv
  /\ CompletionInv
  /\ BoundInv
-----------------------------------------------------------------------------
(***************************************************************************)
(* Constants, nodes and types                                              *)
(***************************************************************************)
\* The nodes without an agent are told apart by what they do.
LEMMA FanoutNodes ==
  /\ Fanout \in PlainNodes /\ Join \in PlainNodes
  /\ Fanout # End /\ Join # End /\ Fanout # Join
  /\ \A a \in Agents : /\ AgentNode(a) # Fanout /\ AgentNode(a) # Join
                       /\ ToolsNode(a) # Fanout /\ ToolsNode(a) # Join
<1>1. Fanout.fn = "fanout" /\ Join.fn = "join" /\ End.fn = "end"
  BY DEF Fanout, Join, End, SyntheticNode
<1>2. Fanout \in Nodes /\ Join \in Nodes
  BY DEF Fanout, Join, Nodes
<1>3. \A a \in Agents : AgentNode(a).fn = "agent" /\ ToolsNode(a).fn = "tools"
  BY DEF AgentNode, ToolsNode
<1> QED
  BY <1>1, <1>2, <1>3 DEF PlainNodes

LEMMA BranchFacts ==
  /\ N \in Nat /\ N >= 1 /\ 1 \in Jobs
  /\ \A i \in Jobs : i \in Nat /\ i # 0 /\ Branches[i] \in Agents /\ Parallelism[Branches[i]] \in Int
<1>1. N \in Nat /\ N >= 1
  BY FuturePoolAssumption
<1>2. \A i \in Jobs : i \in 1 .. Len(Branches) /\ i \in Nat /\ i # 0
  BY <1>1, ConcurrentAssumption DEF Jobs
<1>3. \A i \in Jobs : Branches[i] \in Agents
  BY <1>2, ConcurrentAssumption
<1> QED
  BY <1>1, <1>2, <1>3, ConcurrentAssumption DEF Jobs

\* Of finitely many branches one has the smallest parallelism.
LEMMA SmallestParallelism == \E i \in Jobs : \A j \in Jobs : Parallelism[Branches[i]] <= Parallelism[Branches[j]]
<1> DEFINE P(i) == Parallelism[Branches[i]]
           Has(n) == \E i \in 1 .. n : \A j \in 1 .. n : P(i) <= P(j)
           T == {n \in 1 .. N : ~Has(n)}
<1>1. N \in 1 .. N /\ Jobs = 1 .. N
  BY BranchFacts DEF Jobs
<1>2. SUFFICES ASSUME T # {} PROVE FALSE
  <2>1. T = {} => Has(N)
    BY <1>1
  <2> QED
    BY <1>1, <2>1
<1>3. T \in SUBSET Nat
  BY BranchFacts
<1>4. PICK n \in T : \A l \in T : n <= l
  BY <1>2, <1>3, LeastElement
<1>5. n \in 1 .. N /\ ~Has(n) /\ \A l \in 1 .. N : l < n => Has(l)
  BY <1>4, BranchFacts
<1>6. \A i \in 1 .. N : P(i) \in Int
  BY BranchFacts DEF Jobs
<1> HIDE DEF P, T
<1>7. n # 1
  BY <1>5, <1>6
<1>8. n - 1 \in 1 .. N /\ n - 1 < n /\ n \in Nat
  BY <1>5, <1>7, BranchFacts
<1>9. PICK i \in 1 .. n - 1 : \A j \in 1 .. n - 1 : P(i) <= P(j)
  BY <1>5, <1>8
<1>10. /\ i \in 1 .. n /\ n \in 1 .. n /\ i \in 1 .. N
       /\ \A j \in 1 .. n : j = n \/ j \in 1 .. n - 1
       /\ \A j \in 1 .. n : j \in 1 .. N
  BY <1>5, <1>8, <1>9, BranchFacts
<1>11. CASE P(i) <= P(n)
  BY <1>5, <1>9, <1>10, <1>11
<1>12. CASE ~(P(i) <= P(n))
  <2>1. \A j \in 1 .. n : P(n) <= P(j)
    BY <1>5, <1>6, <1>9, <1>10, <1>12
  <2> QED
    BY <1>5, <1>10, <2>1
<1> QED
  BY <1>11, <1>12

\* The bound across branches respects every branch's own.
LEMMA CrossFacts ==
  /\ CrossParallelism \in Int /\ CrossParallelism >= 1
  /\ \A i \in Jobs :
       CrossParallelism <= IF Parallelism[Branches[i]] > 1 THEN Parallelism[Branches[i]] ELSE 1
<1> DEFINE bounds == {Parallelism[Branches[i]] : i \in Jobs}
           least == CHOOSE m \in bounds : \A b \in bounds : m <= b
<1>1. \E m \in bounds : \A b \in bounds : m <= b
  BY SmallestParallelism
<1>2. least \in bounds /\ \A b \in bounds : least <= b
  BY <1>1
<1>3. CrossParallelism = IF least < 1 THEN 1 ELSE least
  BY DEF CrossParallelism
<1>4. \A b \in bounds : b \in Int
  BY BranchFacts
<1>5. \A i \in Jobs : Parallelism[Branches[i]] \in bounds
  OBVIOUS
<1> HIDE DEF bounds, least
<1>6. CrossParallelism \in Int /\ CrossParallelism >= 1
  BY <1>2, <1>3, <1>4
<1>7. ASSUME NEW i \in Jobs
      PROVE  CrossParallelism <= IF Parallelism[Branches[i]] > 1 THEN Parallelism[Branches[i]] ELSE 1
  <2>1. least <= Parallelism[Branches[i]] /\ least \in Int /\ Parallelism[Branches[i]] \in Int
    BY <1>2, <1>4, <1>5
  <2> QED
    BY <1>3, <2>1
<1> QED
  BY <1>6, <1>7

\* The number of busy workers.
LEMMA BusyFacts == IsFiniteSet(Busy) /\ Cardinality(Busy) \in Nat
<1>1. Busy \in SUBSET Jobs
  BY DEF Busy
<1> QED
  BY <1>1, JobsFinite, FS_Subset, FS_CardinalityType

\* The futures handed out are done.
LEMMA HandedAreDone ==
  ASSUME PoolInv
  PROVE  Elements(yielded) \subseteq Done
<1>1. yielded \in Seq(Jobs) /\ Len(yielded) \in Nat /\ notified \in Seq(Jobs) /\ Len(notified) \in Nat
  BY DEF PoolInv, PoolTypeOK
<1>2. SUFFICES ASSUME NEW k \in 1 .. Len(yielded) PROVE yielded[k] \in Done
  BY DEF Elements
<1>3. Cardinality(early) \in Nat
  BY EarlyFirst
<1>4. CASE k <= Cardinality(early)
  BY <1>2, <1>4 DEF PoolInv, HandedInTurn
<1>5. CASE ~(k <= Cardinality(early))
  <2>1. /\ k - Cardinality(early) <= Len(notified)
        /\ yielded[k] = notified[k - Cardinality(early)]
    BY <1>2, <1>5 DEF PoolInv, HandedInTurn
  <2>2. k - Cardinality(early) \in 1 .. Len(notified)
    BY <1>1, <1>2, <1>3, <1>5, <2>1
  <2>3. yielded[k] \in Elements(notified)
    BY <2>1, <2>2 DEF Elements
  <2> QED
    BY <2>3 DEF PoolInv
<1> QED
  BY <1>4, <1>5

-----------------------------------------------------------------------------
(***************************************************************************)
(* run_branches, its threads and as_completed                              *)
(***************************************************************************)
LEMMA ConcurrentInit == Init => ConcurrentInv
<1> SUFFICES ASSUME Init PROVE ConcurrentInv
  OBVIOUS
<1>1. /\ messages = << Input >> /\ toolCalls = << >> /\ node = Fanout /\ outcome = "running"
      /\ caller = "submitting" /\ result = [i \in Jobs |-> NoResult]
      /\ order = << >> /\ keys = << >> /\ kept = [a \in Agents |-> 0] /\ completed = << >>
      /\ next \in NextChoices
      /\ fut = [i \in Jobs |-> "unsubmitted"]
  BY DEF Init, StartAt, PoolInit
<1>2. PoolInv /\ NotAwaited
  BY PoolInitInv DEF Init
<1>3. TypeOKRun /\ PendingMatchesNode
  BY FanoutNodes, StartInv DEF Init, RunInv
<1>4. Done = {} /\ Busy = {}
  BY <1>1 DEF Done, Busy
<1>5. TypeOK
  <2>1. NoResult \in [kind : {"none", "reply", "refusal"} \cup Failures, calls : Seq(Tools)]
    BY DEF NoResult
  <2>2. kept \in [Agents -> 0 .. N]
    BY <1>1, BranchFacts
  <2> QED
    BY <1>1, <1>2, <1>3, <2>1, <2>2 DEF TypeOK, PoolInv
<1>6. PhaseInv
  BY <1>1, <1>2 DEF PhaseInv, InFanout, Running
<1>7. yielded = << >> /\ notified = << >> /\ early = {}
  BY <1>2 DEF NotAwaited
<1>8. CollectedInv
  BY <1>1, <1>4, <1>7 DEF CollectedInv
<1>9. NamesInv
  BY <1>1, <1>7 DEF NamesInv, Distinct, Elements
<1>10. CompletionInv
  <2>1. NotifiedFrom(0)
    BY <1>1, <1>7 DEF NotifiedFrom
  <2> QED
    BY <1>1, <1>4, <2>1 DEF CompletionInv
<1>11. BoundInv
  BY <1>4, CrossFacts, FS_EmptySet DEF BoundInv
<1> QED
  BY <1>2, <1>3, <1>5, <1>6, <1>8, <1>9, <1>10, <1>11 DEF ConcurrentInv

\* A step of the fan-out leaves the engine alone.
LEMMA EngineAlone ==
  ASSUME ConcurrentInv, UNCHANGED runVars
  PROVE  TypeOKRun' /\ PendingMatchesNode'
BY DEF ConcurrentInv, TypeOK, TypeOKRun, PendingMatchesNode, Running, runVars

\* Parts of the invariant that a step does not disturb.
LEMMA CollectedAlone ==
  ASSUME CollectedInv, UNCHANGED << caller, result, kept, yielded >>, Done' = Done
  PROVE  CollectedInv'
BY DEF CollectedInv, Failed, Elements

LEMMA NamesAlone ==
  ASSUME NamesInv, UNCHANGED << keys, kept, order, yielded >>
  PROVE  NamesInv'
BY DEF NamesInv

LEMMA CompletionAlone ==
  ASSUME CompletionInv, UNCHANGED << early, notified, completed >>, Done' = Done,
         caller' = "collecting" => caller = "collecting"
  PROVE  CompletionInv'
<1>1. PICK e \in 0 .. Len(completed) : NotifiedFrom(e)
  BY DEF CompletionInv
<1>2. NotifiedFrom(e)'
  BY <1>1 DEF NotifiedFrom
<1> QED
  BY <1>1, <1>2 DEF CompletionInv

LEMMA SubmitBranchKeeps ==
  ASSUME ConcurrentInv, NEW i \in Jobs, SubmitBranch(i)
  PROVE  ConcurrentInv'
<1>1. /\ InFanout /\ caller = "submitting" /\ Submit(i)
      /\ UNCHANGED << runVars, next, caller, result, order, keys, kept, completed >>
  BY DEF SubmitBranch
<1>2. /\ PoolInv' /\ Done' = Done /\ Busy' = Busy
      /\ UNCHANGED << early, notified, yielded >>
  BY <1>1, SubmitInv DEF ConcurrentInv
<1>3. TypeOKRun' /\ PendingMatchesNode'
  BY <1>1, EngineAlone
<1>4. TypeOK'
  BY <1>1, <1>2, <1>3 DEF ConcurrentInv, TypeOK, PoolInv
<1>5. PhaseInv'
  BY <1>1, <1>2 DEF ConcurrentInv, PhaseInv, NotAwaited, InFanout, Running, runVars
<1>6. CollectedInv' /\ NamesInv' /\ CompletionInv'
  BY <1>1, <1>2, CollectedAlone, NamesAlone, CompletionAlone DEF ConcurrentInv
<1>7. BoundInv'
  BY <1>2 DEF ConcurrentInv, BoundInv, CrossParallelism
<1> QED
  BY <1>2, <1>3, <1>4, <1>5, <1>6, <1>7 DEF ConcurrentInv

LEMMA CallAsCompletedKeeps ==
  ASSUME ConcurrentInv, CallAsCompleted
  PROVE  ConcurrentInv'
<1>1. /\ InFanout /\ caller = "submitting" /\ Await /\ caller' = "collecting"
      /\ UNCHANGED << runVars, next, result, order, keys, kept, completed >>
  BY DEF CallAsCompleted
<1>2. NotAwaited
  BY <1>1 DEF ConcurrentInv, PhaseInv
<1>3. /\ PoolInv' /\ Done' = Done /\ Busy' = Busy
      /\ early' = Done /\ UNCHANGED << fut, notified, yielded >> /\ AllSubmitted
  BY <1>1, <1>2, AwaitInv DEF ConcurrentInv
<1>4. yielded = << >> /\ notified = << >>
  BY <1>2 DEF NotAwaited
<1>5. TypeOKRun' /\ PendingMatchesNode'
  BY <1>1, EngineAlone
<1>6. TypeOK'
  BY <1>1, <1>3, <1>5 DEF ConcurrentInv, TypeOK, PoolInv
<1>7. PhaseInv'
  BY <1>1, <1>3 DEF ConcurrentInv, PhaseInv, AllSubmitted, InFanout, Running, runVars
<1>8. CollectedInv'
  BY <1>1, <1>3, <1>4 DEF ConcurrentInv, CollectedInv, Failed
<1>9. NamesInv'
  BY <1>1, <1>3, NamesAlone DEF ConcurrentInv
<1>10. CompletionInv'
  <2>1. completed \in Seq(Jobs) /\ Len(completed) \in Nat
    BY DEF ConcurrentInv, TypeOK
  <2>2. Done \subseteq Elements(completed)
    BY DEF ConcurrentInv, CompletionInv
  <2>3. \A j \in Done : \E m \in 1 .. Len(completed) : completed[m] = j
    BY <2>2 DEF Elements
  <2>4. NotifiedFrom(Len(completed))'
    BY <1>1, <1>3, <1>4, <2>1, <2>3 DEF NotifiedFrom
  <2>5. Len(completed) \in 0 .. Len(completed)
    BY <2>1
  <2> QED
    BY <1>1, <1>3, <2>2, <2>4, <2>5 DEF CompletionInv
<1>11. BoundInv'
  BY <1>3 DEF ConcurrentInv, BoundInv, CrossParallelism
<1> QED
  BY <1>3, <1>5, <1>6, <1>7, <1>8, <1>9, <1>10, <1>11 DEF ConcurrentInv

\* Nothing runs or waits once the fan-out is over.
LEMMA BusyInFanout ==
  ASSUME ConcurrentInv, NEW i \in Jobs, fut[i] \in {"queued", "running"}
  PROVE  InFanout
BY DEF ConcurrentInv, PhaseInv, AllDone, Done

LEMMA BranchStartsKeeps ==
  ASSUME ConcurrentInv, NEW i \in Jobs, BranchStarts(i)
  PROVE  ConcurrentInv'
<1>1. /\ Take(i, CrossParallelism)
      /\ UNCHANGED << runVars, next, caller, result, order, keys, kept, completed >>
  BY DEF BranchStarts
<1>2. CrossParallelism \in Int
  BY CrossFacts
<1>3. /\ PoolInv' /\ Done' = Done /\ Cardinality(Busy') <= CrossParallelism
      /\ fut[i] = "queued" /\ fut'[i] = "running" /\ \A j \in Jobs \ {i} : fut'[j] = fut[j]
      /\ UNCHANGED << early, notified, yielded >>
  BY <1>1, <1>2, TakeInv DEF ConcurrentInv
<1>4. TypeOKRun' /\ PendingMatchesNode'
  BY <1>1, EngineAlone
<1>5. TypeOK'
  BY <1>1, <1>3, <1>4 DEF ConcurrentInv, TypeOK, PoolInv
<1>6. PhaseInv'
  <2>1. InFanout /\ InFanout'
    BY <1>1, <1>3, BusyInFanout DEF InFanout, Running, runVars
  <2>2. AllSubmitted => AllSubmitted'
    BY <1>3 DEF AllSubmitted
  <2> QED
    BY <1>1, <1>3, <2>1, <2>2 DEF ConcurrentInv, PhaseInv, NotAwaited, runVars, InFanout
<1>7. CollectedInv' /\ NamesInv' /\ CompletionInv'
  BY <1>1, <1>3, CollectedAlone, NamesAlone, CompletionAlone DEF ConcurrentInv
<1>8. BoundInv'
  BY <1>3 DEF BoundInv, CrossParallelism
<1> QED
  BY <1>3, <1>4, <1>5, <1>6, <1>7, <1>8 DEF ConcurrentInv

\* What a branch has come to: a turn it could take, or one of the failures.
LEMMA ResultFacts ==
  ASSUME ConcurrentInv, NEW i \in Jobs, BranchEnds(i)
  PROVE  /\ result' \in [Jobs -> [kind : {"none", "reply", "refusal"} \cup Failures, calls : Seq(Tools)]]
         /\ result'[i].kind # "none"
         /\ \A j \in Jobs \ {i} : result'[j] = result[j]
<1> DEFINE a == Branches[i]
           Kept(r) == /\ r \in [kind : {"none", "reply", "refusal"} \cup Failures, calls : Seq(Tools)]
                      /\ r.kind # "none"
<1>1. result \in [Jobs -> [kind : {"none", "reply", "refusal"} \cup Failures, calls : Seq(Tools)]]
  BY DEF ConcurrentInv, TypeOK
<1>2. << >> \in Seq(Tools) /\ Replies \subseteq Seq(Tools)
  BY AgentRunAssumption
<1>3. ASSUME NEW t \in Turns(a) PROVE Kept(t)
  <2>1. CASE t = [kind |-> "refusal", calls |-> << >>]
    BY <1>2, <2>1
  <2>2. CASE t \in {[kind |-> "reply", calls |-> c] : c \in IF a \in Structured THEN {<< >>} ELSE Replies}
    <3>1. PICK c \in (IF a \in Structured THEN {<< >>} ELSE Replies) : t = [kind |-> "reply", calls |-> c]
      BY <2>2
    <3>2. c \in Seq(Tools)
      BY <1>2
    <3> QED
      BY <3>1, <3>2
  <2> QED
    BY <2>1, <2>2 DEF Turns
<1>4. ASSUME NEW f \in Failures PROVE Kept([kind |-> f, calls |-> << >>])
  BY <1>2 DEF Failures
<1>5. \E r : Kept(r) /\ result' = [result EXCEPT ![i] = r]
  <2>1. CASE \E t \in Turns(a) : Answerable(a, t.calls) /\ result' = [result EXCEPT ![i] = t]
    BY <1>3, <2>1
  <2>2. CASE \E f \in (IF a \in Structured THEN Failures ELSE Failures \ {"structured"}) :
               result' = [result EXCEPT ![i] = [kind |-> f, calls |-> << >>]]
    <3>1. PICK f \in Failures : result' = [result EXCEPT ![i] = [kind |-> f, calls |-> << >>]]
      BY <2>2
    <3> QED
      BY <1>4, <3>1
  <2> QED
    BY <2>1, <2>2 DEF BranchEnds
<1> QED
  BY <1>1, <1>5

\* A branch that ends is the last to have completed.
LEMMA CompletionGrows ==
  ASSUME ConcurrentInv, NEW i \in Jobs,
         Complete(i, caller = "collecting"), completed' = Append(completed, i), UNCHANGED caller
  PROVE  CompletionInv'
<1>1. /\ completed \in Seq(Jobs) /\ Len(completed) \in Nat
      /\ notified \in Seq(Jobs) /\ Len(notified) \in Nat
  BY DEF ConcurrentInv, TypeOK, PoolTypeOK
<1>2. /\ completed' \in Seq(Jobs) /\ Len(completed') = Len(completed) + 1
      /\ \A m \in 1 .. Len(completed) : completed'[m] = completed[m]
      /\ completed'[Len(completed) + 1] = i
  BY <1>1
<1>3. /\ Done' = Done \cup {i} /\ UNCHANGED early
      /\ notified' = IF caller = "collecting" THEN Append(notified, i) ELSE notified
  <2>1. (caller = "collecting") \in BOOLEAN
    OBVIOUS
  <2> QED
    BY <2>1, CompleteInv DEF ConcurrentInv
<1>4. Done' \subseteq Elements(completed')
  <2>1. \A j \in Done : \E m \in 1 .. Len(completed) : completed[m] = j
    BY DEF ConcurrentInv, CompletionInv, Elements
  <2>2. \A j \in Done' : \E m \in 1 .. Len(completed') : completed'[m] = j
    BY <1>1, <1>2, <1>3, <2>1
  <2> QED
    BY <2>2 DEF Elements
<1>5. PICK e \in 0 .. Len(completed) : NotifiedFrom(e)
  BY DEF ConcurrentInv, CompletionInv
<1>6. /\ e \in Nat /\ e \in 0 .. Len(completed')
      /\ e + Len(notified) <= Len(completed)
      /\ caller = "collecting" => e + Len(notified) = Len(completed)
      /\ \A k \in 1 .. Len(notified) : completed[e + k] = notified[k]
      /\ \A j \in early : \E m \in 1 .. e : completed[m] = j
  <2>1. e \in Nat /\ e \in 0 .. Len(completed')
    BY <1>1, <1>2
  <2> QED
    BY <1>5, <2>1 DEF NotifiedFrom
<1>7. \A k \in 1 .. Len(notified) : e + k \in 1 .. Len(completed)
  BY <1>1, <1>6
<1>8. \A k \in 1 .. Len(notified) : completed'[e + k] = notified[k]
  BY <1>2, <1>6, <1>7
<1>9. \A m \in 1 .. e : completed'[m] = completed[m]
  BY <1>1, <1>2, <1>6
<1>10. CASE caller = "collecting"
  <2>1. /\ Len(notified') = Len(notified) + 1
        /\ \A k \in 1 .. Len(notified) : notified'[k] = notified[k]
        /\ notified'[Len(notified) + 1] = i
    BY <1>1, <1>3, <1>10
  <2>2. e + (Len(notified) + 1) = Len(completed) + 1
    BY <1>1, <1>6, <1>10
  <2>3. e + Len(notified') = Len(completed')
    BY <1>2, <2>1, <2>2
  <2>4. ASSUME NEW k \in 1 .. Len(notified') PROVE completed'[e + k] = notified'[k]
    <3>1. CASE k \in 1 .. Len(notified)
      BY <1>8, <2>1, <3>1
    <3>2. CASE k = Len(notified) + 1
      BY <1>2, <2>1, <2>2, <3>2
    <3>3. k \in 1 .. Len(notified) \/ k = Len(notified) + 1
      BY <1>1, <2>1
    <3> QED
      BY <3>1, <3>2, <3>3
  <2>5. e + Len(notified') <= Len(completed')
    BY <1>1, <1>2, <2>3
  <2>6. NotifiedFrom(e)'
    BY <1>3, <1>6, <1>9, <2>3, <2>4, <2>5 DEF NotifiedFrom
  <2> QED
    BY <1>4, <1>6, <2>6 DEF CompletionInv
<1>11. CASE caller # "collecting"
  <2>1. notified' = notified /\ e + Len(notified) <= Len(completed')
    BY <1>1, <1>2, <1>3, <1>6, <1>11
  <2>2. NotifiedFrom(e)'
    BY <1>3, <1>6, <1>8, <1>9, <1>11, <2>1 DEF NotifiedFrom
  <2> QED
    BY <1>4, <1>6, <2>2 DEF CompletionInv
<1> QED
  BY <1>10, <1>11

LEMMA BranchEndsKeeps ==
  ASSUME ConcurrentInv, NEW i \in Jobs, BranchEnds(i)
  PROVE  ConcurrentInv'
<1>1. /\ Complete(i, caller = "collecting") /\ completed' = Append(completed, i)
      /\ UNCHANGED << runVars, next, caller, order, keys, kept >>
  BY DEF BranchEnds
<1>2. /\ PoolInv' /\ Done' = Done \cup {i} /\ Busy' = Busy \ {i} /\ i \in Busy
      /\ fut[i] = "running" /\ fut'[i] = "done" /\ \A j \in Jobs \ {i} : fut'[j] = fut[j]
      /\ UNCHANGED << early, yielded >>
      /\ notified' = IF caller = "collecting" THEN Append(notified, i) ELSE notified
  <2>1. (caller = "collecting") \in BOOLEAN
    OBVIOUS
  <2> QED
    BY <1>1, <2>1, CompleteInv DEF ConcurrentInv
<1>3. TypeOKRun' /\ PendingMatchesNode'
  BY <1>1, EngineAlone
<1>4. /\ result' \in [Jobs -> [kind : {"none", "reply", "refusal"} \cup Failures, calls : Seq(Tools)]]
      /\ result'[i].kind # "none"
      /\ \A j \in Jobs \ {i} : result'[j] = result[j]
  BY ResultFacts
<1>5. TypeOK'
  <2>1. completed' \in Seq(Jobs)
    BY <1>1 DEF ConcurrentInv, TypeOK
  <2> QED
    BY <1>1, <1>2, <1>3, <1>4, <2>1 DEF ConcurrentInv, TypeOK, PoolInv
<1>6. PhaseInv'
  <2>1. InFanout /\ InFanout'
    BY <1>1, <1>2, BusyInFanout DEF InFanout, Running, runVars
  <2>2. AllSubmitted => AllSubmitted'
    BY <1>2 DEF AllSubmitted
  <2> QED
    BY <1>1, <1>2, <2>1, <2>2 DEF ConcurrentInv, PhaseInv, NotAwaited, runVars, InFanout
<1>7. CollectedInv'
  <2>1. Elements(yielded) \subseteq Done /\ i \notin Done
    BY <1>2, HandedAreDone DEF ConcurrentInv, Done
  <2>2. \A j \in Elements(yielded) : j \in Jobs /\ j # i
    BY <2>1 DEF Done
  <2>3. \A j \in Elements(yielded) : Failed(j)' <=> Failed(j)
    BY <1>4, <2>2 DEF Failed
  <2>4. \A j \in Done' : result'[j].kind # "none"
    <3>1. \A j \in Done : j \in Jobs /\ result[j].kind # "none"
      BY DEF ConcurrentInv, CollectedInv, Done
    <3> QED
      BY <1>2, <1>4, <3>1
  <2>5. \A k \in 1 .. Len(yielded) : yielded[k] \in Elements(yielded)
    BY DEF Elements
  <2>6. \A a \in Agents : kept'[a] # 0 =>
          kept'[a] \in Elements(yielded') /\ Branches[kept'[a]] = a /\ ~Failed(kept[a])'
    BY <1>1, <1>2, <2>3 DEF ConcurrentInv, CollectedInv
  <2>7. caller' \in {"collecting", "left"} =>
          \A k \in 1 .. Len(yielded') : ~Failed(yielded[k])' /\ kept'[Branches[yielded'[k]]] # 0
    BY <1>1, <1>2, <2>3, <2>5 DEF ConcurrentInv, CollectedInv
  <2>8. caller' = "raising" => Len(yielded') > 0 /\ Failed(yielded[Len(yielded)])'
    <3>1. yielded \in Seq(Jobs) /\ Len(yielded) \in Nat
      BY DEF ConcurrentInv, PoolInv, PoolTypeOK
    <3>2. Len(yielded) > 0 => yielded[Len(yielded)] \in Elements(yielded)
      BY <2>5, <3>1
    <3> QED
      BY <1>1, <1>2, <2>3, <3>2 DEF ConcurrentInv, CollectedInv
  <2> QED
    BY <2>4, <2>6, <2>7, <2>8 DEF CollectedInv
<1>8. NamesInv'
  BY <1>1, <1>2, NamesAlone DEF ConcurrentInv
<1>9. CompletionInv'
  BY <1>1, CompletionGrows
<1>10. BoundInv'
  <2>1. Cardinality(Busy') <= Cardinality(Busy) /\ Cardinality(Busy') \in Nat
    <3>1. Cardinality(Busy \ {i}) = Cardinality(Busy) - 1 /\ IsFiniteSet(Busy \ {i})
      BY <1>2, BusyFacts, FS_RemoveElement
    <3>2. Cardinality(Busy \ {i}) \in Nat
      BY <3>1, FS_CardinalityType
    <3>3. Cardinality(Busy \ {i}) <= Cardinality(Busy)
      BY <3>1, BusyFacts
    <3>4. Busy' = Busy \ {i}
      BY <1>2
    <3> QED
      BY <3>2, <3>3, <3>4
  <2>2. Cardinality(Busy) <= CrossParallelism
    BY DEF ConcurrentInv, BoundInv
  <2>3. Cardinality(Busy') <= CrossParallelism
    BY <2>1, <2>2, BusyFacts, CrossFacts
  <2> QED
    BY <2>3 DEF BoundInv, CrossParallelism
<1> QED
  BY <1>2, <1>3, <1>5, <1>6, <1>7, <1>8, <1>9, <1>10 DEF ConcurrentInv

\* The future that was handed out is new, and so is its agent unless it is listed twice.
LEMMA CollectBranchKeeps ==
  ASSUME ConcurrentInv, NEW i \in Jobs, CollectBranch(i)
  PROVE  ConcurrentInv'
<1> DEFINE a == Branches[i]
<1>1. /\ InFanout /\ caller = "collecting" /\ YieldNext(i)
      /\ order' = Append(order, a)
      /\ UNCHANGED << runVars, next, result, completed >>
  BY DEF CollectBranch
<1>2. /\ PoolInv' /\ i \in Done /\ i \notin Elements(yielded)
      /\ yielded' = Append(yielded, i)
      /\ Elements(yielded') = Elements(yielded) \cup {i}
      /\ UNCHANGED << fut, early, notified >>
      /\ Done' = Done /\ Busy' = Busy
  BY <1>1, YieldNextInv DEF ConcurrentInv
<1>3. \/ Failed(i) /\ caller' = "raising" /\ UNCHANGED << keys, kept >>
      \/ /\ ~Failed(i) /\ caller' = caller
         /\ kept' = [kept EXCEPT ![a] = i]
         /\ keys' = IF kept[a] = 0 THEN Append(keys, a) ELSE keys
  BY DEF CollectBranch
<1>4. /\ a \in Agents /\ i \in 0 .. N /\ i # 0
      /\ yielded \in Seq(Jobs) /\ Len(yielded) \in Nat
      /\ kept \in [Agents -> 0 .. N] /\ keys \in Seq(Agents)
      /\ order \in Seq(Agents) /\ Len(order) = Len(yielded)
  <2>1. a \in Agents /\ i \in 0 .. N /\ i # 0
    BY BranchFacts DEF Jobs
  <2>2. /\ yielded \in Seq(Jobs) /\ kept \in [Agents -> 0 .. N] /\ keys \in Seq(Agents)
        /\ order \in Seq(Agents) /\ Len(order) = Len(yielded)
    BY DEF ConcurrentInv, PoolInv, PoolTypeOK, TypeOK, NamesInv
  <2>3. Len(yielded) \in Nat
    BY <2>2
  <2> QED
    BY <2>1, <2>2, <2>3
<1>5. /\ Len(yielded') = Len(yielded) + 1
      /\ \A k \in 1 .. Len(yielded) : yielded'[k] = yielded[k]
      /\ yielded'[Len(yielded) + 1] = i
  BY <1>2, <1>4
<1> HIDE DEF a
<1>6. /\ kept' \in [Agents -> 0 .. N] /\ keys' \in Seq(Agents)
      /\ \A b \in Agents : kept[b] # 0 => kept'[b] # 0
  <2>1. CASE UNCHANGED << keys, kept >>
    BY <1>4, <2>1
  <2>2. CASE kept' = [kept EXCEPT ![a] = i] /\ keys' = IF kept[a] = 0 THEN Append(keys, a) ELSE keys
    <3>1. kept' \in [Agents -> 0 .. N] /\ \A b \in Agents : kept'[b] = IF b = a THEN i ELSE kept[b]
      BY <1>4, <2>2
    <3>2. keys' \in Seq(Agents)
      <4>1. Append(keys, a) \in Seq(Agents)
        BY <1>4
      <4> QED
        BY <1>4, <2>2, <4>1
    <3> QED
      BY <1>4, <3>1, <3>2
  <2> QED
    BY <1>3, <2>1, <2>2
<1>7. TypeOKRun' /\ PendingMatchesNode'
  BY <1>1, EngineAlone
<1>8. TypeOK'
  <2>1. order' \in Seq(Agents)
    BY <1>1, <1>4
  <2>2. caller' \in {"submitting", "collecting", "raising", "left"}
    BY <1>1, <1>3
  <2> QED
    BY <1>1, <1>2, <1>6, <1>7, <2>1, <2>2 DEF ConcurrentInv, TypeOK, PoolInv
<1>9. PhaseInv'
  <2>1. caller' \in {"collecting", "raising"} /\ InFanout' /\ node = Fanout /\ node' = Fanout
    BY <1>1, <1>3 DEF InFanout, Running, runVars
  <2>2. AllSubmitted'
    BY <1>1, <1>2 DEF ConcurrentInv, PhaseInv, AllSubmitted
  <2> QED
    BY <1>1, <2>1, <2>2 DEF ConcurrentInv, PhaseInv, runVars
<1>10. CollectedInv'
  <2>1. \A j : Failed(j)' <=> Failed(j)
    BY <1>1 DEF Failed
  <2>2. \A j \in Done' : result'[j].kind # "none"
    BY <1>1, <1>2 DEF ConcurrentInv, CollectedInv
  <2>3. ASSUME NEW b \in Agents, kept'[b] # 0
        PROVE  kept'[b] \in Elements(yielded') /\ Branches[kept'[b]] = b /\ ~Failed(kept[b])'
    <3>1. CASE kept'[b] = kept[b]
      BY <1>1, <1>2, <2>3, <3>1 DEF ConcurrentInv, CollectedInv, Failed
    <3>2. CASE b = a /\ kept'[b] = i /\ ~Failed(i)
      BY <1>1, <1>2, <3>2 DEF a, Failed
    <3> QED
      BY <1>3, <1>4, <3>1, <3>2
  <2>4. caller' \in {"collecting", "left"} =>
          \A k \in 1 .. Len(yielded') : ~Failed(yielded[k])' /\ kept'[Branches[yielded'[k]]] # 0
    <3>1. SUFFICES ASSUME caller' \in {"collecting", "left"}, NEW k \in 1 .. Len(yielded')
                   PROVE  ~Failed(yielded[k])' /\ kept'[Branches[yielded'[k]]] # 0
      OBVIOUS
    <3>2. ~Failed(i) /\ kept' = [kept EXCEPT ![a] = i]
      BY <1>3, <3>1
    <3>3. CASE k \in 1 .. Len(yielded)
      <4>1. ~Failed(yielded[k]) /\ kept[Branches[yielded[k]]] # 0 /\ yielded[k] \in Jobs
        BY <1>1, <1>4, <3>3 DEF ConcurrentInv, CollectedInv
      <4>2. Branches[yielded[k]] \in Agents
        BY <4>1, BranchFacts
      <4> QED
        BY <1>1, <1>5, <1>6, <3>3, <4>1, <4>2 DEF Failed
    <3>4. CASE k = Len(yielded) + 1
      <4>1. yielded'[k] = i /\ kept'[a] = i
        BY <1>4, <1>5, <3>2, <3>4
      <4> QED
        BY <1>1, <1>4, <3>2, <4>1 DEF a, Failed
    <3>5. k \in 1 .. Len(yielded) \/ k = Len(yielded) + 1
      BY <1>4, <1>5
    <3> QED
      BY <3>3, <3>4, <3>5
  <2>5. caller' = "raising" => Len(yielded') > 0 /\ Failed(yielded[Len(yielded)])'
    <3>1. SUFFICES ASSUME caller' = "raising"
                   PROVE  Len(yielded') > 0 /\ Failed(yielded[Len(yielded)])'
      OBVIOUS
    <3>2. Failed(i)
      BY <1>1, <1>3, <3>1
    <3>3. Len(yielded') > 0 /\ yielded'[Len(yielded')] = i
      BY <1>4, <1>5
    <3> QED
      BY <1>1, <3>2, <3>3 DEF Failed
  <2> QED
    BY <2>2, <2>3, <2>4, <2>5 DEF CollectedInv
<1>11. NamesInv'
  <2>1. Len(order') = Len(yielded') /\ \A k \in 1 .. Len(order') : order'[k] = Branches[yielded'[k]]
    <3>1. /\ Len(order') = Len(order) + 1
          /\ \A k \in 1 .. Len(order) : order'[k] = order[k]
          /\ order'[Len(order) + 1] = a
      BY <1>1, <1>4 DEF a
    <3>2. \A k \in 1 .. Len(order') : k \in 1 .. Len(order) \/ k = Len(order) + 1
      BY <1>4, <3>1
    <3>3. \A k \in 1 .. Len(order) : order[k] = Branches[yielded[k]]
      BY DEF ConcurrentInv, NamesInv
    <3> QED
      BY <1>4, <1>5, <3>1, <3>2, <3>3 DEF a
  <2>2. Distinct(keys) /\ Elements(keys) = {b \in Agents : kept[b] # 0}
    BY DEF ConcurrentInv, NamesInv
  <2>3. Distinct(keys') /\ Elements(keys') = {b \in Agents : kept'[b] # 0}
    <3>1. CASE UNCHANGED << keys, kept >>
      BY <2>2, <3>1
    <3>2. ASSUME kept' = [kept EXCEPT ![a] = i], kept[a] # 0, keys' = keys
          PROVE  Distinct(keys') /\ Elements(keys') = {b \in Agents : kept'[b] # 0}
      BY <1>4, <2>2, <3>2
    <3>3. ASSUME kept' = [kept EXCEPT ![a] = i], kept[a] = 0, keys' = Append(keys, a)
          PROVE  Distinct(keys') /\ Elements(keys') = {b \in Agents : kept'[b] # 0}
      <4>1. a \notin Elements(keys)
        BY <2>2, <3>3
      <4>2. Distinct(keys') /\ Elements(keys') = Elements(keys) \cup {a}
        BY <1>4, <2>2, <3>3, <4>1, AppendDistinct
      <4>3. {b \in Agents : kept'[b] # 0} = {b \in Agents : kept[b] # 0} \cup {a}
        BY <1>4, <3>3
      <4> QED
        BY <2>2, <4>2, <4>3
    <3> QED
      BY <1>3, <3>1, <3>2, <3>3
  <2> QED
    BY <2>1, <2>3 DEF NamesInv
<1>12. CompletionInv'
  BY <1>1, <1>2, CompletionAlone DEF ConcurrentInv
<1>13. BoundInv'
  BY <1>2 DEF ConcurrentInv, BoundInv, CrossParallelism
<1> QED
  BY <1>2, <1>7, <1>8, <1>9, <1>10, <1>11, <1>12, <1>13 DEF ConcurrentInv

-----------------------------------------------------------------------------
(***************************************************************************)
(* The tool messages of the fan-out.  Together says that a sequence holds  *)
(* one unbroken block of results per agent of K, which answers what the    *)
(* agent asked for from its first call on.                                 *)
(***************************************************************************)
Block(s, asked, p, q) ==
  /\ \A r \in p .. q : s[r].by = s[p].by
  /\ (\A r \in 1 .. Len(s) : s[r].by = s[p].by => r >= p)
       => /\ q - p + 1 \in DOMAIN asked[s[p].by]
          /\ s[q].calls[1] = asked[s[p].by][q - p + 1]

Together(s, asked, K) ==
  /\ s \in Seq(Message)
  /\ \A p \in 1 .. Len(s) : s[p].kind = "tool" /\ s[p].by \in K
  /\ \A p, q \in 1 .. Len(s) : p <= q /\ s[q].by = s[p].by => Block(s, asked, p, q)

\* What the branch whose result was kept for an agent asked for.
Asked == [a \in Agents |-> result[kept[a]].calls]

\* The results of one more agent make one more block.
LEMMA TogetherGrows ==
  ASSUME NEW s, NEW K \in SUBSET Agents, NEW asked, NEW a \in Agents, asked[a] \in Seq(Tools),
         Together(s, asked, K), a \notin K, NEW n \in 0 .. Len(asked[a])
  PROVE  Together(s \o Results(a, SubSeq(asked[a], 1, n)), asked, K \cup {a})
<1> DEFINE first == SubSeq(asked[a], 1, n)
           R == Results(a, first)
           t == s \o R
           l == Len(s)
<1>1. s \in Seq(Message) /\ l \in Nat /\ asked[a] \in Seq(Tools) /\ n \in Nat
  BY DEF Together
<1>2. first \in Seq(Tools) /\ Len(first) = n /\ \A i \in 1 .. n : first[i] = asked[a][i]
  BY <1>1
<1> HIDE DEF first
<1>3. /\ R \in Seq(Message) /\ Len(R) = n
      /\ \A i \in 1 .. n : R[i].kind = "tool" /\ R[i].by = a /\ R[i].calls = << first[i] >>
  BY <1>2, ResultsType
<1> HIDE DEF R
<1>4. /\ t \in Seq(Message) /\ Len(t) = l + n
      /\ \A p \in 1 .. l : t[p] = s[p]
      /\ \A i \in 1 .. n : t[l + i] = R[i]
  BY <1>1, <1>3, ConcatFacts
<1> HIDE DEF t
<1>5. \A p \in 1 .. l : t[p] = s[p] /\ t[p].kind = "tool" /\ t[p].by \in K /\ t[p].by # a
  BY <1>4 DEF Together
<1>6. ASSUME NEW p \in 1 .. Len(t), p \notin 1 .. l
      PROVE  /\ p - l \in 1 .. n /\ t[p].kind = "tool" /\ t[p].by = a
             /\ t[p].calls[1] = asked[a][p - l]
  <2>1. p - l \in 1 .. n /\ p = l + (p - l)
    BY <1>1, <1>4, <1>6
  <2>2. t[p] = R[p - l]
    BY <1>4, <2>1
  <2>3. t[p].kind = "tool" /\ t[p].by = a /\ t[p].calls = << first[p - l] >>
    BY <1>3, <2>1, <2>2
  <2> QED
    BY <1>2, <2>1, <2>3
<1>7. \A p \in 1 .. Len(t) : t[p].kind = "tool" /\ t[p].by \in K \cup {a}
  BY <1>5, <1>6
<1>8. ASSUME NEW p \in 1 .. Len(t), NEW q \in 1 .. Len(t), p <= q, t[q].by = t[p].by
      PROVE  Block(t, asked, p, q)
  <2>1. CASE p \in 1 .. l
    <3>1. q \in 1 .. l
      BY <1>5, <1>6, <1>8, <2>1
    <3>2. Block(s, asked, p, q)
      BY <1>5, <1>8, <2>1, <3>1 DEF Together
    <3>3. \A r \in p .. q : r \in 1 .. l
      BY <1>1, <2>1, <3>1
    <3>4. \A r \in p .. q : t[r].by = t[p].by
      BY <1>5, <2>1, <3>2, <3>3 DEF Block
    <3>5. ASSUME \A r \in 1 .. Len(t) : t[r].by = t[p].by => r >= p
          PROVE  q - p + 1 \in DOMAIN asked[t[p].by] /\ t[q].calls[1] = asked[t[p].by][q - p + 1]
      <4>1. \A r \in 1 .. l : r \in 1 .. Len(t)
        BY <1>1, <1>4
      <4>2. \A r \in 1 .. Len(s) : s[r].by = s[p].by => r >= p
        BY <1>5, <2>1, <3>5, <4>1
      <4> QED
        BY <1>5, <2>1, <3>1, <3>2, <4>2 DEF Block
    <3> QED
      BY <3>4, <3>5 DEF Block
  <2>2. CASE p \notin 1 .. l
    <3>1. q \notin 1 .. l /\ p \in Nat /\ q \in Nat /\ p > l
      BY <1>1, <1>8, <2>2
    <3>2. \A r \in p .. q : r \in 1 .. Len(t) /\ r \notin 1 .. l
      BY <1>1, <3>1
    <3>3. t[p].by = a /\ \A r \in p .. q : t[r].by = t[p].by
      BY <1>6, <2>2, <3>2
    <3>4. ASSUME \A r \in 1 .. Len(t) : t[r].by = t[p].by => r >= p
          PROVE  q - p + 1 \in DOMAIN asked[a] /\ t[q].calls[1] = asked[a][q - p + 1]
      <4>1. l + 1 \in 1 .. Len(t) /\ l + 1 \notin 1 .. l
        BY <1>1, <1>4, <3>1
      <4>2. l + 1 >= p
        BY <1>6, <3>3, <3>4, <4>1
      <4>3. q - p + 1 = q - l
        <5>1. l \in Nat
          BY <1>1
        <5>2. p = l + 1
          BY <3>1, <4>2, <5>1
        <5> QED
          BY <3>1, <5>1, <5>2
      <4>4. q - l \in 1 .. n /\ t[q].calls[1] = asked[a][q - l]
        BY <1>6, <3>1
      <4>5. \A k \in 1 .. n : k \in DOMAIN asked[a]
        BY <1>1
      <4> QED
        BY <4>3, <4>4, <4>5
    <3> QED
      BY <3>3, <3>4 DEF Block
  <2> QED
    BY <2>1, <2>2
<1> QED
  BY <1>4, <1>7, <1>8 DEF Together, t, R, first

\* No results are together.
LEMMA TogetherEmpty == \A asked : Together(<< >>, asked, {})
BY DEF Together

\* A recursion over the first n numbers has a solution.
LEMMA ConcatenationExists ==
  ASSUME NEW n \in Nat, NEW B
  PROVE  \E f : f = [k \in 0 .. n |-> IF k = 0 THEN << >> ELSE f[k - 1] \o B[k]]
<1> DEFINE Solves(f, l) == f = [k \in 0 .. l |-> IF k = 0 THEN << >> ELSE f[k - 1] \o B[k]]
           T == {l \in Nat : ~ \E f : Solves(f, l)}
<1>1. SUFFICES ASSUME T # {} PROVE FALSE
  <2>1. T = {} => \E f : Solves(f, n)
    OBVIOUS
  <2> QED
    BY <1>1, <2>1
<1>2. PICK l \in T : \A j \in T : l <= j
  BY <1>1, LeastElement
<1>3. l # 0
  <2>1. Solves([k \in 0 .. 0 |-> << >>], 0)
    OBVIOUS
  <2> QED
    BY <1>2, <2>1
<1>4. l - 1 \in Nat /\ l \in Nat /\ ~(l <= l - 1)
  BY <1>2, <1>3
<1>5. PICK f : Solves(f, l - 1)
  BY <1>2, <1>4
<1> DEFINE g == [k \in 0 .. l |-> IF k = l THEN f[l - 1] \o B[l] ELSE f[k]]
<1>6. \A k \in 0 .. l - 1 : f[k] = IF k = 0 THEN << >> ELSE f[k - 1] \o B[k]
  BY <1>5
<1>7. \A k \in 0 .. l : g[k] = IF k = 0 THEN << >> ELSE g[k - 1] \o B[k]
  <2>1. SUFFICES ASSUME NEW k \in 0 .. l
                 PROVE  g[k] = IF k = 0 THEN << >> ELSE g[k - 1] \o B[k]
    OBVIOUS
  <2>2. CASE k = 0
    BY <1>4, <1>6, <2>2
  <2>3. CASE k # 0
    <3>1. k - 1 \in 0 .. l /\ k - 1 # l /\ k - 1 \in 0 .. l - 1
      BY <1>4, <2>3
    <3>2. g[k - 1] = f[k - 1]
      BY <3>1
    <3>3. CASE k = l
      BY <3>2, <3>3, <2>3
    <3>4. CASE k # l
      <4>1. k \in 0 .. l - 1
        BY <1>4, <3>4
      <4> QED
        BY <1>6, <2>3, <3>2, <3>4, <4>1
    <3> QED
      BY <3>3, <3>4
  <2> QED
    BY <2>2, <2>3
<1>8. Solves(g, l)
  <2>1. g = [k \in 0 .. l |-> g[k]]
    OBVIOUS
  <2> HIDE DEF g
  <2>2. [k \in 0 .. l |-> g[k]] = [k \in 0 .. l |-> IF k = 0 THEN << >> ELSE g[k - 1] \o B[k]]
    BY <1>7
  <2> QED
    BY <2>1, <2>2
<1> QED
  BY <1>2, <1>8

\* What fanout_fn appends: one block per agent, whatever order the branches took.
LEMMA AllToolMessagesTogether ==
  ASSUME TypeOK, NamesInv
  PROVE  Together(AllToolMessages, Asked, Elements(keys))
<1> DEFINE B == [k \in 1 .. Len(keys) |-> ToolMessages(keys[k])]
           Sol(f) == f = [k \in 0 .. Len(keys) |->
                            IF k = 0 THEN << >> ELSE f[k - 1] \o ToolMessages(keys[k])]
           upTo == CHOOSE f : Sol(f)
           First(k) == {keys[j] : j \in 1 .. k}
           T == {k \in 0 .. Len(keys) : ~Together(upTo[k], Asked, First(k))}
<1>1. keys \in Seq(Agents) /\ Len(keys) \in Nat
  BY DEF TypeOK
<1>2. \E f : Sol(f)
  <2> DEFINE n == Len(keys)
  <2>1. PICK f : f = [k \in 0 .. n |-> IF k = 0 THEN << >> ELSE f[k - 1] \o B[k]]
    <3> HIDE DEF B
    <3> QED
      BY <1>1, ConcatenationExists
  <2>2. \A k \in 0 .. n : k # 0 => B[k] = ToolMessages(keys[k])
    BY <1>1
  <2> HIDE DEF B
  <2>3. [k \in 0 .. n |-> IF k = 0 THEN << >> ELSE f[k - 1] \o B[k]]
          = [k \in 0 .. n |-> IF k = 0 THEN << >> ELSE f[k - 1] \o ToolMessages(keys[k])]
    BY <2>2
  <2>4. Sol(f)
    BY <2>1, <2>3, Zenon
  <2> QED
    BY <2>4
<1>3. Sol(upTo)
  BY <1>2, Zenon
<1>4. AllToolMessages = upTo[Len(keys)]
  BY DEF AllToolMessages
<1> HIDE DEF upTo
<1>5. /\ upTo[0] = << >>
      /\ \A k \in 1 .. Len(keys) : upTo[k] = upTo[k - 1] \o ToolMessages(keys[k])
  <2>1. \A k \in 0 .. Len(keys) :
          upTo[k] = IF k = 0 THEN << >> ELSE upTo[k - 1] \o ToolMessages(keys[k])
    BY <1>3
  <2>2. 0 \in 0 .. Len(keys) /\ \A k \in 1 .. Len(keys) : k \in 0 .. Len(keys) /\ k # 0
    BY <1>1
  <2>3. upTo[0] = << >>
    BY <2>1, <2>2
  <2>4. ASSUME NEW k \in 1 .. Len(keys) PROVE upTo[k] = upTo[k - 1] \o ToolMessages(keys[k])
    BY <2>1, <2>2
  <2> QED
    BY <2>3, <2>4
<1>6. ASSUME NEW k \in 1 .. Len(keys), Together(upTo[k - 1], Asked, First(k - 1))
      PROVE  Together(upTo[k], Asked, First(k))
  <2> DEFINE a == keys[k]
             n == Limit(a, Asked[a])
  <2>1. a \in Agents /\ Asked[a] = result[kept[a]].calls
    BY <1>1 DEF Asked
  <2>2. kept[a] \in Jobs
    <3>1. kept[a] # 0
      BY DEF NamesInv, Elements
    <3>2. kept[a] \in 0 .. N
      BY <2>1 DEF TypeOK
    <3> QED
      BY <3>1, <3>2, BranchFacts DEF Jobs
  <2>3. Asked[a] \in Seq(Tools)
    BY <2>1, <2>2 DEF TypeOK
  <2>4. a \notin First(k - 1)
    BY <1>1 DEF NamesInv, Distinct
  <2>5. First(k) = First(k - 1) \cup {a}
    <3>1. \A j \in 1 .. k : j \in 1 .. k - 1 \/ j = k
      BY <1>1
    <3>2. \A j \in 1 .. k - 1 : j \in 1 .. k
      BY <1>1
    <3>3. k \in 1 .. k
      BY <1>1
    <3> QED
      BY <3>1, <3>2, <3>3
  <2>6. First(k - 1) \in SUBSET Agents
    BY <1>1
  <2>7. n \in 0 .. Len(Asked[a])
    <3>1. CASE Asked[a] = << >>
      BY <3>1 DEF Limit
    <3>2. CASE Asked[a] # << >>
      BY <2>1, <2>3, <3>2, LimitFacts
    <3> QED
      BY <3>1, <3>2
  <2>8. ToolMessages(a) = Results(a, SubSeq(Asked[a], 1, n))
    BY <2>1 DEF ToolMessages
  <2> HIDE DEF a, n, First
  <2>9. Together(upTo[k - 1] \o Results(a, SubSeq(Asked[a], 1, n)), Asked, First(k - 1) \cup {a})
    BY <1>6, <2>1, <2>3, <2>4, <2>6, <2>7, TogetherGrows
  <2>10. upTo[k] = upTo[k - 1] \o Results(a, SubSeq(Asked[a], 1, n))
    BY <1>5, <2>8 DEF a
  <2> QED
    BY <2>5, <2>9, <2>10
<1>7. Together(upTo[0], Asked, First(0))
  <2>1. First(0) = {}
    OBVIOUS
  <2> QED
    BY <1>5, <2>1, TogetherEmpty
<1> HIDE DEF First
<1>8. T = {}
  <2>1. SUFFICES ASSUME T # {} PROVE FALSE
    OBVIOUS
  <2>2. T \in SUBSET Nat
    BY <1>1
  <2>3. PICK k \in T : \A j \in T : k <= j
    BY <2>1, <2>2, LeastElement
  <2>4. k \in 0 .. Len(keys) /\ ~Together(upTo[k], Asked, First(k))
    BY <2>3
  <2>5. k # 0
    BY <1>7, <2>4
  <2>6. k \in 1 .. Len(keys) /\ k - 1 \in 0 .. Len(keys) /\ ~(k <= k - 1)
    BY <1>1, <2>4, <2>5
  <2>7. Together(upTo[k - 1], Asked, First(k - 1))
    BY <2>3, <2>6
  <2> QED
    BY <1>6, <2>4, <2>6, <2>7
<1>9. Together(upTo[Len(keys)], Asked, First(Len(keys)))
  BY <1>1, <1>8
<1> QED
  BY <1>4, <1>9 DEF Elements, First

-----------------------------------------------------------------------------
(***************************************************************************)
(* fanout_fn after run_branches, join_fn and the next agent                *)
(***************************************************************************)
\* A step of the engine leaves the branches alone.
LEMMA BranchesAlone ==
  ASSUME ConcurrentInv, UNCHANGED branchVars
  PROVE  /\ PoolInv' /\ CollectedInv' /\ NamesInv' /\ CompletionInv' /\ BoundInv'
         /\ TypeOKRun' => TypeOK'
<1>1. UNCHANGED << poolVars, next, caller, result, order, keys, kept, completed >>
  BY DEF branchVars
<1>2. UNCHANGED << fut, early, notified, yielded >>
  BY <1>1 DEF poolVars
<1>3. Done' = Done /\ Busy' = Busy
  BY <1>2 DEF Done, Busy
<1>4. PoolInv'
  BY <1>1, PoolUnchanged DEF ConcurrentInv
<1>5. CollectedInv' /\ NamesInv' /\ CompletionInv'
  BY <1>1, <1>2, <1>3, CollectedAlone, NamesAlone, CompletionAlone DEF ConcurrentInv
<1>6. BoundInv'
  BY <1>3 DEF ConcurrentInv, BoundInv, CrossParallelism
<1>7. TypeOKRun' => TypeOK'
  BY <1>1, <1>4 DEF ConcurrentInv, TypeOK, PoolInv
<1> QED
  BY <1>4, <1>5, <1>6, <1>7

\* A step of the engine after the fan-out.
LEMMA OnwardKeeps ==
  ASSUME ConcurrentInv, UNCHANGED branchVars, TypeOKRun', PendingMatchesNode',
         node # Fanout, node' # Fanout
  PROVE  ConcurrentInv'
<1>1. /\ UNCHANGED << caller, fut, yielded >>
  BY DEF branchVars, poolVars
<1>2. PhaseInv'
  BY <1>1 DEF ConcurrentInv, PhaseInv, AllSubmitted, AllDone, Done, InFanout
<1> QED
  BY <1>2, BranchesAlone DEF ConcurrentInv

\* An exception leaves the rest of the run as it is.
LEMMA RaisedKeeps ==
  ASSUME ConcurrentInv, Raised
  PROVE  TypeOKRun' /\ PendingMatchesNode'
<1>1. outcome' \in Errors /\ UNCHANGED << messages, toolCalls, steps, finish, node, ran >>
  BY DEF Raised
<1>2. outcome' # "running"
  BY <1>1 DEF Errors
<1> QED
  BY <1>1, <1>2 DEF ConcurrentInv, TypeOK, TypeOKRun, PendingMatchesNode, Running

LEMMA FanoutReturnsKeeps ==
  ASSUME ConcurrentInv, FanoutReturns
  PROVE  ConcurrentInv'
<1>1. /\ InFanout /\ caller = "collecting" /\ Len(yielded) = N /\ AllDone
      /\ messages' = messages \o AllToolMessages
      /\ caller' = "left" /\ Goto(Join)
      /\ UNCHANGED << toolCalls, steps, finish, poolVars, next, result, order, keys, kept, completed >>
  BY DEF FanoutReturns
<1>2. UNCHANGED << fut, early, notified, yielded >>
  BY <1>1 DEF poolVars
<1>3. Done' = Done /\ Busy' = Busy
  BY <1>2 DEF Done, Busy
<1>4. /\ messages \in Seq(Message) /\ Len(messages) > 0 /\ Len(messages) \in Nat
      /\ toolCalls \in Seq(Tools) /\ toolCalls = << >>
      /\ steps \in Nat /\ finish \in [reason : Reasons, of : Nat]
      /\ ran \in 0 .. RecursionLimit /\ ran < RecursionLimit
  BY <1>1 DEF ConcurrentInv, TypeOK, TypeOKRun, PendingMatchesNode, PhaseInv, InFanout
<1>5. AllToolMessages \in Seq(Message)
  BY AllToolMessagesTogether DEF ConcurrentInv, Together
<1>6. messages' \in Seq(Message) /\ Len(messages') > 0
  <2>1. Len(AllToolMessages) \in Nat
    BY <1>5
  <2> QED
    BY <1>1, <1>4, <1>5, <2>1, ConcatFacts
<1>7. Join \in Nodes /\ Join.fn # "tools" /\ Join # End /\ Join # Fanout
  BY FanoutNodes DEF PlainNodes
<1>8. /\ node' = Join /\ ran' \in 0 .. RecursionLimit
      /\ outcome' \in {"running", "done", "recursion"}
      /\ outcome' = "running" => ran' < RecursionLimit
  BY <1>1, <1>4, <1>7, GotoFacts
<1>9. TypeOKRun'
  BY <1>1, <1>4, <1>6, <1>7, <1>8 DEF TypeOKRun, Errors
<1>10. PendingMatchesNode'
  BY <1>1, <1>4, <1>7, <1>8 DEF PendingMatchesNode, Running
<1>11. PoolInv'
  BY <1>1, PoolUnchanged DEF ConcurrentInv
<1>12. TypeOK'
  BY <1>1, <1>9, <1>11 DEF ConcurrentInv, TypeOK, PoolInv
<1>13. PhaseInv'
  BY <1>1, <1>2, <1>7, <1>8 DEF ConcurrentInv, PhaseInv, AllSubmitted, AllDone, Done
<1>14. CollectedInv'
  BY <1>1, <1>2, <1>3 DEF ConcurrentInv, CollectedInv, Failed
<1>15. NamesInv' /\ CompletionInv'
  BY <1>1, <1>2, <1>3, NamesAlone, CompletionAlone DEF ConcurrentInv
<1>16. BoundInv'
  BY <1>3 DEF ConcurrentInv, BoundInv, CrossParallelism
<1> QED
  BY <1>10, <1>11, <1>12, <1>13, <1>14, <1>15, <1>16 DEF ConcurrentInv

LEMMA FanoutRaisesKeeps ==
  ASSUME ConcurrentInv, FanoutRaises
  PROVE  ConcurrentInv'
<1>1. /\ InFanout /\ caller = "raising" /\ AllDone
      /\ Raise(result[yielded[Len(yielded)]].kind)
      /\ UNCHANGED << messages, toolCalls, steps, finish, branchVars >>
  BY DEF FanoutRaises
<1>2. result[yielded[Len(yielded)]].kind \in Failures
  BY <1>1 DEF ConcurrentInv, CollectedInv, Failed
<1>3. Raised
  BY <1>1, <1>2 DEF Raised, Raise, Failures, Errors
<1>4. UNCHANGED << caller, fut, yielded, messages, toolCalls, node >>
  BY <1>1, <1>3 DEF branchVars, poolVars, Raised
<1>5. PhaseInv'
  BY <1>1, <1>4 DEF ConcurrentInv, PhaseInv, AllSubmitted, AllDone, Done
<1> QED
  BY <1>1, <1>3, <1>5, RaisedKeeps, BranchesAlone DEF ConcurrentInv

\* What join_fn appends: the merged text, or the message of the branch that was first.
LEMMA MergedFacts ==
  ASSUME ConcurrentInv, node = Join
  PROVE  Merged \in Message /\ IsAssistant(Merged)
<1>1. caller = "left" /\ Len(yielded) = N
  BY FanoutNodes DEF ConcurrentInv, PhaseInv
<1>2. yielded \in Seq(Jobs) /\ 1 \in 1 .. Len(yielded)
  BY <1>1, BranchFacts DEF ConcurrentInv, PoolInv, PoolTypeOK
<1> DEFINE a == order[1]
           r == result[kept[a]]
<1>3. a = Branches[yielded[1]] /\ a \in Agents
  BY <1>2, BranchFacts DEF ConcurrentInv, NamesInv
<1>4. kept[a] # 0
  BY <1>1, <1>2, <1>3 DEF ConcurrentInv, CollectedInv
<1>5. kept[a] \in Done /\ ~Failed(kept[a])
  BY <1>3, <1>4, HandedAreDone DEF ConcurrentInv, CollectedInv
<1>6. /\ r \in [kind : {"none", "reply", "refusal"} \cup Failures, calls : Seq(Tools)]
      /\ r.kind # "none"
  BY <1>5 DEF ConcurrentInv, TypeOK, CollectedInv, Done
<1>7. r.kind \notin Failures
  BY <1>5 DEF Failed
<1>8. r.kind \in {"reply", "refusal"} /\ r.calls \in Seq(Tools)
  BY <1>6, <1>7
<1> HIDE DEF a, r
<1>9. FirstFinish \in Message /\ IsAssistant(FirstFinish)
  BY <1>3, <1>8 DEF FirstFinish, AssistantMessage, Message, Kinds, IsAssistant, a, r
<1>10. Aggregate \in Message /\ IsAssistant(Aggregate)
  BY DEF Aggregate, AssistantMessage, Message, Kinds, IsAssistant
<1> QED
  BY <1>9, <1>10 DEF Merged

\* The graph has at most one next agent.
LEMMA NextFacts ==
  ASSUME ConcurrentInv
  PROVE  next \in SUBSET Agents
<1>1. next \in NextChoices
  BY DEF ConcurrentInv, TypeOK
<1>2. next = {} \/ \E a \in Agents : next = {a}
  BY <1>1, ConcurrentAssumption
<1> QED
  BY <1>2

LEMMA JoinEffect ==
  ASSUME ConcurrentInv, JoinFn
  PROVE  /\ Running /\ node = Join
         /\ messages' = Append(messages, Merged)
         /\ UNCHANGED << toolCalls, steps, finish, branchVars >>
         /\ \E n \in PlainNodes : n # Fanout /\ n # Join /\ Goto(n)
<1>1. PICK n \in (IF next # {} THEN {AgentNode(a) : a \in next} ELSE {End}) : Goto(n)
  BY DEF JoinFn
<1>2. n \in PlainNodes /\ n # Fanout /\ n # Join
  <2>1. CASE n = End
    BY <2>1, NodeFacts, FanoutNodes
  <2>2. CASE n \in {AgentNode(a) : a \in next}
    BY <2>2, NextFacts, NodeFacts, FanoutNodes
  <2> QED
    BY <1>1, <2>1, <2>2
<1>3. /\ Running /\ node = Join /\ messages' = Append(messages, Merged)
      /\ UNCHANGED << toolCalls, steps, finish, branchVars >>
  BY DEF JoinFn
<1> QED
  BY <1>1, <1>2, <1>3

LEMMA JoinFnKeeps ==
  ASSUME ConcurrentInv, JoinFn
  PROVE  ConcurrentInv' /\ node' # Fanout /\ node' # Join
<1>1. /\ Running /\ node = Join
      /\ messages' = Append(messages, Merged)
      /\ UNCHANGED << toolCalls, steps, finish, branchVars >>
  BY JoinEffect
<1>2. PICK n \in PlainNodes : n # Fanout /\ n # Join /\ Goto(n)
  BY JoinEffect
<1>3. n \in Nodes /\ n.fn # "tools"
  BY DEF PlainNodes
<1>4. /\ messages \in Seq(Message) /\ toolCalls \in Seq(Tools) /\ steps \in Nat
      /\ finish \in [reason : Reasons, of : Nat]
      /\ ran \in 0 .. RecursionLimit /\ ran < RecursionLimit
  BY <1>1 DEF ConcurrentInv, TypeOK, TypeOKRun, PendingMatchesNode
<1>5. toolCalls = << >>
  BY <1>1, FanoutNodes DEF ConcurrentInv, PendingMatchesNode, PlainNodes
<1>6. messages' \in Seq(Message) /\ Len(messages') > 0
  BY <1>1, <1>4, MergedFacts
<1>7. /\ node' = n /\ ran' \in 0 .. RecursionLimit
      /\ outcome' \in {"running", "done", "recursion"}
      /\ outcome' = "running" => n # End /\ ran' < RecursionLimit
  BY <1>2, <1>3, <1>4, GotoFacts
<1>8. TypeOKRun'
  BY <1>1, <1>3, <1>4, <1>6, <1>7 DEF TypeOKRun, Errors
<1>9. PendingMatchesNode'
  BY <1>1, <1>3, <1>5, <1>7 DEF PendingMatchesNode, Running
<1>10. node # Fanout /\ node' # Fanout /\ node' # Join
  BY <1>1, <1>2, <1>7, FanoutNodes
<1> QED
  BY <1>1, <1>8, <1>9, <1>10, OnwardKeeps

\* A turn of the next agent.
LEMMA NextAgentEffect ==
  ASSUME ConcurrentInv, NEW a \in next, NextAgentFn(a)
  PROVE  /\ a \in Agents /\ Running /\ node = AgentNode(a) /\ UNCHANGED branchVars
         /\ \/ Raised
            \/ \E m \in Message, n \in Nodes : Turned(a, {End}, m, n)
<1>1. a \in Agents
  BY NextFacts
<1>2. steps \in Nat /\ {End} \in SUBSET PlainNodes
  BY NodeFacts DEF ConcurrentInv, TypeOK, TypeOKRun
<1>3. \/ BlockedTurn(a, {End}) \/ ChatTurn(a, {End})
      \/ Raise("model") /\ UNCHANGED << messages, toolCalls, steps, finish >>
  BY DEF NextAgentFn
<1>4. \/ Raised
      \/ \E m \in Message, n \in Nodes : Turned(a, {End}, m, n)
  <2>1. CASE BlockedTurn(a, {End}) \/ ChatTurn(a, {End})
    BY <1>1, <1>2, <2>1, TurnEffect
  <2>2. CASE Raise("model") /\ UNCHANGED << messages, toolCalls, steps, finish >>
    BY <2>2 DEF Raise, Raised, Errors
  <2> QED
    BY <1>3, <2>1, <2>2
<1> QED
  BY <1>1, <1>4 DEF NextAgentFn

LEMMA NextAgentFnKeeps ==
  ASSUME ConcurrentInv, NEW a \in next, NextAgentFn(a)
  PROVE  ConcurrentInv' /\ node' # Fanout /\ node' # Join
<1>1. /\ a \in Agents /\ Running /\ node = AgentNode(a) /\ UNCHANGED branchVars
      /\ \/ Raised
         \/ \E m \in Message, n \in Nodes : Turned(a, {End}, m, n)
  BY NextAgentEffect
<1>2. node # Fanout /\ node # Join /\ node.fn # "tools" /\ TypeOKRun /\ PendingMatchesNode
  BY <1>1, FanoutNodes DEF ConcurrentInv, TypeOK, AgentNode
<1>3. CASE Raised
  <2>1. node' = node
    BY <1>3 DEF Raised
  <2> QED
    BY <1>1, <1>2, <1>3, <2>1, RaisedKeeps, OnwardKeeps
<1>4. ASSUME NEW m \in Message, NEW n \in Nodes, Turned(a, {End}, m, n)
      PROVE  ConcurrentInv' /\ node' # Fanout /\ node' # Join
  <2>1. {End} \in SUBSET PlainNodes
    BY NodeFacts
  <2>2. TypeOKRun' /\ PendingMatchesNode'
    BY <1>1, <1>2, <1>4, <2>1, TurnedCore
  <2>3. node' \in {ToolsNode(a), End}
    BY <1>4 DEF Turned, Goto
  <2>4. node' # Fanout /\ node' # Join
    BY <1>1, <2>3, FanoutNodes
  <2> QED
    BY <1>1, <1>2, <2>2, <2>4, OnwardKeeps
<1> QED
  BY <1>1, <1>3, <1>4

LEMMA NextToolsFnKeeps ==
  ASSUME ConcurrentInv, NEW a \in next, NextToolsFn(a)
  PROVE  ConcurrentInv' /\ node' # Fanout /\ node' # Join
<1>1. a \in Agents /\ ToolsFn(a, AgentNode(a)) /\ UNCHANGED branchVars /\ node = ToolsNode(a)
  BY NextFacts DEF NextToolsFn, ToolsFn
<1>2. TypeOKRun /\ PendingMatchesNode /\ AgentNode(a) \in PlainNodes
  BY <1>1, NodeFacts DEF ConcurrentInv, TypeOK
<1>3. TypeOKRun' /\ PendingMatchesNode'
  BY <1>1, <1>2, ToolsCore
<1>4. node' \in {node, AgentNode(a)}
  BY <1>1, <1>2, ToolsFnEffect DEF Goto
<1>5. node # Fanout /\ node' # Fanout /\ node' # Join
  BY <1>1, <1>4, FanoutNodes
<1> QED
  BY <1>1, <1>3, <1>5, OnwardKeeps

-----------------------------------------------------------------------------
(***************************************************************************)
(* The theorems                                                            *)
(***************************************************************************)
\* The invariant holds in every run, whatever the branches do and whenever.
THEOREM ConcurrentInvariance == Spec => []ConcurrentInv
<1>1. ConcurrentInv /\ [Next]_vars => ConcurrentInv'
  <2> SUFFICES ASSUME ConcurrentInv, [Next]_vars PROVE ConcurrentInv'
    OBVIOUS
  <2>1. CASE UNCHANGED vars
    <3>1. UNCHANGED runVars /\ UNCHANGED branchVars
      BY <2>1 DEF vars
    <3>2. UNCHANGED << caller, fut, early, notified, yielded, messages, toolCalls, node, outcome >>
      BY <3>1 DEF branchVars, poolVars, runVars
    <3>3. PhaseInv
      BY DEF ConcurrentInv
    <3>4. PhaseInv'
      BY <3>2, <3>3 DEF PhaseInv, AllSubmitted, AllDone, Done, InFanout, Running, NotAwaited
    <3> QED
      BY <3>1, <3>4, EngineAlone, BranchesAlone DEF ConcurrentInv
  <2>2. ASSUME NEW i \in Jobs, SubmitBranch(i) \/ CollectBranch(i) PROVE ConcurrentInv'
    BY <2>2, SubmitBranchKeeps, CollectBranchKeeps
  <2>3. ASSUME NEW i \in Jobs, BranchThread(i) PROVE ConcurrentInv'
    BY <2>3, BranchStartsKeeps, BranchEndsKeeps DEF BranchThread
  <2>4. ASSUME NEW a \in next, NextAgentFn(a) \/ NextToolsFn(a) PROVE ConcurrentInv'
    BY <2>4, NextAgentFnKeeps, NextToolsFnKeeps
  <2> QED
    BY <2>1, <2>2, <2>3, <2>4, CallAsCompletedKeeps, FanoutReturnsKeeps, FanoutRaisesKeeps, JoinFnKeeps
    DEF Next, EngineStep
<1> QED
  BY <1>1, ConcurrentInit, PTL DEF Spec

(***************************************************************************)
(* The tools node of the next agent is due exactly when that agent left    *)
(* calls pending; the calls of the merged message never are.               *)
(***************************************************************************)
THEOREM PendingCorrect == Spec => []PendingMatchesNode
<1>1. ConcurrentInv => PendingMatchesNode
  BY DEF ConcurrentInv
<1> QED
  BY <1>1, ConcurrentInvariance, PTL

(***************************************************************************)
(* The smallest parallelism of the branches bounds how many run at once,   *)
(* so no branch ever runs beside more than it allows.                      *)
(***************************************************************************)
THEOREM BranchesBounded == Spec => []BoundedBranches
<1>1. ConcurrentInv => BoundedBranches
  <2> SUFFICES ASSUME ConcurrentInv, NEW i \in Jobs
               PROVE  Cardinality(Busy) <=
                        IF Parallelism[Branches[i]] > 1 THEN Parallelism[Branches[i]] ELSE 1
    BY DEF BoundedBranches
  <2> DEFINE bound == IF Parallelism[Branches[i]] > 1 THEN Parallelism[Branches[i]] ELSE 1
  <2>1. Cardinality(Busy) <= CrossParallelism /\ CrossParallelism <= bound
    BY CrossFacts DEF ConcurrentInv, BoundInv
  <2>2. bound \in Int
    BY BranchFacts
  <2> HIDE DEF bound
  <2>3. Cardinality(Busy) <= bound
    BY <2>1, <2>2, CrossFacts, BusyFacts
  <2> QED
    BY <2>3 DEF bound
<1> QED
  BY <1>1, ConcurrentInvariance, PTL

(***************************************************************************)
(* Out of the fan-out comes all or nothing, and nothing runs on behind it. *)
(***************************************************************************)
THEOREM FanoutAtomic == Spec => []FanoutIsAtomic
<1>1. ConcurrentInv => FanoutIsAtomic
  <2> SUFFICES ASSUME ConcurrentInv PROVE FanoutIsAtomic
    OBVIOUS
  <2>1. TypeOK
    BY DEF ConcurrentInv
  <2>2. ASSUME ~InFanout PROVE AllDone
    BY <2>2 DEF ConcurrentInv, PhaseInv
  <2>3. ASSUME node = Fanout PROVE messages = << Input >>
    BY <2>3 DEF ConcurrentInv, PhaseInv
  <2>4. ASSUME node # Fanout, NEW i \in Jobs PROVE ~Failed(i) /\ kept[Branches[i]] # 0
    <3>1. caller = "left" /\ Len(yielded) = N
      BY <2>4 DEF ConcurrentInv, PhaseInv
    <3>2. yielded \in Seq(Jobs) /\ Distinct(yielded)
      BY DEF ConcurrentInv, PoolInv, PoolTypeOK
    <3>3. PICK k \in 1 .. Len(yielded) : yielded[k] = i
      BY <3>1, <3>2, AllHandedOut
    <3> QED
      BY <3>1, <3>3 DEF ConcurrentInv, CollectedInv
  <2> QED
    BY <2>1, <2>2, <2>3, <2>4 DEF FanoutIsAtomic
<1> QED
  BY <1>1, ConcurrentInvariance, PTL

(***************************************************************************)
(* finished_order is the order of completion, for the branches that        *)
(* completed once as_completed was waiting for them.                       *)
(***************************************************************************)
THEOREM OrderFaithful == Spec => []OrderFaithfulOnceAwaited
<1>1. ConcurrentInv => OrderFaithfulOnceAwaited
  <2> SUFFICES ASSUME ConcurrentInv, NEW k \in 1 .. Len(yielded), NEW l \in 1 .. Len(yielded),
                      k < l, yielded[l] \notin early
               PROVE  \E m, n \in 1 .. Len(completed) :
                        m < n /\ completed[m] = yielded[k] /\ completed[n] = yielded[l]
    BY DEF OrderFaithfulOnceAwaited
  <2> DEFINE c == Cardinality(early)
  <2>1. c \in Nat
    BY EarlyFirst DEF ConcurrentInv
  <2>2. PICK e \in 0 .. Len(completed) : NotifiedFrom(e)
    BY DEF ConcurrentInv, CompletionInv
  <2>3. /\ yielded \in Seq(Jobs) /\ Len(yielded) \in Nat
        /\ notified \in Seq(Jobs) /\ Len(notified) \in Nat
        /\ completed \in Seq(Jobs) /\ Len(completed) \in Nat
    BY DEF ConcurrentInv, TypeOK, PoolTypeOK
  <2>4. e \in Nat /\ e + Len(notified) <= Len(completed)
    BY <2>2, <2>3 DEF NotifiedFrom
  <2>5. ASSUME NEW j \in 1 .. Len(yielded)
        PROVE  IF j <= c THEN yielded[j] \in early
               ELSE j - c \in 1 .. Len(notified) /\ yielded[j] = notified[j - c]
    <3>1. IF j <= c THEN yielded[j] \in early
          ELSE j - c <= Len(notified) /\ yielded[j] = notified[j - c]
      BY DEF ConcurrentInv, PoolInv, HandedInTurn
    <3>2. ~(j <= c) /\ j - c <= Len(notified) => j - c \in 1 .. Len(notified)
      BY <2>1, <2>3
    <3> QED
      BY <3>1, <3>2
  <2> HIDE DEF c
  <2>6. ~(l <= c) /\ l - c \in 1 .. Len(notified) /\ yielded[l] = notified[l - c]
    BY <2>5
  <2> DEFINE n == e + (l - c)
  <2>7. n \in 1 .. Len(completed) /\ n > e /\ completed[n] = yielded[l]
    <3>1. n \in 1 .. Len(completed) /\ n > e
      BY <2>3, <2>4, <2>6
    <3>2. completed[n] = notified[l - c]
      BY <2>2, <2>6 DEF NotifiedFrom
    <3> QED
      BY <2>6, <3>1, <3>2
  <2>8. CASE k <= c
    <3>1. yielded[k] \in early
      BY <2>5, <2>8
    <3>2. PICK m \in 1 .. e : completed[m] = yielded[k]
      BY <2>2, <3>1 DEF NotifiedFrom
    <3>3. m \in 1 .. Len(completed) /\ m < n
      <4> HIDE DEF n
      <4> QED
        BY <2>3, <2>4, <2>7
    <3> QED
      BY <2>7, <3>2, <3>3
  <2>9. CASE ~(k <= c)
    <3>1. k - c \in 1 .. Len(notified) /\ yielded[k] = notified[k - c]
      BY <2>5, <2>9
    <3>2. completed[e + (k - c)] = yielded[k]
      BY <2>2, <3>1 DEF NotifiedFrom
    <3>3. e + (k - c) \in 1 .. Len(completed) /\ e + (k - c) < n
      BY <2>1, <2>3, <2>4, <3>1
    <3> QED
      BY <2>7, <3>2, <3>3
  <2> QED
    BY <2>8, <2>9
<1> QED
  BY <1>1, ConcurrentInvariance, PTL

(***************************************************************************)
(* The blocks stay at the head of the transcript, behind the input,        *)
(* and what follows them is not a tool message.                            *)
(***************************************************************************)
FirstResults(msgs, n) == [p \in 1 .. n |-> msgs[p + 1]]

BlocksHeld(msgs, n) ==
  /\ Together(FirstResults(msgs, n), Asked, Elements(keys))
  /\ Len(msgs) > n + 1 => msgs[n + 2].kind # "tool"

BlocksInv ==
  caller = "left" =>
    \E n \in 0 .. Len(messages) - 1 :
      /\ BlocksHeld(messages, n)
      /\ Len(messages) = n + 1 => node = Join \/ ~Running

\* A transcript that only grows keeps its head.
LEMMA HeadKept ==
  ASSUME NEW s \in Seq(Message), NEW t \in Seq(Message), Len(t) >= Len(s),
         \A p \in 1 .. Len(s) : t[p] = s[p], NEW n \in 0 .. Len(s) - 1
  PROVE  FirstResults(t, n) = FirstResults(s, n)
<1>1. \A p \in 1 .. n : p + 1 \in 1 .. Len(s)
  OBVIOUS
<1>2. \A p \in 1 .. n : t[p + 1] = s[p + 1]
  BY <1>1
<1> QED
  BY <1>2 DEF FirstResults

\* What a step after the fan-out does to the transcript.
LEMMA BlocksKept ==
  ASSUME ConcurrentInv, BlocksInv, UNCHANGED branchVars, caller = "left",
         messages' \in Seq(Message), Len(messages') >= Len(messages),
         \A p \in 1 .. Len(messages) : messages'[p] = messages[p],
         Len(messages') > Len(messages) =>
           messages'[Len(messages) + 1].kind # "tool" \/ (Running /\ node # Join),
         Len(messages') > Len(messages) \/ (Running' => Running /\ node # Join)
  PROVE  BlocksInv'
<1>1. UNCHANGED << caller, keys, result, kept >>
  BY DEF branchVars
<1>2. messages \in Seq(Message) /\ Len(messages) \in Nat /\ Len(messages) > 0 /\ Len(messages') \in Nat
  BY DEF ConcurrentInv, TypeOK, TypeOKRun
<1>3. PICK n \in 0 .. Len(messages) - 1 :
        /\ BlocksHeld(messages, n)
        /\ Len(messages) = n + 1 => node = Join \/ ~Running
  BY DEF BlocksInv
<1>4. FirstResults(messages', n) = FirstResults(messages, n)
  BY <1>2, HeadKept
<1>5. Together(FirstResults(messages', n), Asked, Elements(keys))
  BY <1>3, <1>4 DEF BlocksHeld
<1>6. n \in 0 .. Len(messages') - 1 /\ n \in Nat
  BY <1>2
<1>7. ASSUME Len(messages') > n + 1 PROVE messages'[n + 2].kind # "tool"
  <2>1. CASE Len(messages) = n + 1
    <3>1. n + 2 = Len(messages) + 1 /\ Len(messages') > Len(messages)
      BY <1>6, <1>7, <2>1
    <3> QED
      BY <1>3, <2>1, <3>1
  <2>2. CASE Len(messages) # n + 1
    <3>1. Len(messages) > n + 1 /\ n + 2 \in 1 .. Len(messages)
      BY <1>2, <1>6, <2>2
    <3> QED
      BY <1>3, <3>1 DEF BlocksHeld
  <2> QED
    BY <2>1, <2>2
<1>8. ASSUME Len(messages') = n + 1 PROVE ~Running'
  <2>1. Len(messages) = n + 1 /\ ~(Len(messages') > Len(messages))
    BY <1>2, <1>6, <1>8
  <2> QED
    BY <1>3, <2>1
<1>9. Asked' = Asked /\ Elements(keys)' = Elements(keys)
  BY <1>1 DEF Asked, Elements
<1>10. BlocksHeld(messages, n)'
  BY <1>5, <1>7, <1>9 DEF BlocksHeld
<1> QED
  BY <1>6, <1>8, <1>10 DEF BlocksInv

\* The blocks are there when the fan-out is left.
LEMMA FanoutBlocks ==
  ASSUME ConcurrentInv, FanoutReturns
  PROVE  BlocksInv'
<1> DEFINE M == AllToolMessages
           n == Len(M)
<1>1. /\ node = Fanout /\ messages' = messages \o M /\ Goto(Join)
      /\ UNCHANGED << result, keys, kept >>
  BY DEF FanoutReturns, InFanout
<1>2. Together(M, Asked, Elements(keys)) /\ M \in Seq(Message) /\ n \in Nat
  BY AllToolMessagesTogether DEF ConcurrentInv, Together
<1>3. messages = << Input >> /\ messages \in Seq(Message) /\ Len(messages) = 1
  BY <1>1 DEF ConcurrentInv, PhaseInv, TypeOK, TypeOKRun
<1> HIDE DEF M
<1>4. Len(messages') = n + 1 /\ \A p \in 1 .. n : messages'[p + 1] = M[p]
  <2>1. \A p \in 1 .. n : 1 + p = p + 1
    BY <1>2
  <2>2. \A p \in 1 .. n : messages'[1 + p] = M[p]
    BY <1>1, <1>2, <1>3, ConcatFacts
  <2>3. Len(messages') = 1 + n
    BY <1>1, <1>2, <1>3, ConcatFacts
  <2> QED
    BY <1>2, <2>1, <2>2, <2>3
<1>5. FirstResults(messages', n) = M
  <2>1. M = [p \in 1 .. n |-> M[p]]
    BY <1>2
  <2> HIDE DEF n
  <2> QED
    BY <1>4, <2>1 DEF FirstResults
<1>6. Asked' = Asked /\ Elements(keys)' = Elements(keys)
  BY <1>1 DEF Asked, Elements
<1>7. ASSUME NEW l \in Nat, l = n
      PROVE  BlocksInv'
  <2>1. BlocksHeld(messages, l)'
    BY <1>2, <1>4, <1>5, <1>6, <1>7 DEF BlocksHeld
  <2>2. l \in 0 .. Len(messages') - 1 /\ node' = Join
    BY <1>1, <1>4, <1>7 DEF Goto
  <2> QED
    BY <2>1, <2>2 DEF BlocksInv
<1> QED
  BY <1>2, <1>7

LEMMA BlocksNext ==
  ASSUME ConcurrentInv, BlocksInv, [Next]_vars
  PROVE  BlocksInv'
<1>1. messages \in Seq(Message) /\ Len(messages) \in Nat
  BY DEF ConcurrentInv, TypeOK, TypeOKRun
<1>2. caller = "left" <=> node # Fanout
  BY DEF ConcurrentInv, PhaseInv
<1>3. CASE UNCHANGED vars
  <2>1. UNCHANGED << messages, node, outcome, caller, result, keys, kept >>
    BY <1>3 DEF vars, runVars, branchVars
  <2> QED
    BY <2>1 DEF BlocksInv, BlocksHeld, Asked, Elements, Running
<1>4. ASSUME caller' # "left" PROVE BlocksInv'
  BY <1>4 DEF BlocksInv
<1>5. ASSUME NEW i \in Jobs, SubmitBranch(i) \/ CollectBranch(i) PROVE BlocksInv'
  <2>1. caller # "left" /\ caller' # "left"
    BY <1>5 DEF SubmitBranch, CollectBranch
  <2> QED
    BY <1>4, <2>1
<1>6. ASSUME NEW i \in Jobs, BranchThread(i) PROVE BlocksInv'
  <2>1. fut[i] \in {"queued", "running"} /\ UNCHANGED caller
    BY <1>6 DEF BranchThread, BranchStarts, BranchEnds, Take
  <2>2. caller # "left"
    BY <1>2, <2>1, BusyInFanout DEF InFanout
  <2> QED
    BY <1>4, <2>1, <2>2
<1>7. CASE CallAsCompleted \/ FanoutRaises
  <2>1. caller' # "left"
    BY <1>7 DEF CallAsCompleted, FanoutRaises, branchVars
  <2> QED
    BY <1>4, <2>1
<1>8. CASE JoinFn
  <2>1. messages' = Append(messages, Merged) /\ node = Join /\ UNCHANGED branchVars
    BY <1>8, JoinEffect
  <2>2. Merged \in Message /\ Merged.kind # "tool"
    BY <2>1, MergedFacts DEF IsAssistant
  <2>3. caller = "left"
    BY <1>2, <2>1, FanoutNodes
  <2>4. /\ messages' \in Seq(Message) /\ Len(messages') = Len(messages) + 1
        /\ \A p \in 1 .. Len(messages) : messages'[p] = messages[p]
        /\ messages'[Len(messages) + 1] = Merged
    BY <1>1, <2>1, <2>2, AppendFacts
  <2>5. Len(messages') >= Len(messages) /\ Len(messages') > Len(messages)
    BY <1>1, <2>4
  <2> QED
    BY <2>1, <2>2, <2>3, <2>4, <2>5, BlocksKept
<1>9. ASSUME NEW a \in next, NextAgentFn(a) PROVE BlocksInv'
  <2>1. /\ a \in Agents /\ Running /\ node = AgentNode(a) /\ UNCHANGED branchVars
        /\ \/ Raised
           \/ \E m \in Message, n \in Nodes : Turned(a, {End}, m, n)
    BY <1>9, NextAgentEffect
  <2>2. node # Join /\ caller = "left"
    BY <1>2, <2>1, FanoutNodes
  <2>3. CASE Raised
    <3>1. UNCHANGED messages /\ ~Running'
      BY <2>3 DEF Raised, Running, Errors
    <3>2. Len(messages') >= Len(messages)
      BY <1>1, <3>1
    <3> QED
      BY <1>1, <2>1, <2>2, <3>1, <3>2, BlocksKept
  <2>4. ASSUME NEW m \in Message, NEW n \in Nodes, Turned(a, {End}, m, n) PROVE BlocksInv'
    <3>1. messages' = Append(messages, m) /\ m.kind # "tool"
      BY <2>4 DEF Turned, IsAssistant
    <3>2. /\ messages' \in Seq(Message) /\ Len(messages') = Len(messages) + 1
          /\ \A p \in 1 .. Len(messages) : messages'[p] = messages[p]
          /\ messages'[Len(messages) + 1] = m
      BY <1>1, <3>1, AppendFacts
    <3>3. Len(messages') >= Len(messages) /\ Len(messages') > Len(messages)
      BY <1>1, <3>2
    <3> QED
      BY <2>1, <2>2, <3>1, <3>2, <3>3, BlocksKept
  <2> QED
    BY <2>1, <2>3, <2>4
<1>10. ASSUME NEW a \in next, NextToolsFn(a) PROVE BlocksInv'
  <2>1. /\ a \in Agents /\ ToolsFn(a, AgentNode(a)) /\ UNCHANGED branchVars
        /\ Running /\ node = ToolsNode(a)
    BY <1>10, NextFacts DEF NextToolsFn, ToolsFn
  <2>2. node # Join /\ caller = "left"
    BY <1>2, <2>1, FanoutNodes
  <2>3. \E n : Answered(a, n)
    <3>1. AgentNode(a) \in PlainNodes
      BY <2>1, NodeFacts
    <3> QED
      BY <2>1, <3>1, ToolsFnEffect DEF ConcurrentInv, TypeOK
  <2>4. Extends(messages', messages, a)
    BY <2>3 DEF Answered
  <2>5. /\ messages' \in Seq(Message) /\ Len(messages') >= Len(messages)
        /\ \A p \in 1 .. Len(messages) : messages'[p] = messages[p]
    BY <2>4 DEF Extends
  <2> QED
    BY <2>1, <2>2, <2>5, BlocksKept
<1> QED
  BY <1>3, <1>5, <1>6, <1>7, <1>8, <1>9, <1>10, FanoutBlocks DEF Next, EngineStep

(***************************************************************************)
(* In whatever order the branches complete, and however long the run goes  *)
(* on, each agent's results stay one block that answers its first calls.   *)
(***************************************************************************)
THEOREM BlocksTogether == Spec => []ToolBlocksStayTogether
<1>1. Init => BlocksInv
  BY DEF Init, BlocksInv
<1>2. ConcurrentInv /\ BlocksInv => ToolBlocksStayTogether
  <2> SUFFICES ASSUME ConcurrentInv, BlocksInv,
                      NEW p \in FanoutBlock, NEW q \in FanoutBlock,
                      p <= q, messages[q].by = messages[p].by
               PROVE  LET a == messages[p].by
                      IN  /\ \A r \in p .. q : messages[r].by = a
                          /\ (\A r \in FanoutBlock : messages[r].by = a => r >= p)
                               => LET asked == result[kept[a]].calls
                                  IN  /\ q - p + 1 \in DOMAIN asked
                                      /\ messages[q].calls[1] = asked[q - p + 1]
    BY DEF ToolBlocksStayTogether
  <2>1. messages \in Seq(Message) /\ Len(messages) \in Nat
    BY DEF ConcurrentInv, TypeOK, TypeOKRun
  <2>2. caller = "left"
    <3>1. Len(messages) >= 2
      BY <2>1 DEF FanoutBlock
    <3>2. messages = << Input >> => Len(messages) = 1
      OBVIOUS
    <3>3. messages # << Input >>
      <4>1. Len(messages) # 1
        BY <2>1, <3>1
      <4> QED
        BY <3>2, <4>1
    <3>4. PhaseInv
      BY DEF ConcurrentInv
    <3> QED
      BY <3>3, <3>4 DEF PhaseInv
  <2>3. PICK n \in 0 .. Len(messages) - 1 : BlocksHeld(messages, n)
    BY <2>2 DEF BlocksInv
  <2> DEFINE s == FirstResults(messages, n)
             a == messages[p].by
  <2>4. Together(s, Asked, Elements(keys)) /\ Len(s) = n /\ n \in Nat
    BY <2>1, <2>3 DEF BlocksHeld, FirstResults
  <2>5. \A k \in 1 .. n : s[k] = messages[k + 1]
    BY DEF FirstResults
  <2> HIDE DEF s
  <2>6. ASSUME NEW k \in FanoutBlock PROVE k \in 2 .. n + 1 /\ k - 1 \in 1 .. n
    <3>1. k \in 2 .. Len(messages) /\ \A r \in 2 .. k : messages[r].kind = "tool"
      BY DEF FanoutBlock
    <3>2. CASE k > n + 1
      <4>1. Len(messages) > n + 1 /\ n + 2 \in 2 .. k
        BY <2>1, <2>4, <3>1, <3>2
      <4> QED
        BY <2>3, <3>1, <4>1 DEF BlocksHeld
    <3>3. CASE ~(k > n + 1)
      BY <2>4, <3>1, <3>3
    <3> QED
      BY <3>2, <3>3
  <2>7. \A k \in 1 .. n : messages[k + 1].kind = "tool"
    BY <2>4, <2>5 DEF Together
  <2>8. ASSUME NEW k \in 2 .. n + 1 PROVE k \in FanoutBlock
    <3>1. k \in 2 .. Len(messages)
      BY <2>1, <2>4
    <3>2. ASSUME NEW r \in 2 .. k PROVE messages[r].kind = "tool"
      <4>1. r - 1 \in 1 .. n /\ (r - 1) + 1 = r
        BY <2>4
      <4> QED
        BY <2>7, <4>1
    <3> QED
      BY <3>1, <3>2 DEF FanoutBlock
  <2> DEFINE u == p - 1
             v == q - 1
  <2>9. /\ p \in Nat /\ q \in Nat /\ u \in 1 .. n /\ v \in 1 .. n /\ u + 1 = p /\ v + 1 = q
    <3>1. p \in 2 .. n + 1 /\ q \in 2 .. n + 1
      BY <2>6
    <3> QED
      BY <2>4, <3>1
  <2>10. u <= v /\ s[u] = messages[p] /\ s[v] = messages[q]
    BY <2>5, <2>9
  <2>11. Block(s, Asked, u, v) /\ a \in Elements(keys)
    BY <2>4, <2>9, <2>10 DEF Together
  <2>12. Asked[a] = result[kept[a]].calls
    <3>1. a \in Agents
      BY <2>11 DEF ConcurrentInv, NamesInv
    <3> QED
      BY <3>1 DEF Asked
  <2> HIDE DEF u, v, a
  <2>13. ASSUME NEW r \in p .. q PROVE messages[r].by = a
    <3>1. r - 1 \in u .. v /\ r - 1 \in 1 .. n /\ (r - 1) + 1 = r
      BY <2>4, <2>9
    <3>2. s[r - 1].by = s[u].by
      BY <2>11, <3>1 DEF Block
    <3>3. s[r - 1] = messages[r]
      BY <2>5, <3>1
    <3> QED
      BY <2>10, <3>2, <3>3 DEF a
  <2>14. ASSUME \A r \in FanoutBlock : messages[r].by = a => r >= p
         PROVE  /\ q - p + 1 \in DOMAIN Asked[a]
                /\ messages[q].calls[1] = Asked[a][q - p + 1]
    <3>1. ASSUME NEW r \in 1 .. Len(s), s[r].by = s[u].by PROVE r >= u
      <4>1. r + 1 \in 2 .. n + 1 /\ s[r] = messages[r + 1] /\ r \in Nat
        BY <2>4, <2>5
      <4>2. r + 1 \in FanoutBlock
        BY <2>8, <4>1
      <4>3. messages[r + 1].by = a
        BY <2>10, <3>1, <4>1 DEF a
      <4>4. r + 1 >= p
        BY <2>14, <4>2, <4>3
      <4> QED
        BY <2>9, <4>1, <4>4
    <3>2. s[u].by = a
      BY <2>10 DEF a
    <3>3. v - u + 1 \in DOMAIN Asked[a] /\ s[v].calls[1] = Asked[a][v - u + 1]
      BY <2>11, <3>1, <3>2 DEF Block
    <3>4. v - u + 1 = q - p + 1
      BY <2>9 DEF u, v
    <3> QED
      BY <2>10, <3>3, <3>4
  <2> QED
    BY <2>12, <2>13, <2>14 DEF a
<1> QED
  BY <1>1, <1>2, BlocksNext, ConcurrentInvariance, PTL DEF Spec

=============================================================================
