---------------------------- MODULE ToolPoolProofs ----------------------------
(***************************************************************************)
(* execute_many, proved for any number of calls, any parallelism and any   *)
(* order of its threads.                                                   *)
(***************************************************************************)
EXTENDS ToolPool, FuturePoolProofs

\* What the loop of the serial path knows: a call starts after the earlier ones were answered.
SerialInv ==
  /\ caller \in {"serial", "returned", "raised"}
  /\ \A i \in Jobs : fut[i] = "unsubmitted"
  /\ \A i, j \in Jobs : j < i /\ tool[i] # "idle" => tool[j] = "answered"
  /\ caller = "returned" => \A i \in Jobs : tool[i] = "answered"
  /\ caller = "raised" => \E i \in Jobs : tool[i] = "failed"

\* How a future and the tool its worker runs go together.
ThreadOf(i) ==
  /\ fut[i] \in {"unsubmitted", "queued"} => tool[i] = "idle"
  /\ fut[i] = "running" => tool[i] # "idle"
  /\ fut[i] = "done" => Settled(i)

\* What the pool path knows.
PooledInv ==
  /\ caller # "serial"
  /\ \A i \in Jobs : ThreadOf(i)
  /\ Cardinality(Busy) <= PoolSize
  /\ caller = "submitting" => NotAwaited
  /\ caller = "collecting" => \A i \in Elements(yielded) : tool[i] = "answered"
  /\ caller \in {"raising", "raised"} => \E i \in Jobs : tool[i] = "failed"
  /\ caller = "returned" => \A i \in Jobs : tool[i] = "answered"
  /\ Over => AllDone

(***************************************************************************)
(* None of the properties is inductive by itself.  That the running tools  *)
(* are bounded needs that each has a worker, or on the serial path that    *)
(* the one before has ended; that the results come in call order needs     *)
(* that every call was handed out once, as PoolInv says.                   *)
(***************************************************************************)
ToolPoolInv ==
  /\ TypeOK
  /\ PoolInv
  /\ caller = "returned" => out = [i \in Jobs |-> i]
  /\ Serial => SerialInv
  /\ ~Serial => PooledInv

-----------------------------------------------------------------------------
\* The pool has at least one worker, and no more than max_workers.
LEMMA PoolSizeFacts ==
  ASSUME TypeOK
  PROVE  /\ PoolSize \in Int /\ maxWorkers \in Int /\ N \in Nat /\ N > 0
         /\ ~Serial => PoolSize > 1 /\ PoolSize <= maxWorkers
BY FuturePoolAssumption, ToolPoolAssumption DEF TypeOK, PoolSize, Serial

\* Sorting the indices of all calls gives them in order.
LEMMA InOrderSorts ==
  ASSUME NEW s \in Seq(Jobs), Distinct(s), Len(s) = N
  PROVE  InOrder(s) = [i \in Jobs |-> i]
<1>1. N \in Nat /\ \A i \in Jobs : i \in Nat /\ i >= 1 /\ i <= N
  BY FuturePoolAssumption DEF Jobs
<1>2. \A i \in Jobs : \E p \in 1 .. Len(s) : s[p] = i
  BY AllHandedOut
<1>3. ASSUME NEW i \in Jobs
      PROVE  Cardinality({p \in 1 .. Len(s) : s[p] <= i}) = i
  <2> DEFINE P == {p \in 1 .. Len(s) : s[p] <= i}
             f == [p \in P |-> s[p]]
  <2>1. \A p \in 1 .. Len(s) : s[p] \in Jobs
    OBVIOUS
  <2>2. f \in Bijection(P, 1 .. i)
    <3>1. \A p \in P : s[p] \in 1 .. i
      BY <1>1, <2>1
    <3>2. f \in [P -> 1 .. i]
      BY <3>1
    <3>3. \A p, q \in P : f[p] = f[q] => p = q
      BY DEF Distinct
    <3>4. \A j \in 1 .. i : \E p \in P : f[p] = j
      <4>1. SUFFICES ASSUME NEW j \in 1 .. i PROVE \E p \in P : f[p] = j
        OBVIOUS
      <4>2. j \in Jobs /\ j <= i
        BY <1>1 DEF Jobs
      <4>3. PICK p \in 1 .. Len(s) : s[p] = j
        BY <1>2, <4>2
      <4> QED
        BY <4>2, <4>3
    <3> QED
      BY <3>2, <3>3, <3>4 DEF Bijection, Injection, Surjection, IsInjective
  <2>3. IsFiniteSet(P)
    <3>1. IsFiniteSet(1 .. Len(s)) /\ P \in SUBSET (1 .. Len(s))
      BY <1>1, FS_Interval
    <3> QED
      BY <3>1, FS_Subset
  <2>4. ExistsBijection(P, 1 .. i)
    BY <2>2 DEF ExistsBijection
  <2>5. Cardinality(1 .. i) = Cardinality(P)
    BY <2>3, <2>4, FS_Bijection
  <2>6. Cardinality(1 .. i) = i
    BY <1>1, FS_Interval
  <2> QED
    BY <2>5, <2>6
<1>4. ASSUME NEW k \in 1 .. Len(s)
      PROVE  k = CHOOSE i \in Jobs :
                   /\ \E p \in 1 .. Len(s) : s[p] = i
                   /\ Cardinality({p \in 1 .. Len(s) : s[p] <= i}) = k
  <2>1. k \in Jobs
    BY DEF Jobs
  <2>2. \A i \in Jobs :
          (/\ \E p \in 1 .. Len(s) : s[p] = i
           /\ Cardinality({p \in 1 .. Len(s) : s[p] <= i}) = k) <=> i = k
    BY <1>2, <1>3, <2>1
  <2> QED
    BY <2>1, <2>2
<1>5. InOrder(s) = [k \in 1 .. Len(s) |-> k]
  BY <1>4 DEF InOrder
<1> QED
  BY <1>5 DEF Jobs

-----------------------------------------------------------------------------
\* execute_many starts with the invariant.
LEMMA InitInv == Init => ToolPoolInv
<1> SUFFICES ASSUME Init PROVE ToolPoolInv
  OBVIOUS
<1>1. PoolInv /\ NotAwaited /\ \A i \in Jobs : fut[i] = "unsubmitted"
  BY PoolInitInv DEF Init, PoolInit
<1>2. tool \in [Jobs -> {"idle"}] /\ \A i \in Jobs : tool[i] = "idle"
  BY DEF Init
<1>3. caller \in {"serial", "submitting"} /\ (caller = "serial" <=> Serial)
  BY DEF Init
<1>4. TypeOK
  BY <1>1, <1>2, <1>3 DEF Init, TypeOK, PoolInv
<1>5. Serial => SerialInv
  BY <1>1, <1>2, <1>3 DEF SerialInv
<1>6. Cardinality(Busy) <= PoolSize \/ Serial
  <2>1. Busy = {}
    BY <1>1 DEF Busy
  <2>2. Cardinality(Busy) = 0
    BY <2>1, FS_EmptySet
  <2> QED
    BY <1>4, <2>2, PoolSizeFacts
<1>7. ~Serial => PooledInv
  BY <1>1, <1>2, <1>3, <1>6 DEF PooledInv, ThreadOf, Over
<1> QED
  BY <1>1, <1>3, <1>4, <1>5, <1>7 DEF ToolPoolInv

\* A step of one tool that keeps what was settled keeps the invariant.
LEMMA ToolMovesInv ==
  ASSUME ToolPoolInv, NEW i \in Jobs, NEW r \in {"invoked", "expired", "answered", "failed"},
         tool' = [tool EXCEPT ![i] = r],
         UNCHANGED << poolVars, maxWorkers, caller, out >>,
         ~Settled(i),
         \/ tool[i] # "idle"
         \/ caller = "serial" /\ \A j \in 1 .. i - 1 : tool[j] = "answered"
  PROVE  ToolPoolInv'
<1>1. /\ TypeOK /\ PoolInv
      /\ tool \in [Jobs -> {"idle", "invoked", "expired", "answered", "failed"}]
  BY DEF ToolPoolInv, TypeOK
<1>2. tool'[i] = r /\ \A j \in Jobs \ {i} : tool'[j] = tool[j]
  BY <1>1
<1>3. tool[i] \in {"idle", "invoked", "expired"}
  BY <1>1 DEF Settled
<1>4. TypeOK' /\ (Serial' <=> Serial) /\ PoolSize' = PoolSize /\ PoolInv'
  BY <1>1, PoolUnchanged DEF TypeOK, PoolTypeOK, Serial, PoolSize, poolVars
<1>5. ASSUME Serial PROVE SerialInv'
  <2>1. SerialInv
    BY <1>5 DEF ToolPoolInv
  <2>2. UNCHANGED << fut, caller >>
    BY DEF poolVars
  <2>3. \A j \in Jobs : tool[j] = "answered" \/ tool[j] = "failed" => tool'[j] = tool[j]
    BY <1>2, <1>3
  <2>4. ASSUME NEW k \in Jobs, NEW j \in Jobs, j < k, tool'[k] # "idle"
        PROVE  tool'[j] = "answered"
    <3>1. j \in 1 .. k - 1
      BY <2>4 DEF Jobs
    <3>2. tool[j] = "answered"
      BY <1>2, <2>1, <2>4, <3>1 DEF SerialInv
    <3> QED
      BY <2>3, <3>2
  <2> QED
    BY <2>1, <2>2, <2>3, <2>4 DEF SerialInv
<1>6. ASSUME ~Serial PROVE PooledInv'
  <2>1. PooledInv
    BY <1>6 DEF ToolPoolInv
  <2>2. tool[i] # "idle"
    BY <2>1 DEF PooledInv
  <2>3. UNCHANGED << fut, early, notified, yielded, caller >>
    BY DEF poolVars
  <2>4. Busy' = Busy /\ (AllDone' <=> AllDone) /\ (NotAwaited' <=> NotAwaited)
    BY <2>3 DEF Busy, AllDone, Done, NotAwaited
  <2>5. \A j \in Jobs : ThreadOf(j)'
    <3>1. fut[i] = "running"
      BY <1>1, <2>1, <2>2 DEF PooledInv, ThreadOf, TypeOK, PoolTypeOK
    <3> QED
      BY <1>2, <2>1, <2>3, <3>1 DEF PooledInv, ThreadOf, Settled
  <2>6. Elements(yielded) \subseteq Jobs
    BY <1>1 DEF Elements, PoolInv, PoolTypeOK
  <2>7. ~Over
    BY <2>1 DEF PooledInv, AllDone, Done, ThreadOf
  <2> QED
    BY <1>2, <1>3, <1>4, <2>1, <2>3, <2>4, <2>5, <2>6, <2>7 DEF PooledInv, Over
<1> QED
  BY <1>4, <1>5, <1>6 DEF ToolPoolInv


\* A call of the serial path starts, or is rejected, after the earlier ones were answered.
LEMMA SerialNextInv ==
  ASSUME ToolPoolInv, NEW i \in Jobs, SerialNext(i)
  PROVE  ToolPoolInv'
<1>1. PICK r \in {"invoked", "failed"} : tool' = [tool EXCEPT ![i] = r]
  BY DEF SerialNext, Invoke
<1>2. ~Settled(i)
  BY DEF SerialNext, Settled
<1> QED
  BY <1>1, <1>2, ToolMovesInv DEF SerialNext

\* A tool ends, in time or too late.
LEMMA ToolEndsInv ==
  ASSUME ToolPoolInv, NEW i \in Jobs, ToolEnds(i)
  PROVE  ToolPoolInv'
<1>1. PICK r \in {"answered", "failed"} : tool' = [tool EXCEPT ![i] = r]
  BY DEF ToolEnds
<1>2. ~Settled(i) /\ tool[i] # "idle"
  BY DEF ToolEnds, Settled
<1> QED
  BY <1>1, <1>2, ToolMovesInv DEF ToolEnds

\* The time of a call is up.
LEMMA TimerFiresInv ==
  ASSUME ToolPoolInv, NEW i \in Jobs, TimerFires(i)
  PROVE  ToolPoolInv'
<1>1. ~Settled(i) /\ tool[i] # "idle"
  BY DEF TimerFires, Settled
<1> QED
  BY <1>1, ToolMovesInv DEF TimerFires

\* The serial path is over.
LEMMA SerialEndInv ==
  ASSUME ToolPoolInv, SerialEnd
  PROVE  ToolPoolInv'
<1>1. /\ TypeOK /\ PoolInv /\ caller = "serial"
      /\ UNCHANGED << poolVars, maxWorkers, tool >>
      /\ caller' \in {"returned", "raised"}
      /\ caller' = "returned" => out' = [i \in Jobs |-> i] /\ \A i \in Jobs : tool[i] = "answered"
      /\ caller' = "raised" => out' = out /\ \E i \in Jobs : tool[i] = "failed"
  BY DEF SerialEnd, ToolPoolInv
<1>2. Serial /\ SerialInv
  BY <1>1 DEF ToolPoolInv, PooledInv
<1>3. [i \in Jobs |-> i] \in Seq(Jobs)
  BY FuturePoolAssumption DEF Jobs
<1>4. TypeOK' /\ (Serial' <=> Serial) /\ PoolInv'
  BY <1>1, <1>3, PoolUnchanged DEF TypeOK, PoolTypeOK, Serial, poolVars
<1>5. SerialInv'
  BY <1>1, <1>2 DEF SerialInv, poolVars
<1> QED
  BY <1>1, <1>2, <1>4, <1>5 DEF ToolPoolInv

-----------------------------------------------------------------------------
\* Only on the pool path is anything ever submitted.
LEMMA PoolPath ==
  ASSUME ToolPoolInv,
         \/ caller \in {"submitting", "collecting", "raising"}
         \/ \E i \in Jobs : fut[i] # "unsubmitted"
  PROVE  ~Serial /\ PooledInv
BY DEF ToolPoolInv, SerialInv

\* What the steps of the pool path have in common.
LEMMA PooledStep ==
  ASSUME ToolPoolInv, ~Serial, PoolInv', PooledInv', UNCHANGED maxWorkers,
         tool' \in [Jobs -> {"idle", "invoked", "expired", "answered", "failed"}],
         caller' \in {"submitting", "collecting", "raising", "returned", "raised"},
         out' = out \/ out' = [i \in Jobs |-> i],
         caller' = "returned" =>
           \/ out' = [i \in Jobs |-> i]
           \/ caller = "returned" /\ out' = out
  PROVE  ToolPoolInv'
<1>1. [i \in Jobs |-> i] \in Seq(Jobs)
  BY FuturePoolAssumption DEF Jobs
<1>2. TypeOK' /\ (Serial' <=> Serial)
  BY <1>1 DEF ToolPoolInv, TypeOK, Serial, PoolInv
<1> QED
  BY <1>2 DEF ToolPoolInv

\* The caller submits a call.
LEMMA SubmitCallInv ==
  ASSUME ToolPoolInv, NEW i \in Jobs, SubmitCall(i)
  PROVE  ToolPoolInv'
<1>1. /\ caller = "submitting" /\ Submit(i) /\ UNCHANGED << maxWorkers, tool, caller, out >>
      /\ PoolInv /\ TypeOK
  BY DEF SubmitCall, ToolPoolInv
<1>2. ~Serial /\ PooledInv
  BY <1>1, PoolPath
<1>3. /\ PoolInv' /\ Busy' = Busy
      /\ fut[i] = "unsubmitted" /\ fut'[i] = "queued"
      /\ \A j \in Jobs \ {i} : fut'[j] = fut[j]
      /\ UNCHANGED << early, notified, yielded >>
  BY <1>1, SubmitInv
<1>4. \A j \in Jobs : ThreadOf(j)'
  BY <1>1, <1>2, <1>3 DEF PooledInv, ThreadOf, Settled
<1>5. PooledInv'
  BY <1>1, <1>2, <1>3, <1>4 DEF PooledInv, PoolSize, NotAwaited, Over
<1> QED
  BY <1>1, <1>2, <1>3, <1>5, PooledStep DEF TypeOK

\* The caller starts to collect.
LEMMA CallAsCompletedInv ==
  ASSUME ToolPoolInv, CallAsCompleted
  PROVE  ToolPoolInv'
<1>1. /\ caller = "submitting" /\ caller' = "collecting" /\ Await
      /\ UNCHANGED << maxWorkers, tool, out >>
      /\ PoolInv /\ TypeOK
  BY DEF CallAsCompleted, ToolPoolInv
<1>2. ~Serial /\ PooledInv
  BY <1>1, PoolPath
<1>3. PoolInv' /\ Busy' = Busy /\ UNCHANGED << fut, yielded >> /\ yielded = << >>
  BY <1>1, <1>2, AwaitInv DEF PooledInv, NotAwaited
<1>4. \A j \in Jobs : ThreadOf(j)'
  BY <1>1, <1>2, <1>3 DEF PooledInv, ThreadOf, Settled
<1>5. Elements(yielded') = {}
  BY <1>3 DEF Elements
<1>6. PooledInv'
  BY <1>1, <1>2, <1>3, <1>4, <1>5 DEF PooledInv, PoolSize, Over
<1> QED
  BY <1>1, <1>2, <1>6, <1>3, PooledStep DEF TypeOK

\* A worker takes a call and runs its tool, or rejects it.
LEMMA WorkerStartsInv ==
  ASSUME ToolPoolInv, NEW i \in Jobs, WorkerStarts(i)
  PROVE  ToolPoolInv'
<1>1. /\ Take(i, PoolSize) /\ UNCHANGED << maxWorkers, caller, out >>
      /\ PoolInv /\ TypeOK
  BY DEF WorkerStarts, ToolPoolInv
<1>2. PICK r \in {"invoked", "failed"} : tool' = [tool EXCEPT ![i] = r]
  BY DEF WorkerStarts, Invoke
<1>3. /\ PoolInv' /\ Done' = Done
      /\ Cardinality(Busy') <= PoolSize
      /\ fut[i] = "queued" /\ fut'[i] = "running"
      /\ \A j \in Jobs \ {i} : fut'[j] = fut[j]
      /\ UNCHANGED << early, notified, yielded >>
  BY <1>1, TakeInv, PoolSizeFacts
<1>4. ~Serial /\ PooledInv
  BY <1>3, PoolPath
<1>5. tool[i] = "idle" /\ tool'[i] = r /\ \A j \in Jobs \ {i} : tool'[j] = tool[j]
  BY <1>1, <1>2, <1>3, <1>4 DEF PooledInv, ThreadOf, TypeOK
<1>6. \A j \in Jobs : ThreadOf(j)'
  BY <1>3, <1>4, <1>5 DEF PooledInv, ThreadOf, Settled
<1>7. Elements(yielded) \subseteq Jobs
  BY <1>1 DEF PoolInv, PoolTypeOK, Elements
<1>8. PooledInv'
  BY <1>1, <1>3, <1>4, <1>5, <1>6, <1>7 DEF PooledInv, PoolSize, Over, AllDone, NotAwaited
<1> QED
  BY <1>1, <1>2, <1>3, <1>4, <1>8, PooledStep DEF TypeOK, PooledInv

\* A worker is done with its call.
LEMMA WorkerEndsInv ==
  ASSUME ToolPoolInv, NEW i \in Jobs, WorkerEnds(i)
  PROVE  ToolPoolInv'
<1>1. /\ Settled(i) /\ Complete(i, caller = "collecting")
      /\ UNCHANGED << maxWorkers, tool, caller, out >>
      /\ PoolInv /\ TypeOK
  BY DEF WorkerEnds, ToolPoolInv
<1>2. /\ PoolInv' /\ Done' = Done \cup {i} /\ Busy' = Busy \ {i}
      /\ fut[i] = "running" /\ fut'[i] = "done"
      /\ \A j \in Jobs \ {i} : fut'[j] = fut[j]
      /\ notified' = IF caller = "collecting" THEN Append(notified, i) ELSE notified
      /\ UNCHANGED << early, yielded >>
  BY <1>1, CompleteInv
<1>3. ~Serial /\ PooledInv
  BY <1>2, PoolPath
<1>4. \A j \in Jobs : ThreadOf(j)'
  BY <1>1, <1>2, <1>3 DEF PooledInv, ThreadOf, Settled
<1>5. Cardinality(Busy') <= PoolSize
  <2>1. Busy \in SUBSET Jobs /\ Busy' \in SUBSET Busy
    BY <1>2 DEF Busy
  <2>2. /\ IsFiniteSet(Busy) /\ Cardinality(Busy) \in Nat
        /\ IsFiniteSet(Busy') /\ Cardinality(Busy') \in Nat
        /\ Cardinality(Busy') <= Cardinality(Busy)
    BY <2>1, JobsFinite, FS_Subset, FS_CardinalityType
  <2> QED
    BY <1>1, <1>3, <2>2, PoolSizeFacts DEF PooledInv
<1>6. Done \subseteq Jobs
  BY DEF Done
<1>7. PooledInv'
  BY <1>1, <1>2, <1>3, <1>4, <1>5, <1>6 DEF PooledInv, PoolSize, Over, AllDone, NotAwaited
<1> QED
  BY <1>1, <1>2, <1>3, <1>7, PooledStep DEF TypeOK, PooledInv

\* The caller is handed a result, or the exception of a call.
LEMMA CollectResultInv ==
  ASSUME ToolPoolInv, NEW i \in Jobs, CollectResult(i)
  PROVE  ToolPoolInv'
<1>1. /\ caller = "collecting" /\ YieldNext(i)
      /\ caller' = IF tool[i] = "failed" THEN "raising" ELSE caller
      /\ UNCHANGED << maxWorkers, tool, out >>
      /\ PoolInv /\ TypeOK
  BY DEF CollectResult, ToolPoolInv
<1>2. ~Serial /\ PooledInv
  BY <1>1, PoolPath
<1>3. /\ PoolInv' /\ i \in Done /\ Busy' = Busy
      /\ Elements(yielded') = Elements(yielded) \cup {i}
      /\ UNCHANGED fut
  BY <1>1, YieldNextInv
<1>4. Settled(i)
  BY <1>2, <1>3 DEF PooledInv, ThreadOf, Done
<1>5. \A j \in Jobs : ThreadOf(j)'
  BY <1>1, <1>2, <1>3 DEF PooledInv, ThreadOf, Settled
<1>6. caller' = "collecting" => \A j \in Elements(yielded') : tool[j] = "answered"
  BY <1>1, <1>2, <1>3, <1>4 DEF PooledInv, Settled
<1>7. PooledInv'
  BY <1>1, <1>2, <1>3, <1>5, <1>6 DEF PooledInv, PoolSize, Over
<1> QED
  BY <1>1, <1>2, <1>3, <1>7, PooledStep DEF TypeOK

\* The with block is left, with every result or with an exception.
LEMMA LeavePoolInv ==
  ASSUME ToolPoolInv, LeavePool
  PROVE  ToolPoolInv'
<1>1. /\ caller \in {"collecting", "raising"} /\ AllDone
      /\ UNCHANGED << poolVars, maxWorkers, tool >>
      /\ PoolInv /\ TypeOK
  BY DEF LeavePool, ToolPoolInv
<1>2. ~Serial /\ PooledInv /\ PoolInv'
  BY <1>1, PoolPath, PoolUnchanged
<1>3. \/ /\ caller = "collecting" /\ caller' = "returned" /\ out' = [i \in Jobs |-> i]
      \/ /\ caller = "raising" /\ caller' = "raised" /\ out' = out
  <2>1. Len(yielded) = N => InOrder(yielded) = [i \in Jobs |-> i]
    BY <1>1, InOrderSorts DEF PoolInv, PoolTypeOK
  <2> QED
    BY <2>1 DEF LeavePool
<1>9. caller' = "returned" => \A j \in Jobs : tool'[j] = "answered"
  <2>1. SUFFICES ASSUME caller = "collecting", Len(yielded) = N, NEW j \in Jobs
                 PROVE  tool[j] = "answered"
    BY <1>1, <1>3 DEF LeavePool
  <2>2. \E p \in 1 .. Len(yielded) : yielded[p] = j
    BY <1>1, <2>1, AllHandedOut DEF PoolInv, PoolTypeOK
  <2> QED
    BY <1>2, <2>1, <2>2 DEF PooledInv, Elements
<1>4. UNCHANGED << fut, early, notified, yielded >>
  BY <1>1 DEF poolVars
<1>5. \A j \in Jobs : ThreadOf(j)'
  BY <1>1, <1>2, <1>4 DEF PooledInv, ThreadOf, Settled
<1>6. Busy' = Busy /\ AllDone'
  BY <1>1, <1>4 DEF Busy, AllDone, Done
<1>7. PooledInv'
  BY <1>1, <1>2, <1>3, <1>5, <1>6, <1>9 DEF PooledInv, PoolSize
<1>8. tool' \in [Jobs -> {"idle", "invoked", "expired", "answered", "failed"}]
  BY <1>1 DEF TypeOK
<1> QED
  BY <1>1, <1>2, <1>3, <1>7, <1>8, PooledStep

-----------------------------------------------------------------------------
\* Every step keeps the invariant.
LEMMA StepInv == ToolPoolInv /\ [Next]_vars => ToolPoolInv'
<1> SUFFICES ASSUME ToolPoolInv, [Next]_vars PROVE ToolPoolInv'
  OBVIOUS
<1>1. CASE UNCHANGED vars
  <2>1. UNCHANGED << poolVars, fut, early, notified, yielded, maxWorkers, tool, caller, out >>
    BY <1>1 DEF vars, poolVars
  <2> QED
    BY <2>1 DEF ToolPoolInv, TypeOK, PoolTypeOK, PoolInv, HandedInTurn, Done, Serial, SerialInv,
         PooledInv, ThreadOf, Settled, Busy, PoolSize, NotAwaited, Over, AllDone
<1>2. CASE CallerStep
  BY <1>2, SerialNextInv, SubmitCallInv, CollectResultInv, SerialEndInv, CallAsCompletedInv,
     LeavePoolInv DEF CallerStep
<1>3. ASSUME NEW i \in Jobs, Thread(i) PROVE ToolPoolInv'
  BY <1>3, TimerFiresInv, WorkerStartsInv, WorkerEndsInv DEF Thread
<1>4. ASSUME NEW i \in Jobs, ToolEnds(i) PROVE ToolPoolInv'
  BY <1>4, ToolEndsInv
<1> QED
  BY <1>1, <1>2, <1>3, <1>4 DEF Next

(***************************************************************************)
(* Every run of execute_many keeps the inductive invariant.                *)
(***************************************************************************)
THEOREM Invariance == Spec => []ToolPoolInv
BY InitInv, StepInv, PTL DEF Spec

-----------------------------------------------------------------------------
\* A tool that runs has a worker on the pool path, and on the serial path no other runs.
LEMMA InFlightBounded == ToolPoolInv => BoundedParallelism
<1> SUFFICES ASSUME ToolPoolInv PROVE BoundedParallelism
  OBVIOUS
<1>1. TypeOK /\ fut \in [Jobs -> {"unsubmitted", "queued", "running", "done"}]
  BY DEF ToolPoolInv, TypeOK, PoolTypeOK
<1>2. InFlight \in SUBSET Jobs /\ IsFiniteSet(InFlight)
  <2>1. InFlight \in SUBSET Jobs
    BY DEF InFlight
  <2> QED
    BY <2>1, JobsFinite, FS_Subset
<1>3. CASE Serial
  <2>1. SerialInv
    BY <1>3 DEF ToolPoolInv
  <2>2. \A i, j \in InFlight : ~(i < j)
    BY <2>1 DEF SerialInv, InFlight
  <2>3. \A i, j \in InFlight : i = j
    BY <1>2, <2>2 DEF Jobs
  <2>4. InFlight = {} \/ \E i : InFlight = {i}
    BY <2>3
  <2>5. Cardinality(InFlight) = 0 \/ Cardinality(InFlight) = 1
    BY <2>4, FS_EmptySet, FS_Singleton
  <2> QED
    BY <1>1, <2>5, PoolSizeFacts DEF BoundedParallelism
<1>4. CASE ~Serial
  <2>1. PooledInv
    BY <1>4 DEF ToolPoolInv
  <2>2. InFlight \in SUBSET Busy
    BY <1>1, <2>1 DEF InFlight, PooledInv, ThreadOf, Settled, Busy
  <2>3. Busy \in SUBSET Jobs
    BY DEF Busy
  <2>4. IsFiniteSet(Busy) /\ Cardinality(Busy) \in Nat
    BY <2>3, JobsFinite, FS_Subset, FS_CardinalityType
  <2>5. Cardinality(InFlight) <= Cardinality(Busy) /\ Cardinality(InFlight) \in Nat
    BY <1>2, <2>2, <2>4, FS_Subset, FS_CardinalityType
  <2> QED
    BY <1>1, <1>4, <2>1, <2>4, <2>5, PoolSizeFacts DEF BoundedParallelism, PooledInv
<1> QED
  BY <1>3, <1>4

(***************************************************************************)
(* However many calls and workers: no more tools run at once than          *)
(* tools.parallelism says, those whose time is up included.                *)
(***************************************************************************)
THEOREM ParallelismBounded == Spec => []BoundedParallelism
BY Invariance, InFlightBounded, PTL

\* When the caller is gone, no worker is left.
LEMMA NothingLeft == ToolPoolInv => NothingOutlivesTheCall
<1> SUFFICES ASSUME ToolPoolInv, Over PROVE InFlight = {} /\ \A i \in Jobs : fut[i] \in {"unsubmitted", "done"}
  BY DEF NothingOutlivesTheCall
<1>1. CASE Serial
  <2>1. SerialInv
    BY <1>1 DEF ToolPoolInv
  <2>2. ASSUME NEW i \in InFlight PROVE FALSE
    <3>1. i \in Jobs /\ tool[i] \in {"invoked", "expired"}
      BY DEF InFlight
    <3>2. PICK j \in Jobs : tool[j] = "failed"
      BY <2>1, <3>1 DEF SerialInv, Over
    <3>3. i \in Int /\ j \in Int /\ i # j
      BY <3>1, <3>2 DEF Jobs
    <3>4. ~(i < j) /\ ~(j < i)
      BY <2>1, <3>1, <3>2 DEF SerialInv
    <3> QED
      BY <3>3, <3>4
  <2> QED
    BY <2>1, <2>2 DEF SerialInv
<1>2. CASE ~Serial
  BY <1>2 DEF ToolPoolInv, PooledInv, AllDone, Done, ThreadOf, Settled, InFlight
<1> QED
  BY <1>1, <1>2

(***************************************************************************)
(* Whether execute_many returns or raises, none of its tools runs on.      *)
(***************************************************************************)
THEOREM NothingOutlives == Spec => []NothingOutlivesTheCall
BY Invariance, NothingLeft, PTL

\* A serial batch stops at the failed call; a pool drains its queue.
LEMMA FailureEffects == ToolPoolInv => FailedBatchEffects
<1> SUFFICES ASSUME ToolPoolInv, caller = "raised"
             PROVE  \E i \in Jobs :
                      /\ tool[i] = "failed"
                      /\ IF Serial
                         THEN /\ \A j \in 1 .. i - 1 : tool[j] = "answered"
                              /\ \A j \in i + 1 .. N : tool[j] = "idle"
                         ELSE \A j \in Jobs : Settled(j)
  BY DEF FailedBatchEffects
<1>0. N \in Nat
  BY FuturePoolAssumption
<1>1. CASE Serial
  <2>1. SerialInv
    BY <1>1 DEF ToolPoolInv
  <2>2. PICK i \in Jobs : tool[i] = "failed"
    BY <2>1 DEF SerialInv
  <2>3. ASSUME NEW j \in 1 .. i - 1 PROVE tool[j] = "answered"
    <3>1. j \in Jobs /\ j < i
      BY <1>0 DEF Jobs
    <3> QED
      BY <2>1, <2>2, <3>1 DEF SerialInv
  <2>4. ASSUME NEW j \in i + 1 .. N PROVE tool[j] = "idle"
    <3>1. j \in Jobs /\ i < j
      BY <1>0 DEF Jobs
    <3> QED
      BY <2>1, <2>2, <3>1 DEF SerialInv
  <2> QED
    BY <1>1, <2>2, <2>3, <2>4
<1>2. CASE ~Serial
  BY <1>2 DEF ToolPoolInv, PooledInv, Over, AllDone, Done, ThreadOf
<1> QED
  BY <1>1, <1>2

(***************************************************************************)
(* How much of a failed batch has been done: on the serial path the calls  *)
(* before the one that failed, on the pool path all of them.               *)
(***************************************************************************)
THEOREM FailedBatchIsKnown == Spec => []FailedBatchEffects
BY Invariance, FailureEffects, PTL

\* A call whose time is up fails, and stays failed.
Doomed(i) == tool[i] \in {"expired", "failed"}

LEMMA DoomedStays ==
  ASSUME ToolPoolInv, [Next]_vars, NEW i \in Jobs, Doomed(i)
  PROVE  Doomed(i)'
<1>1. tool \in [Jobs -> {"idle", "invoked", "expired", "answered", "failed"}]
  BY DEF ToolPoolInv, TypeOK
<1>2. ASSUME NEW j \in Jobs, NEW r, tool' = [tool EXCEPT ![j] = r],
             tool[j] \in {"idle", "invoked"} \/ r \in {"expired", "failed"}
      PROVE  Doomed(i)'
  BY <1>1, <1>2 DEF Doomed
<1>3. CASE UNCHANGED tool
  BY <1>3 DEF Doomed
<1>4. ASSUME NEW j \in Jobs, SerialNext(j) PROVE Doomed(i)'
  BY <1>2, <1>4 DEF SerialNext, Invoke
<1>5. ASSUME NEW j \in Jobs, WorkerStarts(j) PROVE Doomed(i)'
  <2>1. fut[j] = "queued" /\ \E r \in {"invoked", "failed"} : tool' = [tool EXCEPT ![j] = r]
    BY <1>5 DEF WorkerStarts, Take, Invoke
  <2>2. PooledInv
    BY <2>1, PoolPath
  <2>3. tool[j] = "idle"
    BY <2>1, <2>2 DEF PooledInv, ThreadOf
  <2> QED
    BY <1>2, <2>1, <2>3
<1>6. ASSUME NEW j \in Jobs, TimerFires(j) PROVE Doomed(i)'
  BY <1>2, <1>6 DEF TimerFires
<1>7. ASSUME NEW j \in Jobs, ToolEnds(j) PROVE Doomed(i)'
  BY <1>2, <1>7 DEF ToolEnds
<1> QED
  BY <1>3, <1>4, <1>5, <1>6, <1>7 DEF Next, CallerStep, Thread, SubmitCall, CollectResult,
     SerialEnd, CallAsCompleted, LeavePool, WorkerEnds, vars

(***************************************************************************)
(* A batch with a late call is never answered: the exception of the call   *)
(* is kept in its future, and no batch is answered before all of its       *)
(* futures were collected.                                                 *)
(***************************************************************************)
THEOREM LateCallsDoomTheBatch == Spec => LateCallDoomsBatch
<1>1. ASSUME NEW i \in Jobs
      PROVE  Spec => [](tool[i] = "expired" => [](caller # "returned"))
  <2>1. tool[i] = "expired" => Doomed(i)
    BY DEF Doomed
  <2>2. ToolPoolInv /\ [Next]_vars /\ Doomed(i) => Doomed(i)'
    BY DoomedStays
  <2>3. ToolPoolInv /\ Doomed(i) => caller # "returned"
    BY DEF ToolPoolInv, SerialInv, PooledInv, Doomed
  <2> QED
    BY <2>1, <2>2, <2>3, Invariance, PTL DEF Spec
<1> QED
  BY <1>1 DEF LateCallDoomsBatch

-----------------------------------------------------------------------------
\* Only the last step of execute_many gives an answer, and once.
LEMMA StepRefines == ToolPoolInv /\ [Next]_vars => [Batch!BatchNext]_Answer
<1> SUFFICES ASSUME ToolPoolInv, [Next]_vars PROVE [Batch!BatchNext]_Answer
  OBVIOUS
<1>0. ToolPoolInv'
  BY StepInv
<1>1. CASE UNCHANGED << caller, out >>
  BY <1>1 DEF Answer
<1>2. CASE caller \notin {"returned", "raised"} /\ caller' \notin {"returned", "raised"}
  BY <1>2 DEF Answer
<1>3. CASE caller \notin {"returned", "raised"} /\ caller' = "raised"
  BY <1>3 DEF Answer, Batch!BatchNext, Batch!None, Batch!Exception
<1>4. CASE caller \notin {"returned", "raised"} /\ caller' = "returned"
  <2>1. out' = [i \in 1 .. N |-> i]
    BY <1>0, <1>4 DEF ToolPoolInv, Jobs
  <2> QED
    BY <1>4, <2>1 DEF Answer, Batch!BatchNext, Batch!None, Batch!InCallOrder
<1>5. UNCHANGED << caller, out >> \/ caller \notin {"returned", "raised"}
  BY DEF vars, Next, CallerStep, Thread, SerialNext, SubmitCall, CollectResult, SerialEnd,
     CallAsCompleted, LeavePool, TimerFires, WorkerStarts, WorkerEnds, ToolEnds
<1> QED
  BY <1>1, <1>2, <1>3, <1>4, <1>5

(***************************************************************************)
(* Every run of execute_many, serial or on its pool, is a run of its       *)
(* contract: the results of all calls in call order, or an exception.      *)
(***************************************************************************)
THEOREM Refinement == Spec => ImplementsBatch
<1>1. Init => Batch!BatchInit
  BY DEF Init, Answer, Batch!BatchInit, Batch!None
<1>2. ToolPoolInv /\ [Next]_vars => [Batch!BatchNext]_Answer
  BY StepRefines
<1> QED
  BY <1>1, <1>2, Invariance, PTL DEF Spec, ImplementsBatch

=============================================================================
