----------------------------- MODULE FuturePool -----------------------------
(***************************************************************************)
(* Python's concurrent.futures as the engine uses it, external code:       *)
(*                                                                         *)
(*   with ThreadPoolExecutor(max_workers=W) as pool:                       *)
(*       futs = [pool.submit(...) for each job]                            *)
(*       for fut in as_completed(futs): fut.result() ...                   *)
(*                                                                         *)
(* Jobs are submitted one by one and taken from a FIFO queue by at most W  *)
(* worker threads, possibly before the last one is submitted.              *)
(* as_completed first looks which futures are done already and yields      *)
(* those from a set, in no particular order; the others it yields in the   *)
(* order they complete.  Leaving the with block, normally or by an         *)
(* exception, joins the workers, which first drain the queue.              *)
(*                                                                         *)
(* What a job does between Take and Complete, and what the caller does     *)
(* with a yielded future, is left to the module that extends this one.     *)
(***************************************************************************)
EXTENDS Integers, Sequences, FiniteSets

CONSTANT N  \* number of jobs, submitted in the order 1..N

ASSUME FuturePoolAssumption == N \in Nat \ {0}

Jobs == 1 .. N

VARIABLES
  fut,       \* state of each job's future
  early,     \* futures found done when as_completed was called
  notified,  \* the others, in the order they completed
  yielded    \* futures the caller has been handed, in order

poolVars == << fut, early, notified, yielded >>

PoolInit ==
  /\ fut = [i \in Jobs |-> "unsubmitted"]
  /\ early = {}
  /\ notified = << >>
  /\ yielded = << >>

Busy == {i \in Jobs : fut[i] = "running"}

Done == {i \in Jobs : fut[i] = "done"}

AllSubmitted == \A i \in Jobs : fut[i] # "unsubmitted"

AllDone == Done = Jobs

Submit(i) ==
  /\ fut[i] = "unsubmitted"
  /\ \A j \in 1 .. i - 1 : fut[j] # "unsubmitted"
  /\ fut' = [fut EXCEPT ![i] = "queued"]
  /\ UNCHANGED << early, notified, yielded >>

\* Variant: one worker too many.
TakeOneMore(i, w) ==
  /\ fut[i] = "queued"
  /\ \A j \in 1 .. i - 1 : fut[j] # "queued"
  /\ Cardinality(Busy) <= w
  /\ fut' = [fut EXCEPT ![i] = "running"]
  /\ UNCHANGED << early, notified, yielded >>

\* One of the w workers takes the oldest queued job.
Take(i, w) ==
  /\ fut[i] = "queued"
  /\ \A j \in 1 .. i - 1 : fut[j] # "queued"
  /\ Cardinality(Busy) < w
  /\ fut' = [fut EXCEPT ![i] = "running"]
  /\ UNCHANGED << early, notified, yielded >>

\* "waiting" says whether as_completed has been called.
Complete(i, waiting) ==
  /\ fut[i] = "running"
  /\ fut' = [fut EXCEPT ![i] = "done"]
  /\ notified' = IF waiting THEN Append(notified, i) ELSE notified
  /\ UNCHANGED << early, yielded >>

\* as_completed installs its waiter.
Await ==
  /\ AllSubmitted
  /\ early' = Done
  /\ UNCHANGED << fut, notified, yielded >>

NotYielded(S) == {i \in S : \A k \in 1 .. Len(yielded) : yielded[k] # i}

\* Variant: the futures that were done before the waiter was installed are missed.
YieldNextMissesEarly(i) ==
  /\ Len(yielded) < Len(notified)
  /\ i = notified[Len(yielded) + 1]
  /\ yielded' = Append(yielded, i)
  /\ UNCHANGED << fut, early, notified >>

\* Variant: any future that is done comes next.
YieldNextAny(i) ==
  /\ i \in NotYielded(Done)
  /\ yielded' = Append(yielded, i)
  /\ UNCHANGED << fut, early, notified >>

\* The next future of the iterator: any of the early ones, then by completion.
YieldNext(i) ==
  /\ IF NotYielded(early) # {} THEN i \in NotYielded(early)
     ELSE /\ Len(yielded) - Cardinality(early) < Len(notified)
          /\ i = notified[Len(yielded) - Cardinality(early) + 1]
  /\ yielded' = Append(yielded, i)
  /\ UNCHANGED << fut, early, notified >>

PoolTypeOK ==
  /\ fut \in [Jobs -> {"unsubmitted", "queued", "running", "done"}]
  /\ early \subseteq Jobs
  /\ notified \in Seq(Jobs)
  /\ yielded \in Seq(Jobs)

=============================================================================
