--------------------------- MODULE FuturePoolProofs ---------------------------
(***************************************************************************)
(* What every use of the pool keeps: the futures handed out by             *)
(* as_completed are done, no future is handed out twice, and those done    *)
(* before it was called come first, the others as they completed.          *)
(***************************************************************************)
EXTENDS FuturePool, FiniteSetTheorems, TLAPS

Distinct(s) == \A k, l \in 1 .. Len(s) : s[k] = s[l] => k = l

Elements(s) == {s[k] : k \in 1 .. Len(s)}

\* The k-th future handed out, early ones first, then by completion.
HandedInTurn ==
  \A k \in 1 .. Len(yielded) :
    IF k <= Cardinality(early) THEN yielded[k] \in early
    ELSE /\ k - Cardinality(early) <= Len(notified)
         /\ yielded[k] = notified[k - Cardinality(early)]

(***************************************************************************)
(* That no future is handed out twice is not inductive by itself: a        *)
(* future must not be both early and notified, nor be notified twice.      *)
(***************************************************************************)
PoolInv ==
  /\ PoolTypeOK
  /\ Distinct(yielded)
  /\ Distinct(notified)
  /\ early \subseteq Done
  /\ Elements(notified) \subseteq Done \ early
  /\ HandedInTurn

\* Nobody has called as_completed yet.
NotAwaited == early = {} /\ notified = << >> /\ yielded = << >>

-----------------------------------------------------------------------------
\* A sequence without repetitions has as many elements as its length.
LEMMA DistinctCardinality ==
  ASSUME NEW S, NEW s \in Seq(S), Distinct(s)
  PROVE  IsFiniteSet(Elements(s)) /\ Cardinality(Elements(s)) = Len(s)
<1> DEFINE f == [k \in 1 .. Len(s) |-> s[k]]
<1>1. Len(s) \in Nat
  OBVIOUS
<1>2. f \in Bijection(1 .. Len(s), Elements(s))
  BY DEF Bijection, Injection, Surjection, IsInjective, Distinct, Elements
<1>3. ExistsBijection(1 .. Len(s), Elements(s))
  BY <1>2 DEF ExistsBijection
<1>4. Cardinality(Elements(s)) = Len(s)
  BY <1>1, <1>3, FS_CountingElements
<1>5. IsFiniteSet(Elements(s))
  BY <1>1, <1>3, FS_NatBijection
<1> QED
  BY <1>4, <1>5

\* There are finitely many jobs.
LEMMA JobsFinite == IsFiniteSet(Jobs) /\ Cardinality(Jobs) = N
<1>1. N \in Nat /\ N > 0
  BY FuturePoolAssumption
<1>2. IsFiniteSet(1 .. N) /\ Cardinality(1 .. N) = IF 1 > N THEN 0 ELSE N - 1 + 1
  BY <1>1, FS_Interval
<1> QED
  BY <1>1, <1>2 DEF Jobs

\* Who hands out as many futures as there are jobs has handed out all of them.
LEMMA AllHandedOut ==
  ASSUME NEW s \in Seq(Jobs), Distinct(s), Len(s) = N
  PROVE  \A i \in Jobs : \E k \in 1 .. Len(s) : s[k] = i
<1>1. Elements(s) \in SUBSET Jobs
  BY DEF Elements
<1>2. Cardinality(Elements(s)) = N
  BY DistinctCardinality
<1>3. Elements(s) = Jobs
  BY <1>1, <1>2, JobsFinite, FS_Subset
<1> QED
  BY <1>3 DEF Elements

\* Appending something new keeps a sequence free of repetitions.
LEMMA AppendDistinct ==
  ASSUME NEW S, NEW s \in Seq(S), NEW x \in S, Distinct(s), x \notin Elements(s)
  PROVE  /\ Append(s, x) \in Seq(S)
         /\ Len(Append(s, x)) = Len(s) + 1
         /\ \A k \in 1 .. Len(s) : Append(s, x)[k] = s[k]
         /\ Append(s, x)[Len(s) + 1] = x
         /\ Distinct(Append(s, x))
         /\ Elements(Append(s, x)) = Elements(s) \cup {x}
<1> DEFINE t == Append(s, x)
<1>1. /\ t \in Seq(S) /\ Len(t) = Len(s) + 1 /\ Len(s) \in Nat
      /\ \A k \in 1 .. Len(s) : t[k] = s[k]
      /\ t[Len(s) + 1] = x
  OBVIOUS
<1> HIDE DEF t
<1>2. \A k \in 1 .. Len(t) : k \in 1 .. Len(s) \/ k = Len(s) + 1
  BY <1>1
<1>3. \A k \in 1 .. Len(s) : s[k] # x
  BY DEF Elements
<1>4. Distinct(t)
  BY <1>1, <1>2, <1>3 DEF Distinct
<1>5. Elements(t) = Elements(s) \cup {x}
  <2>1. ASSUME NEW y \in Elements(t) PROVE y \in Elements(s) \cup {x}
    BY <1>1, <1>2 DEF Elements
  <2>2. ASSUME NEW y \in Elements(s) \cup {x} PROVE y \in Elements(t)
    BY <1>1 DEF Elements
  <2> QED
    BY <2>1, <2>2
<1> QED
  BY <1>1, <1>4, <1>5 DEF t

-----------------------------------------------------------------------------
\* A fresh pool.
LEMMA PoolInitInv == PoolInit => PoolInv /\ NotAwaited
<1> SUFFICES ASSUME PoolInit PROVE PoolInv /\ NotAwaited
  OBVIOUS
<1>1. PoolTypeOK
  BY DEF PoolInit, PoolTypeOK
<1>2. yielded = << >> /\ notified = << >> /\ early = {}
  BY DEF PoolInit
<1> QED
  BY <1>1, <1>2 DEF PoolInv, NotAwaited, Distinct, Elements, HandedInTurn

\* Steps that leave the pool alone.
LEMMA PoolUnchanged ==
  ASSUME PoolInv, UNCHANGED poolVars
  PROVE  PoolInv'
BY DEF PoolInv, PoolTypeOK, poolVars, Done, HandedInTurn

\* A submitted job waits in the queue.
LEMMA SubmitInv ==
  ASSUME PoolInv, NEW i \in Jobs, Submit(i)
  PROVE  /\ PoolInv'
         /\ Done' = Done /\ Busy' = Busy
         /\ fut[i] = "unsubmitted" /\ fut'[i] = "queued"
         /\ \A j \in Jobs \ {i} : fut'[j] = fut[j]
         /\ UNCHANGED << early, notified, yielded >>
<1>1. fut \in [Jobs -> {"unsubmitted", "queued", "running", "done"}]
  BY DEF PoolInv, PoolTypeOK
<1>2. fut[i] = "unsubmitted" /\ fut' = [fut EXCEPT ![i] = "queued"]
  BY DEF Submit
<1>3. fut'[i] = "queued" /\ \A j \in Jobs \ {i} : fut'[j] = fut[j]
  BY <1>1, <1>2
<1>4. Done' = Done /\ Busy' = Busy
  BY <1>2, <1>3 DEF Done, Busy
<1>5. UNCHANGED << early, notified, yielded >>
  BY DEF Submit
<1>6. PoolTypeOK'
  BY <1>1, <1>2, <1>5 DEF PoolInv, PoolTypeOK
<1> QED
  BY <1>2, <1>3, <1>4, <1>5, <1>6 DEF PoolInv, HandedInTurn

\* A job that is taken adds one to the busy ones, and only if there is room.
LEMMA TakeInv ==
  ASSUME PoolInv, NEW i \in Jobs, NEW w \in Int, Take(i, w)
  PROVE  /\ PoolInv'
         /\ Done' = Done /\ Busy' = Busy \cup {i}
         /\ Cardinality(Busy') <= w
         /\ fut[i] = "queued" /\ fut'[i] = "running"
         /\ \A j \in Jobs \ {i} : fut'[j] = fut[j]
         /\ UNCHANGED << early, notified, yielded >>
<1>1. fut \in [Jobs -> {"unsubmitted", "queued", "running", "done"}]
  BY DEF PoolInv, PoolTypeOK
<1>2. fut[i] = "queued" /\ fut' = [fut EXCEPT ![i] = "running"] /\ Cardinality(Busy) < w
  BY DEF Take
<1>3. fut'[i] = "running" /\ \A j \in Jobs \ {i} : fut'[j] = fut[j]
  BY <1>1, <1>2
<1>4. Done' = Done /\ Busy' = Busy \cup {i} /\ i \notin Busy
  BY <1>2, <1>3 DEF Done, Busy
<1>5. UNCHANGED << early, notified, yielded >>
  BY DEF Take
<1>6. PoolTypeOK'
  BY <1>1, <1>2, <1>5 DEF PoolInv, PoolTypeOK
<1>7. Cardinality(Busy') <= w
  <2>1. Busy \in SUBSET Jobs
    BY DEF Busy
  <2>2. IsFiniteSet(Busy) /\ Cardinality(Busy) \in Nat
    BY <2>1, JobsFinite, FS_Subset, FS_CardinalityType
  <2>3. Cardinality(Busy \cup {i}) = Cardinality(Busy) + 1
    BY <1>4, <2>2, FS_AddElement
  <2> QED
    BY <1>2, <1>4, <2>2, <2>3
<1> QED
  BY <1>2, <1>3, <1>4, <1>5, <1>6, <1>7 DEF PoolInv, HandedInTurn

\* A job that completes is busy no more, and notified if somebody waits.
LEMMA CompleteInv ==
  ASSUME PoolInv, NEW i \in Jobs, NEW waiting \in BOOLEAN, Complete(i, waiting)
  PROVE  /\ PoolInv'
         /\ Done' = Done \cup {i} /\ Busy' = Busy \ {i} /\ i \in Busy
         /\ fut[i] = "running" /\ fut'[i] = "done"
         /\ \A j \in Jobs \ {i} : fut'[j] = fut[j]
         /\ notified' = IF waiting THEN Append(notified, i) ELSE notified
         /\ UNCHANGED << early, yielded >>
<1>1. fut \in [Jobs -> {"unsubmitted", "queued", "running", "done"}]
  BY DEF PoolInv, PoolTypeOK
<1>2. /\ fut[i] = "running" /\ fut' = [fut EXCEPT ![i] = "done"]
      /\ notified' = IF waiting THEN Append(notified, i) ELSE notified
      /\ UNCHANGED << early, yielded >>
  BY DEF Complete
<1>3. fut'[i] = "done" /\ \A j \in Jobs \ {i} : fut'[j] = fut[j]
  BY <1>1, <1>2
<1>4. Done' = Done \cup {i} /\ Busy' = Busy \ {i} /\ i \in Busy /\ i \notin Done
  BY <1>2, <1>3 DEF Done, Busy
<1>5. notified \in Seq(Jobs) /\ Distinct(notified) /\ i \notin Elements(notified)
  BY <1>4 DEF PoolInv, PoolTypeOK
<1>6. /\ notified' \in Seq(Jobs)
      /\ Len(notified') >= Len(notified)
      /\ \A k \in 1 .. Len(notified) : notified'[k] = notified[k]
      /\ Distinct(notified')
      /\ Elements(notified') \subseteq Elements(notified) \cup {i}
  BY <1>2, <1>5, AppendDistinct
<1>7. PoolTypeOK'
  BY <1>1, <1>2, <1>6 DEF PoolInv, PoolTypeOK
<1>8. Elements(notified') \subseteq Done' \ early'
  BY <1>2, <1>4, <1>6 DEF PoolInv
<1>9. HandedInTurn'
  <2>1. SUFFICES ASSUME NEW k \in 1 .. Len(yielded), ~(k <= Cardinality(early))
                 PROVE  /\ k - Cardinality(early) <= Len(notified')
                        /\ yielded[k] = notified'[k - Cardinality(early)]
    BY <1>2 DEF PoolInv, HandedInTurn
  <2>2. /\ k - Cardinality(early) <= Len(notified)
        /\ yielded[k] = notified[k - Cardinality(early)]
    BY <2>1 DEF PoolInv, HandedInTurn
  <2>3. Cardinality(early) \in Nat /\ k \in Nat /\ Len(notified) \in Nat /\ Len(notified') \in Nat
    BY <1>5, <1>6, JobsFinite, FS_Subset, FS_CardinalityType DEF PoolInv, PoolTypeOK
  <2>4. k - Cardinality(early) \in 1 .. Len(notified)
    BY <2>1, <2>2, <2>3
  <2> QED
    BY <1>6, <2>2, <2>3, <2>4
<1> QED
  BY <1>2, <1>3, <1>4, <1>6, <1>7, <1>8, <1>9 DEF PoolInv

\* as_completed takes those that are done to be early.
LEMMA AwaitInv ==
  ASSUME PoolInv, NotAwaited, Await
  PROVE  /\ PoolInv'
         /\ early' = Done
         /\ UNCHANGED << fut, notified, yielded >>
         /\ AllSubmitted
         /\ Done' = Done /\ Busy' = Busy
<1>1. early' = Done /\ UNCHANGED << fut, notified, yielded >> /\ AllSubmitted
  BY DEF Await
<1>2. Done \subseteq Jobs /\ Done' = Done /\ Busy' = Busy
  BY <1>1 DEF Done, Busy
<1>3. yielded = << >> /\ notified = << >>
  BY DEF NotAwaited
<1>4. PoolTypeOK'
  BY <1>1, <1>2 DEF PoolInv, PoolTypeOK
<1>5. HandedInTurn'
  BY <1>1, <1>3 DEF HandedInTurn
<1>6. Elements(notified') \subseteq Done' \ early'
  BY <1>1, <1>3 DEF Elements
<1> QED
  BY <1>1, <1>2, <1>4, <1>5, <1>6 DEF PoolInv

\* While an early future is left, fewer are handed out than were early; and then all are.
LEMMA EarlyFirst ==
  ASSUME PoolInv
  PROVE  /\ Cardinality(early) \in Nat
         /\ NotYielded(early) # {} <=> Len(yielded) < Cardinality(early)
<1>1. /\ yielded \in Seq(Jobs) /\ Len(yielded) \in Nat /\ Distinct(yielded)
      /\ early \in SUBSET Jobs
  BY DEF PoolInv, PoolTypeOK
<1>2. IsFiniteSet(early) /\ Cardinality(early) \in Nat
  BY <1>1, JobsFinite, FS_Subset, FS_CardinalityType
<1>3. IsFiniteSet(Elements(yielded)) /\ Cardinality(Elements(yielded)) = Len(yielded)
  BY <1>1, DistinctCardinality
<1>4. NotYielded(early) = early \ Elements(yielded)
  BY <1>1 DEF NotYielded, Elements
<1>5. CASE Len(yielded) < Cardinality(early)
  <2>1. early # Elements(yielded)
    BY <1>3, <1>5
  <2>2. \A k \in 1 .. Len(yielded) : yielded[k] \in early
    BY <1>1, <1>2, <1>5 DEF PoolInv, HandedInTurn
  <2>3. Elements(yielded) \subseteq early
    BY <2>2 DEF Elements
  <2> QED
    BY <1>2, <1>4, <1>5, <2>1, <2>3
<1>6. CASE ~(Len(yielded) < Cardinality(early))
  <2> DEFINE c == Cardinality(early)
             s == SubSeq(yielded, 1, c)
  <2>1. c \in 0 .. Len(yielded)
    BY <1>1, <1>2, <1>6
  <2>2. /\ s \in Seq(Jobs) /\ Len(s) = c
        /\ \A k \in 1 .. c : s[k] = yielded[k]
    BY <1>1, <2>1
  <2> HIDE DEF s
  <2>3. Distinct(s)
    <3>1. \A k \in 1 .. c : k \in 1 .. Len(yielded)
      BY <1>1, <2>1
    <3> QED
      BY <1>1, <2>2, <3>1 DEF Distinct
  <2>4. \A k \in 1 .. c : s[k] \in early
    BY <1>1, <2>1, <2>2 DEF PoolInv, HandedInTurn
  <2>5. Elements(s) \in SUBSET early
    BY <2>2, <2>4 DEF Elements
  <2>6. Cardinality(Elements(s)) = c
    BY <2>2, <2>3, DistinctCardinality
  <2>7. Elements(s) = early
    BY <1>2, <2>5, <2>6, FS_Subset
  <2>8. Elements(s) \subseteq Elements(yielded)
    BY <1>1, <2>1, <2>2 DEF Elements
  <2> QED
    BY <1>2, <1>4, <1>6, <2>7, <2>8
<1> QED
  BY <1>2, <1>5, <1>6

(***************************************************************************)
(* The next future of the iterator is done and has not been handed out.    *)
(***************************************************************************)
LEMMA YieldNextInv ==
  ASSUME PoolInv, NEW i \in Jobs, YieldNext(i)
  PROVE  /\ PoolInv'
         /\ i \in Done /\ i \notin Elements(yielded)
         /\ yielded' = Append(yielded, i)
         /\ Elements(yielded') = Elements(yielded) \cup {i}
         /\ UNCHANGED << fut, early, notified >>
         /\ Done' = Done /\ Busy' = Busy
<1> DEFINE c == Cardinality(early)
<1>1. /\ yielded \in Seq(Jobs) /\ Len(yielded) \in Nat /\ Distinct(yielded)
      /\ notified \in Seq(Jobs) /\ Len(notified) \in Nat /\ Distinct(notified)
      /\ c \in Nat
  BY EarlyFirst DEF PoolInv, PoolTypeOK
<1>2. yielded' = Append(yielded, i) /\ UNCHANGED << fut, early, notified >>
  BY DEF YieldNext
<1>3. IF NotYielded(early) # {} THEN i \in NotYielded(early)
      ELSE /\ Len(yielded) - c < Len(notified)
           /\ i = notified[Len(yielded) - c + 1]
  BY DEF YieldNext
<1>4. ASSUME NotYielded(early) # {}
      PROVE  i \in Done /\ i \notin Elements(yielded)
  BY <1>3, <1>4 DEF NotYielded, Elements, PoolInv
<1>5. ASSUME NotYielded(early) = {}
      PROVE  i \in Done /\ i \notin Elements(yielded)
  <2> DEFINE d == Len(yielded) - c + 1
  <2>1. Len(yielded) >= c
    BY <1>1, <1>5, EarlyFirst
  <2>2. d \in 1 .. Len(notified) /\ i = notified[d]
    BY <1>1, <1>3, <1>5, <2>1
  <2>3. i \in Done \ early
    BY <2>2 DEF PoolInv, Elements
  <2>4. ASSUME NEW k \in 1 .. Len(yielded), yielded[k] = i PROVE FALSE
    <3>1. ~(k <= c)
      BY <2>3, <2>4 DEF PoolInv, HandedInTurn
    <3>2. k - c <= Len(notified) /\ i = notified[k - c]
      BY <2>4, <3>1 DEF PoolInv, HandedInTurn
    <3>3. k - c \in 1 .. Len(notified) /\ k - c # d
      BY <1>1, <2>4, <3>1, <3>2
    <3> QED
      BY <1>1, <2>2, <3>2, <3>3 DEF Distinct
  <2> QED
    BY <2>3, <2>4 DEF Elements
<1>6. i \in Done /\ i \notin Elements(yielded)
  BY <1>4, <1>5
<1>7. /\ yielded' \in Seq(Jobs) /\ Len(yielded') = Len(yielded) + 1
      /\ \A k \in 1 .. Len(yielded) : yielded'[k] = yielded[k]
      /\ yielded'[Len(yielded) + 1] = i
      /\ Distinct(yielded')
      /\ Elements(yielded') = Elements(yielded) \cup {i}
  BY <1>1, <1>2, <1>6, AppendDistinct
<1>8. Done' = Done /\ Busy' = Busy
  BY <1>2 DEF Done, Busy
<1>9. HandedInTurn'
  <2>1. SUFFICES ASSUME NEW k \in 1 .. Len(yielded')
                 PROVE  IF k <= c THEN yielded'[k] \in early
                        ELSE /\ k - c <= Len(notified)
                             /\ yielded'[k] = notified[k - c]
    BY <1>2 DEF HandedInTurn
  <2>2. CASE k \in 1 .. Len(yielded)
    BY <1>7, <2>2 DEF PoolInv, HandedInTurn
  <2>3. CASE k = Len(yielded) + 1
    <3>1. yielded'[k] = i
      BY <1>7, <2>3
    <3>2. CASE NotYielded(early) # {}
      BY <1>1, <1>3, <2>3, <3>1, <3>2, EarlyFirst DEF NotYielded
    <3>3. CASE NotYielded(early) = {}
      <4>1. ~(Len(yielded) < c) /\ Len(yielded) - c < Len(notified)
        BY <1>3, <3>3, EarlyFirst
      <4>2. k - c = Len(yielded) - c + 1 /\ k - c <= Len(notified) /\ ~(k <= c)
        BY <1>1, <2>3, <4>1
      <4> QED
        BY <1>3, <3>1, <3>3, <4>2
    <3> QED
      BY <3>2, <3>3
  <2> QED
    BY <1>1, <1>7, <2>2, <2>3
<1>10. PoolTypeOK'
  BY <1>2, <1>7 DEF PoolInv, PoolTypeOK
<1> QED
  BY <1>2, <1>6, <1>7, <1>8, <1>9, <1>10 DEF PoolInv

=============================================================================
