--------------------------- MODULE DetectionProofs ---------------------------
(***************************************************************************)
(* The detection of the orchestration, proved for every list of agents and *)
(* edges, whatever their order: Tarjan's algorithm finds the components,   *)
(* and the builders are given what they rely on.                           *)
(***************************************************************************)
EXTENDS Detection, FiniteSetTheorems, WellFoundedInduction, TLAPS

-----------------------------------------------------------------------------
(* The graph. *)

\* The analysis never changes the configuration, so the graph stays the same.
LEMMA GraphKept ==
  ASSUME cfg' = cfg
  PROVE  /\ Nodes' = Nodes /\ AgentEdges' = AgentEdges
         /\ \A i : From(i)' = From(i) /\ To(i)' = To(i)
         /\ \A v : Out(v)' = Out(v) /\ In(v)' = In(v) /\ Adj(v)' = Adj(v)
         /\ \A v : OutDeg(v)' = OutDeg(v) /\ InDeg(v)' = InDeg(v)
         /\ \A S : Closed(S)' <=> Closed(S)
         /\ \A u, v : Connected(u, v)' <=> Connected(u, v)
<1>1. Nodes' = Nodes
  BY DEF Nodes
<1>2. AgentEdges' = AgentEdges
  BY <1>1 DEF AgentEdges, From, To
<1>3. \A i : From(i)' = From(i) /\ To(i)' = To(i)
  BY DEF From, To
<1>4. \A v : Out(v)' = Out(v)
  BY <1>2 DEF Out, From
<1>5. \A v : In(v)' = In(v)
  BY <1>2 DEF In, To
<1>6. \A v : Adj(v)' = Adj(v)
  BY <1>4 DEF Adj, To
<1>7. \A v : OutDeg(v)' = OutDeg(v) /\ InDeg(v)' = InDeg(v)
  BY <1>4, <1>5 DEF OutDeg, InDeg
<1>8. \A S : Closed(S)' <=> Closed(S)
  BY <1>2 DEF Closed, From, To
<1>9. \A u, v : Connected(u, v)' <=> Connected(u, v)
  BY <1>1, <1>8 DEF Connected
<1> QED
  BY <1>1, <1>2, <1>3, <1>4, <1>5, <1>6, <1>7, <1>8, <1>9

\* Both ends of an edge of the graph are agents.
LEMMA EdgeFacts ==
  /\ \A i \in AgentEdges : From(i) \in Nodes /\ To(i) \in Nodes
  /\ \A v, i : i \in Out(v) <=> i \in AgentEdges /\ From(i) = v
  /\ \A v, i : i \in In(v) <=> i \in AgentEdges /\ To(i) = v
  /\ \A v, w : w \in Adj(v) <=> \E i \in Out(v) : To(i) = w
BY DEF AgentEdges, Out, In, Adj

\* Paths: none is needed to oneself, an edge is one, and they can be joined.
LEMMA Paths ==
  /\ \A u \in Nodes : Connected(u, u)
  /\ \A i \in AgentEdges : Connected(From(i), To(i))
  /\ \A u, v, w : Connected(u, v) /\ Connected(v, w) => Connected(u, w)
<1>1. \A i \in AgentEdges : Connected(From(i), To(i))
  BY DEF Connected, Closed
<1>2. \A u, v, w : Connected(u, v) /\ Connected(v, w) => Connected(u, w)
  BY DEF Connected
<1>3. \A u \in Nodes : Connected(u, u)
  BY DEF Connected
<1> QED
  BY <1>1, <1>2, <1>3

-----------------------------------------------------------------------------
(* Tarjan's algorithm. *)

Entered == ToSet(indices)
Stacked == ToSet(stack)
Finished == UNION ToSet(sccs)

\* The agent of a call of strongconnect, and how low it has seen the stack.
Caller(k) == frames[k].v
Low(k) == lowlink[IndexOf(Caller(k))]

\* The edges the search has followed.
Fetched ==
  {i \in AgentEdges : From(i) \in Entered /\ \A k \in DOMAIN frames : i \notin frames[k].left}

SearchTypes ==
  /\ indices \in Seq(Nodes) /\ IsInjective(indices)
  /\ lowlink \in Seq(Nat) /\ Len(lowlink) = Len(indices)
  /\ \A i \in 1 .. Len(lowlink) : lowlink[i] \in 1 .. i
  /\ stack \in Seq(Nodes)
  /\ sccs \in Seq(SUBSET Nodes)
  /\ frames \in Seq([v : Nodes, left : SUBSET AgentEdges])

\* Who is where: the stack is in the order the agents were entered, and so are the calls.
Bookkeeping ==
  /\ Entered = Stacked \cup Finished
  /\ Stacked \cap Finished = {}
  /\ \A i, j \in 1 .. Len(stack) : i < j => IndexOf(stack[i]) < IndexOf(stack[j])
  /\ \A k \in 1 .. Len(frames) : Caller(k) \in Stacked /\ frames[k].left \subseteq Out(Caller(k))
  /\ \A k, l \in 1 .. Len(frames) : k < l => IndexOf(Caller(k)) < IndexOf(Caller(l))
  /\ \A i \in Fetched : To(i) \in Entered

\* An agent on the stack reaches all that were entered later, and a call that is under way.
StackPaths ==
  /\ \A x, y \in Stacked : IndexOf(x) <= IndexOf(y) => Connected(x, y)
  /\ \A y \in Stacked : \E k \in 1 .. Len(frames) :
       IndexOf(Caller(k)) <= IndexOf(y) /\ Connected(y, Caller(k))

\* A lowlink is the index of an agent on the stack that the caller reaches, and as low as
\* any that an edge from above the caller leads to.
LowlinksMean ==
  /\ \A k \in 1 .. Len(frames) :
       \E y \in Stacked : Connected(Caller(k), y) /\ IndexOf(y) = Low(k)
  /\ \A k \in 1 .. Len(frames), i \in Fetched :
       From(i) \in Stacked /\ To(i) \in Stacked /\ IndexOf(Caller(k)) <= IndexOf(From(i)) =>
         \E l \in k .. Len(frames) : Low(l) <= IndexOf(To(i))

\* The first components found, which nothing leaves.
Below(i) == UNION {sccs[j] : j \in 1 .. i}

ComponentsFound ==
  \A i \in 1 .. Len(sccs) :
    /\ sccs[i] # {} /\ \A u, v \in sccs[i] : Connected(u, v)
    /\ Closed(Below(i))
    /\ sccs[i] \cap Below(i - 1) = {}

(***************************************************************************)
(* That the components are right is not inductive: the stack must hold all *)
(* the agents entered that still reach a call under way, in the order of   *)
(* their indices, and the lowlinks must tell whether a call is the lowest  *)
(* that those above it on the stack reach.                                 *)
(***************************************************************************)
SearchInv == SearchTypes /\ Bookkeeping /\ StackPaths /\ LowlinksMean /\ ComponentsFound

\* Every agent entered has one index.
LEMMA IndexFacts ==
  ASSUME SearchTypes
  PROVE  /\ Entered \subseteq Nodes /\ Len(indices) \in Nat
         /\ \A x \in Entered : IndexOf(x) \in 1 .. Len(indices) /\ indices[IndexOf(x)] = x
         /\ \A i \in 1 .. Len(indices) : indices[i] \in Entered /\ IndexOf(indices[i]) = i
         /\ \A x, y \in Entered : IndexOf(x) = IndexOf(y) => x = y
<1>0. indices \in Seq(Nodes) /\ IsInjective(indices)
  BY DEF SearchTypes
<1>1. indices \in Seq(Nodes) /\ \A i, j \in 1 .. Len(indices) : indices[i] = indices[j] => i = j
  BY <1>0 DEF IsInjective
<1>2. Entered = {indices[i] : i \in 1 .. Len(indices)}
  BY <1>1 DEF Entered, ToSet
<1>3. DOMAIN indices = 1 .. Len(indices)
  BY <1>1
<1>4. \A x \in Entered : IndexOf(x) \in 1 .. Len(indices) /\ indices[IndexOf(x)] = x
  BY <1>2, <1>3 DEF IndexOf
<1>5. \A i \in 1 .. Len(indices) : indices[i] \in Entered
  BY <1>2
<1> QED
  BY <1>1, <1>2, <1>4, <1>5

\* The lowlink of a caller is the index of an agent entered no later.
LEMMA LowFacts ==
  ASSUME SearchTypes, Bookkeeping
  PROVE  /\ Stacked \subseteq Entered
         /\ \A i \in 1 .. Len(stack) : stack[i] \in Stacked
         /\ \A x \in Stacked : \E i \in 1 .. Len(stack) : stack[i] = x
         /\ \A k \in 1 .. Len(frames) :
              /\ Caller(k) \in Entered
              /\ Low(k) \in 1 .. IndexOf(Caller(k))
<1>1. Stacked \subseteq Entered
  BY DEF Bookkeeping
<1>2. DOMAIN stack = 1 .. Len(stack)
  BY DEF SearchTypes
<1>3. (\A i \in 1 .. Len(stack) : stack[i] \in Stacked) /\ \A x \in Stacked : \E i \in 1 .. Len(stack) : stack[i] = x
  BY <1>2 DEF Stacked, ToSet
<1>4. \A k \in 1 .. Len(frames) : Caller(k) \in Entered
  BY <1>1 DEF Bookkeeping
<1>5. \A x \in Entered : lowlink[IndexOf(x)] \in 1 .. IndexOf(x)
  BY IndexFacts DEF SearchTypes
<1> QED
  BY <1>1, <1>3, <1>4, <1>5 DEF Low

\* What a sequence has after an Append.
LEMMA AppendedSet ==
  ASSUME NEW S, NEW s \in Seq(S), NEW x
  PROVE  ToSet(Append(s, x)) = ToSet(s) \cup {x}
<1> DEFINE t == Append(s, x)
<1>1. /\ Len(s) \in Nat /\ DOMAIN s = 1 .. Len(s) /\ DOMAIN t = 1 .. Len(s) + 1
      /\ t[Len(s) + 1] = x /\ \A i \in 1 .. Len(s) : t[i] = s[i]
  OBVIOUS
<1> HIDE DEF t
<1>2. \A i \in DOMAIN t : i \in DOMAIN s \/ i = Len(s) + 1
  BY <1>1
<1>3. Len(s) + 1 \in DOMAIN t /\ \A i \in DOMAIN s : i \in DOMAIN t
  BY <1>1
<1>4. ToSet(t) = ToSet(s) \cup {x}
  BY <1>1, <1>2, <1>3 DEF ToSet
<1> QED
  BY <1>4 DEF t

-----------------------------------------------------------------------------
(* Entering an agent. *)

\* What strongconnect(v) is called with: the callers, having followed edges to v only.
Entering(callers, v) ==
  /\ v \in Nodes \ Entered
  /\ callers \in Seq([v : Nodes, left : SUBSET AgentEdges]) /\ Len(callers) = Len(frames)
  /\ \A k \in 1 .. Len(frames) :
       /\ callers[k].v = frames[k].v
       /\ callers[k].left \subseteq frames[k].left
       /\ \A i \in frames[k].left \ callers[k].left : To(i) = v
  /\ \A x \in Stacked : Connected(x, v)

LEMMA EnterEffect ==
  ASSUME SearchTypes, Bookkeeping, cfg' = cfg, NEW callers, NEW v, Entering(callers, v), Enter(callers, v)
  PROVE  /\ SearchTypes'
         /\ Len(indices') = Len(indices) + 1 /\ Len(frames') = Len(frames) + 1
         /\ Len(frames) \in Nat
         /\ Entered' = Entered \cup {v} /\ Stacked' = Stacked \cup {v} /\ Finished' = Finished
         /\ \A x \in Entered : IndexOf(x)' = IndexOf(x)
         /\ IndexOf(v)' = Len(indices) + 1
         /\ \A k \in 1 .. Len(frames) : Caller(k)' = Caller(k) /\ Low(k)' = Low(k)
         /\ \A n : n = Len(frames) + 1 => Caller(n)' = v /\ Low(n)' = Len(indices) + 1
         /\ \A i \in Fetched' : i \in Fetched \/ To(i) = v
         /\ \A i \in Fetched' : From(i) # v
<1>1. /\ indices' = Append(indices, v) /\ lowlink' = Append(lowlink, Len(indices) + 1)
      /\ stack' = Append(stack, v) /\ frames' = Append(callers, [v |-> v, left |-> Out(v)])
      /\ sccs' = sccs
  BY DEF Enter
<1>2. /\ indices \in Seq(Nodes) /\ lowlink \in Seq(Nat) /\ stack \in Seq(Nodes) /\ frames \in Seq([v : Nodes, left : SUBSET AgentEdges])
      /\ Len(lowlink) = Len(indices) /\ \A i \in 1 .. Len(lowlink) : lowlink[i] \in 1 .. i
      /\ callers \in Seq([v : Nodes, left : SUBSET AgentEdges]) /\ Len(callers) = Len(frames)
      /\ v \in Nodes /\ v \notin Entered
  BY DEF SearchTypes, Entering
<1>3. Entered' = Entered \cup {v} /\ Stacked' = Stacked \cup {v} /\ Finished' = Finished
  <2>1. ToSet(Append(indices, v)) = ToSet(indices) \cup {v}
    BY <1>2, AppendedSet
  <2>2. ToSet(Append(stack, v)) = ToSet(stack) \cup {v}
    BY <1>2, AppendedSet
  <2> QED
    BY <1>1, <2>1, <2>2 DEF Entered, Stacked, Finished
<1>4. /\ Nodes' = Nodes /\ AgentEdges' = AgentEdges /\ \A i : From(i)' = From(i) /\ To(i)' = To(i)
      /\ Out(v) \in SUBSET AgentEdges
  BY GraphKept, EdgeFacts
<1>5. SearchTypes'
  <2>1. indices' \in Seq(Nodes') /\ stack' \in Seq(Nodes') /\ lowlink' \in Seq(Nat) /\ Len(lowlink') = Len(indices')
    BY <1>1, <1>2, <1>4
  <2>2. \A i \in 1 .. Len(lowlink') : lowlink'[i] \in 1 .. i
    BY <1>1, <1>2
  <2>3. IsInjective(indices')
    <3>1. \A i \in 1 .. Len(indices) : indices[i] # v
      BY <1>2, IndexFacts
    <3>2. IsInjective(indices)
      BY DEF SearchTypes
    <3> QED
      BY <1>1, <1>2, <3>1, <3>2 DEF IsInjective
  <2>4. frames' \in Seq([v : Nodes', left : SUBSET AgentEdges'])
    <3>1. [v |-> v, left |-> Out(v)] \in [v : Nodes, left : SUBSET AgentEdges]
      BY <1>2, <1>4
    <3> QED
      BY <1>1, <1>2, <1>4, <3>1
  <2>5. sccs' \in Seq(SUBSET Nodes')
    BY <1>1, <1>4 DEF SearchTypes
  <2> QED
    BY <2>1, <2>2, <2>3, <2>4, <2>5 DEF SearchTypes
<1>13. /\ DOMAIN indices' = 1 .. Len(indices')
       /\ \A i, j \in 1 .. Len(indices') : indices'[i] = indices'[j] => i = j
  <2>1. indices' \in Seq(Nodes') /\ IsInjective(indices')
    BY <1>5 DEF SearchTypes
  <2> QED
    BY <2>1 DEF IsInjective
<1>6. \A x \in Entered : IndexOf(x)' = IndexOf(x)
  <2> SUFFICES ASSUME NEW x \in Entered PROVE IndexOf(x)' = IndexOf(x)
    OBVIOUS
  <2>1. IndexOf(x) \in 1 .. Len(indices) /\ indices[IndexOf(x)] = x
    BY IndexFacts
  <2>2. IndexOf(x) \in 1 .. Len(indices') /\ indices'[IndexOf(x)] = x
    BY <1>1, <1>2, <2>1
  <2> QED
    BY <1>13, <2>2 DEF IndexOf
<1>7. IndexOf(v)' = Len(indices) + 1
  <2>1. Len(indices) + 1 \in 1 .. Len(indices') /\ indices'[Len(indices) + 1] = v
    BY <1>1, <1>2
  <2> QED
    BY <1>13, <2>1 DEF IndexOf
<1>8. \A k \in 1 .. Len(frames) : Caller(k)' = Caller(k) /\ Low(k)' = Low(k)
  <2> SUFFICES ASSUME NEW k \in 1 .. Len(frames) PROVE Caller(k)' = Caller(k) /\ Low(k)' = Low(k)
    OBVIOUS
  <2>1. frames'[k].v = frames[k].v
    BY <1>1, <1>2 DEF Entering
  <2>2. Caller(k)' = Caller(k) /\ Caller(k) \in Entered
    BY <2>1, LowFacts DEF Caller
  <2>3. IndexOf(Caller(k)) \in 1 .. Len(indices)
    BY <2>2, IndexFacts
  <2>4. lowlink'[IndexOf(Caller(k))] = lowlink[IndexOf(Caller(k))]
    BY <1>1, <1>2, <2>3
  <2> QED
    BY <1>6, <2>2, <2>4 DEF Low
<1>9. \A n : n = Len(frames) + 1 => Caller(n)' = v /\ Low(n)' = Len(indices) + 1
  <2>1. frames'[Len(frames) + 1].v = v
    BY <1>1, <1>2
  <2>2. lowlink'[Len(indices) + 1] = Len(indices) + 1
    BY <1>1, <1>2
  <2> QED
    BY <1>1, <1>2, <1>7, <2>1, <2>2 DEF Low, Caller
<1>10. \A i \in Fetched' : From(i) # v
  <2> SUFFICES ASSUME NEW i \in Fetched', From(i) = v PROVE FALSE
    OBVIOUS
  <2>1. i \in AgentEdges /\ \A k \in DOMAIN frames' : i \notin frames'[k].left
    BY <1>4 DEF Fetched
  <2>2. i \in Out(v)
    BY <2>1, EdgeFacts
  <2>3. Len(frames) + 1 \in DOMAIN frames' /\ frames'[Len(frames) + 1].left = Out(v)
    BY <1>1, <1>2
  <2> QED
    BY <2>1, <2>2, <2>3
<1>11. \A i \in Fetched' : i \in Fetched \/ To(i) = v
  <2> SUFFICES ASSUME NEW i \in Fetched', To(i) # v PROVE i \in Fetched
    OBVIOUS
  <2>1. i \in AgentEdges /\ From(i) \in Entered /\ \A k \in DOMAIN frames' : i \notin frames'[k].left
    BY <1>3, <1>4, <1>10 DEF Fetched
  <2>4. \A k \in 1 .. Len(frames) : k \in DOMAIN frames' /\ frames'[k] = callers[k]
    BY <1>1, <1>2
  <2>2. \A k \in 1 .. Len(frames) : i \notin callers[k].left
    BY <2>1, <2>4
  <2>3. \A k \in 1 .. Len(frames) : i \notin frames[k].left
    BY <2>2 DEF Entering
  <2> QED
    BY <1>2, <2>1, <2>3 DEF Fetched
<1>12. Len(indices') = Len(indices) + 1 /\ Len(frames') = Len(frames) + 1 /\ Len(frames) \in Nat
  BY <1>1, <1>2
<1> QED
  BY <1>3, <1>5, <1>6, <1>7, <1>8, <1>9, <1>10, <1>11, <1>12

\* Nothing happens to the components when none is found.
LEMMA ComponentsKept ==
  ASSUME ComponentsFound, cfg' = cfg, sccs' = sccs
  PROVE  ComponentsFound'
<1>1. \A i : Below(i)' = Below(i)
  BY DEF Below
<1>2. \A S : Closed(S)' <=> Closed(S)
  BY GraphKept
<1>3. \A u, v : Connected(u, v)' <=> Connected(u, v)
  BY GraphKept
<1>4. \A i \in 1 .. Len(sccs) : Closed(Below(i))'
  BY <1>1, <1>2 DEF ComponentsFound
<1>5. \A i \in 1 .. Len(sccs) : (sccs[i] \cap Below(i - 1))' = {}
  BY <1>1 DEF ComponentsFound
<1> QED
  BY <1>3, <1>4, <1>5 DEF ComponentsFound

LEMMA EnterKeeps ==
  ASSUME SearchInv, cfg' = cfg, NEW callers, NEW v, Entering(callers, v), Enter(callers, v)
  PROVE  SearchInv'
<1>0. SearchTypes /\ Bookkeeping /\ StackPaths /\ LowlinksMean /\ ComponentsFound
  BY DEF SearchInv
<1>1. /\ stack \in Seq(Nodes) /\ frames \in Seq([v : Nodes, left : SUBSET AgentEdges])
      /\ callers \in Seq([v : Nodes, left : SUBSET AgentEdges]) /\ Len(callers) = Len(frames)
      /\ v \in Nodes /\ v \notin Entered /\ Len(indices) \in Nat
      /\ \A x \in Stacked : Connected(x, v)
  BY <1>0 DEF SearchTypes, Entering
<1>2. /\ stack' = Append(stack, v) /\ frames' = Append(callers, [v |-> v, left |-> Out(v)])
      /\ sccs' = sccs
  BY DEF Enter
<1>3. /\ Nodes' = Nodes /\ AgentEdges' = AgentEdges
      /\ \A i : From(i)' = From(i) /\ To(i)' = To(i)
      /\ \A x : Out(x)' = Out(x)
      /\ \A S : Closed(S)' <=> Closed(S)
      /\ \A x, y : Connected(x, y)' <=> Connected(x, y)
  BY GraphKept
<1>e. /\ SearchTypes'
      /\ Len(frames') = Len(frames) + 1 /\ Len(frames) \in Nat
      /\ Entered' = Entered \cup {v} /\ Stacked' = Stacked \cup {v} /\ Finished' = Finished
      /\ \A x \in Entered : IndexOf(x)' = IndexOf(x)
      /\ IndexOf(v)' = Len(indices) + 1
      /\ \A k \in 1 .. Len(frames) : Caller(k)' = Caller(k) /\ Low(k)' = Low(k)
      /\ \A n : n = Len(frames) + 1 => Caller(n)' = v /\ Low(n)' = Len(indices) + 1
      /\ \A i \in Fetched' : i \in Fetched \/ To(i) = v
      /\ \A i \in Fetched' : From(i) # v
  BY <1>0, EnterEffect
<1>x. \A x \in Entered : IndexOf(x) \in 1 .. Len(indices)
  BY <1>0, IndexFacts
<1>l. /\ Stacked \subseteq Entered /\ \A k \in 1 .. Len(frames) : Caller(k) \in Entered /\ Low(k) \in 1 .. IndexOf(Caller(k))
      /\ \A i \in 1 .. Len(stack) : stack[i] \in Stacked
  BY <1>0, LowFacts
<1>n. \A k \in 1 .. Len(frames') : k \in 1 .. Len(frames) \/ k = Len(frames) + 1
  BY <1>e
<1>4. Bookkeeping'
  <2>1. Entered' = Stacked' \cup Finished' /\ Stacked' \cap Finished' = {}
    BY <1>0, <1>1, <1>e DEF Bookkeeping
  <2>2. ASSUME NEW i \in 1 .. Len(stack'), NEW j \in 1 .. Len(stack'), i < j
        PROVE  IndexOf(stack[i])' < IndexOf(stack[j])'
    <3>1. i \in 1 .. Len(stack) /\ stack'[i] = stack[i]
      BY <1>1, <1>2, <2>2
    <3>2. IndexOf(stack[i])' = IndexOf(stack[i]) /\ IndexOf(stack[i]) \in 1 .. Len(indices)
      BY <1>e, <1>l, <1>x, <3>1
    <3>3. CASE j \in 1 .. Len(stack)
      <4>1. stack'[j] = stack[j]
        BY <1>1, <1>2, <3>3
      <4>2. IndexOf(stack[j])' = IndexOf(stack[j])
        BY <1>e, <1>l, <3>3, <4>1
      <4>3. IndexOf(stack[i]) < IndexOf(stack[j])
        BY <1>0, <2>2, <3>1, <3>3 DEF Bookkeeping
      <4> QED
        BY <3>2, <4>2, <4>3
    <3>4. CASE j \notin 1 .. Len(stack)
      <4>1. stack'[j] = v
        BY <1>1, <1>2, <3>4
      <4> QED
        BY <1>1, <1>e, <3>2, <4>1
    <3> QED
      BY <3>3, <3>4
  <2>3. ASSUME NEW k \in 1 .. Len(frames')
        PROVE  Caller(k)' \in Stacked' /\ frames'[k].left \subseteq Out(Caller(k))'
    <3>1. CASE k \in 1 .. Len(frames)
      <4>1. frames'[k] = callers[k] /\ callers[k].left \subseteq frames[k].left
        BY <1>1, <1>2, <3>1 DEF Entering
      <4>2. Caller(k) \in Stacked /\ frames[k].left \subseteq Out(Caller(k))
        BY <1>0, <3>1 DEF Bookkeeping
      <4> QED
        BY <1>3, <1>e, <3>1, <4>1, <4>2
    <3>2. CASE k = Len(frames) + 1
      <4>1. frames'[k].left = Out(v)
        BY <1>1, <1>2, <3>2
      <4> QED
        BY <1>3, <1>e, <3>2, <4>1
    <3> QED
      BY <1>n, <3>1, <3>2
  <2>4. ASSUME NEW k \in 1 .. Len(frames'), NEW l \in 1 .. Len(frames'), k < l
        PROVE  IndexOf(Caller(k))' < IndexOf(Caller(l))'
    <3>1. k \in 1 .. Len(frames)
      BY <1>e, <2>4
    <3>2. IndexOf(Caller(k))' = IndexOf(Caller(k)) /\ IndexOf(Caller(k)) \in 1 .. Len(indices)
      BY <1>e, <1>l, <1>x, <3>1
    <3>3. CASE l \in 1 .. Len(frames)
      <4>1. IndexOf(Caller(l))' = IndexOf(Caller(l))
        BY <1>e, <1>l, <3>3
      <4>2. IndexOf(Caller(k)) < IndexOf(Caller(l))
        BY <1>0, <2>4, <3>1, <3>3 DEF Bookkeeping
      <4> QED
        BY <3>2, <4>1, <4>2
    <3>4. CASE l = Len(frames) + 1
      <4>1. IndexOf(Caller(l))' = Len(indices) + 1
        BY <1>e, <3>4
      <4> QED
        BY <1>1, <3>2, <4>1
    <3> QED
      BY <1>n, <3>3, <3>4
  <2>5. \A i \in Fetched' : To(i)' \in Entered'
    BY <1>0, <1>3, <1>e DEF Bookkeeping
  <2> QED
    BY <2>1, <2>2, <2>3, <2>4, <2>5 DEF Bookkeeping
<1>5. StackPaths'
  <2>1. ASSUME NEW x \in Stacked', NEW y \in Stacked', IndexOf(x)' <= IndexOf(y)'
        PROVE  Connected(x, y)
    <3>1. CASE x \in Stacked /\ y \in Stacked
      BY <1>0, <1>e, <1>l, <2>1, <3>1 DEF StackPaths
    <3>2. CASE y = v
      BY <1>1, <1>e, <3>2, Paths
    <3>3. CASE x = v /\ y \in Stacked
      BY <1>1, <1>e, <1>l, <1>x, <2>1, <3>3
    <3> QED
      BY <1>e, <3>1, <3>2, <3>3
  <2>2. ASSUME NEW y \in Stacked'
        PROVE  \E k \in 1 .. Len(frames') : IndexOf(Caller(k))' <= IndexOf(y)' /\ Connected(y, Caller(k)')
    <3>1. CASE y \in Stacked
      <4>1. PICK k \in 1 .. Len(frames) : IndexOf(Caller(k)) <= IndexOf(y) /\ Connected(y, Caller(k))
        BY <1>0, <3>1 DEF StackPaths
      <4>2. k \in 1 .. Len(frames') /\ Caller(k)' = Caller(k) /\ IndexOf(Caller(k))' = IndexOf(Caller(k))
        BY <1>e, <1>l
      <4>3. IndexOf(y)' = IndexOf(y)
        BY <1>e, <1>l, <3>1
      <4> QED
        BY <4>1, <4>2, <4>3
    <3>2. CASE y = v
      <4>1. PICK k : k = Len(frames) + 1
        OBVIOUS
      <4>2. k \in 1 .. Len(frames') /\ Caller(k)' = v
        BY <1>e, <4>1
      <4>3. IndexOf(v)' \in Nat
        BY <1>1, <1>e
      <4>4. IndexOf(Caller(k))' = IndexOf(v)'
        BY <4>2
      <4> QED
        BY <1>1, <3>2, <4>2, <4>3, <4>4, Paths
    <3> QED
      BY <1>e, <3>1, <3>2
  <2> QED
    BY <1>3, <2>1, <2>2 DEF StackPaths
<1>6. LowlinksMean'
  <2>1. ASSUME NEW k \in 1 .. Len(frames')
        PROVE  \E y \in Stacked' : Connected(Caller(k)', y) /\ IndexOf(y)' = Low(k)'
    <3>1. CASE k \in 1 .. Len(frames)
      <4>1. PICK y \in Stacked : Connected(Caller(k), y) /\ IndexOf(y) = Low(k)
        BY <1>0, <3>1 DEF LowlinksMean
      <4> QED
        BY <1>e, <1>l, <3>1, <4>1
    <3>2. CASE k = Len(frames) + 1
      BY <1>1, <1>e, <3>2, Paths
    <3> QED
      BY <1>n, <3>1, <3>2
  <2>2. ASSUME NEW k \in 1 .. Len(frames'), NEW i \in Fetched', From(i) \in Stacked', To(i) \in Stacked',
               IndexOf(Caller(k))' <= IndexOf(From(i))'
        PROVE  \E l \in k .. Len(frames') : Low(l)' <= IndexOf(To(i))'
    <3>1. From(i) # v /\ From(i) \in Stacked
      BY <1>e, <2>2
    <3>2. \A x : x = From(i) => IndexOf(x)' = IndexOf(x) /\ IndexOf(x) \in 1 .. Len(indices)
      BY <1>e, <1>l, <1>x, <3>1
    <3>3. k \in 1 .. Len(frames)
      <4>1. ASSUME k = Len(frames) + 1 PROVE FALSE
        <5>1. IndexOf(Caller(k))' = Len(indices) + 1
          BY <1>e, <4>1
        <5> QED
          BY <1>1, <1>3, <2>2, <3>2, <5>1
      <4> QED
        BY <1>n, <4>1
    <3>4. Caller(k)' = Caller(k) /\ Low(k)' = Low(k) /\ IndexOf(Caller(k))' = IndexOf(Caller(k))
      BY <1>e, <1>l, <3>3
    <3>5. CASE To(i) = v
      <4>1. Low(k) \in 1 .. Len(indices)
        BY <1>1, <1>l, <1>x, <3>3
      <4>2. \A x : x = To(i) => IndexOf(x)' = Len(indices) + 1
        BY <1>e, <3>5
      <4> QED
        BY <1>1, <1>3, <1>e, <3>3, <3>4, <4>1, <4>2
    <3>6. CASE To(i) # v
      <4>1. i \in Fetched /\ To(i) \in Stacked
        BY <1>e, <2>2, <3>6
      <4>2. \A x : x = To(i) => IndexOf(x)' = IndexOf(x)
        BY <1>e, <1>l, <4>1
      <4>3. IndexOf(Caller(k)) <= IndexOf(From(i))
        BY <1>3, <2>2, <3>2, <3>4
      <4>4. PICK l \in k .. Len(frames) : Low(l) <= IndexOf(To(i))
        BY <1>0, <3>1, <3>3, <4>1, <4>3 DEF LowlinksMean
      <4>5. l \in k .. Len(frames') /\ Low(l)' = Low(l)
        BY <1>e, <3>3
      <4> QED
        BY <1>3, <4>2, <4>4, <4>5
    <3> QED
      BY <3>5, <3>6
  <2> QED
    BY <1>3, <2>1, <2>2 DEF LowlinksMean
<1>7. ComponentsFound'
  BY <1>0, <1>2, <1>3, ComponentsKept
<1> QED
  BY <1>4, <1>5, <1>6, <1>7, <1>e DEF SearchInv

-----------------------------------------------------------------------------
(* Following an edge to an agent entered before. *)

\* The first of a set of positions or indices.
LEMMA LeastNat ==
  ASSUME NEW T \in SUBSET Nat, T # {}
  PROVE  \E k \in T : \A l \in T : k <= l
<1>1. PICK k \in T : \A l \in T : ~ (<< l, k >> \in OpToRel(<, Nat))
  BY NatLessThanWellFounded, WFMin
<1>2. \A l \in T : ~ (l < k)
  BY <1>1 DEF OpToRel
<1> QED
  BY <1>2

LEMMA MinFacts ==
  ASSUME NEW T \in SUBSET Nat, T # {}
  PROVE  Min(T) \in T /\ \A l \in T : Min(T) <= l
BY LeastNat DEF Min

\* cfg.edges is a sequence, and the positions of edges are numbers.
ConfigOK == cfg \in Configs

LEMMA PositionFacts ==
  ASSUME ConfigOK
  PROVE  /\ AgentEdges \in SUBSET Nat /\ AgentEdges \in SUBSET (1 .. Len(cfg.edges))
         /\ Len(cfg.edges) \in Nat /\ cfg.agents \in Seq(Ids)
BY ConfigsAssumption DEF ConfigOK, AgentEdges

\* What Lower does.
LEMMA LowerEffect ==
  ASSUME SearchTypes, NEW u \in Entered, NEW n \in Nat \ {0}, Lower(u, n)
  PROVE  /\ lowlink' \in Seq(Nat) /\ Len(lowlink') = Len(lowlink)
         /\ \A i \in 1 .. Len(lowlink') : lowlink'[i] \in 1 .. i
         /\ \A x \in Entered \ {u} : lowlink'[IndexOf(x)] = lowlink[IndexOf(x)]
         /\ lowlink'[IndexOf(u)] = Least(lowlink[IndexOf(u)], n)
<1>1. /\ lowlink \in Seq(Nat) /\ \A i \in 1 .. Len(lowlink) : lowlink[i] \in 1 .. i
      /\ Len(lowlink) = Len(indices)
  BY DEF SearchTypes
<1>2. PICK m \in 1 .. Len(lowlink) : m = IndexOf(u)
  BY <1>1, IndexFacts
<1>3. lowlink' = [lowlink EXCEPT ![m] = Least(lowlink[m], n)]
  BY <1>2 DEF Lower
<1>4. Least(lowlink[m], n) \in Nat /\ Least(lowlink[m], n) \in 1 .. m
  BY <1>1 DEF Least
<1>5. lowlink' \in Seq(Nat) /\ Len(lowlink') = Len(lowlink)
  BY <1>1, <1>3, <1>4
<1>6. \A i \in 1 .. Len(lowlink') : lowlink'[i] = IF i = m THEN Least(lowlink[m], n) ELSE lowlink[i]
  BY <1>1, <1>3
<1>7. \A x \in Entered \ {u} : IndexOf(x) \in 1 .. Len(lowlink) /\ IndexOf(x) # m
  BY <1>1, <1>2, IndexFacts
<1> QED
  BY <1>1, <1>2, <1>4, <1>5, <1>6, <1>7

\* The call on top of the search, and the edge it follows next.
LEMMA TopFacts ==
  ASSUME ConfigOK, SearchTypes, Bookkeeping, frames # << >>
  PROVE  /\ Len(frames) \in Nat /\ Len(frames) \in 1 .. Len(frames)
         /\ Top = frames[Len(frames)] /\ Top \in [v : Nodes, left : SUBSET AgentEdges]
         /\ Top.v \in Stacked /\ Top.v \in Entered /\ Top.left \subseteq Out(Top.v)
         /\ \A k \in 1 .. Len(frames) : IndexOf(Caller(k)) <= IndexOf(Top.v)
         /\ \A k \in 1 .. Len(frames) - 1 : IndexOf(Caller(k)) < IndexOf(Top.v)
         /\ \A n : n = Len(frames) => Caller(n) = Top.v
         /\ Top.left # {} => NextEdge \in Top.left
<1>1. frames \in Seq([v : Nodes, left : SUBSET AgentEdges])
  BY DEF SearchTypes
<1>2. /\ Len(frames) \in Nat /\ Len(frames) \in 1 .. Len(frames)
      /\ Top = frames[Len(frames)] /\ Top \in [v : Nodes, left : SUBSET AgentEdges]
  <2>1. Len(frames) \in Nat /\ Len(frames) # 0
    BY <1>1
  <2>2. Len(frames) \in 1 .. Len(frames)
    BY <2>1
  <2>3. frames[Len(frames)] \in [v : Nodes, left : SUBSET AgentEdges]
    <3> DEFINE F == [v : Nodes, left : SUBSET AgentEdges]
    <3> HIDE DEF F
    <3>1. frames \in Seq(F)
      BY <1>1 DEF F
    <3>2. frames[Len(frames)] \in F
      BY <2>2, <3>1
    <3> QED
      BY <3>2 DEF F
  <2> QED
    BY <2>1, <2>2, <2>3 DEF Top
<1>3. \A n : n = Len(frames) => Caller(n) = Top.v
  BY <1>2 DEF Caller
<1>4. Top.v \in Stacked /\ Top.left \subseteq Out(Top.v)
  BY <1>2, <1>3 DEF Bookkeeping
<1>5. \A k \in 1 .. Len(frames) - 1 : IndexOf(Caller(k)) < IndexOf(Top.v)
  BY <1>2, <1>3 DEF Bookkeeping
<1>6. Top.v \in Entered /\ IndexOf(Top.v) \in Nat
  BY <1>4, LowFacts, IndexFacts
<1>7. \A k \in 1 .. Len(frames) : IndexOf(Caller(k)) <= IndexOf(Top.v)
  <2> SUFFICES ASSUME NEW k \in 1 .. Len(frames) PROVE IndexOf(Caller(k)) <= IndexOf(Top.v)
    OBVIOUS
  <2>1. IndexOf(Caller(k)) \in Nat
    BY LowFacts, IndexFacts
  <2>2. k = Len(frames) \/ k \in 1 .. Len(frames) - 1
    BY <1>2
  <2> QED
    BY <1>3, <1>5, <1>6, <2>1, <2>2
<1>8. Top.left # {} => NextEdge \in Top.left
  <2>1. Top.left \in SUBSET Nat
    BY <1>2, PositionFacts
  <2> QED
    BY <2>1, MinFacts DEF NextEdge
<1> QED
  BY <1>2, <1>3, <1>4, <1>5, <1>6, <1>7, <1>8

\* The top call has fetched an edge.
LEMMA AdvancedFacts ==
  ASSUME ConfigOK, SearchTypes, Bookkeeping, frames # << >>, Top.left # {}
  PROVE  /\ Advanced \in Seq([v : Nodes, left : SUBSET AgentEdges]) /\ Len(Advanced) = Len(frames)
         /\ \A k \in 1 .. Len(frames) :
              /\ Advanced[k].v = frames[k].v
              /\ Advanced[k].left \subseteq frames[k].left
              /\ frames[k].left \ Advanced[k].left \subseteq {NextEdge}
         /\ NextEdge \in AgentEdges /\ From(NextEdge) = Top.v
         /\ NextEdge \notin Fetched
<1> DEFINE F == [v : Nodes, left : SUBSET AgentEdges]
           new == [v |-> Top.v, left |-> Top.left \ {NextEdge}]
<1>1. frames \in Seq(F)
  BY DEF SearchTypes
<1>2. PICK n : n = Len(frames) /\ n \in 1 .. Len(frames) /\ Top = frames[n] /\ Top \in F
  BY TopFacts
<1>3. new \in F /\ new.v = Top.v /\ new.left = Top.left \ {NextEdge}
  BY <1>2
<1>4. Advanced = [frames EXCEPT ![n] = new]
  BY <1>2 DEF Advanced
<1>5. NextEdge \in Top.left /\ Top.left \subseteq Out(Top.v)
  BY TopFacts
<1>6. NextEdge \in AgentEdges /\ From(NextEdge) = Top.v
  BY <1>5, EdgeFacts
<1>7. NextEdge \notin Fetched
  BY <1>1, <1>2, <1>5 DEF Fetched
<1> HIDE DEF F, new
<1>8. Advanced \in Seq(F) /\ Len(Advanced) = Len(frames)
  BY <1>1, <1>2, <1>3, <1>4
<1>9. \A k \in 1 .. Len(frames) : Advanced[k] = IF k = n THEN new ELSE frames[k]
  BY <1>1, <1>2, <1>4
<1>10. \A k \in 1 .. Len(frames) :
              /\ Advanced[k].v = frames[k].v
              /\ Advanced[k].left \subseteq frames[k].left
              /\ frames[k].left \ Advanced[k].left \subseteq {NextEdge}
  BY <1>2, <1>3, <1>9
<1> QED
  BY <1>6, <1>7, <1>8, <1>10 DEF F

LEMMA LookEffect ==
  ASSUME ConfigOK, SearchTypes, Bookkeeping, cfg' = cfg, frames # << >>, Top.left # {},
         NEW w, w = To(NextEdge), w \in Entered, LookAt(w)
  PROVE  /\ SearchTypes'
         /\ indices' = indices /\ stack' = stack /\ sccs' = sccs /\ Len(frames') = Len(frames)
         /\ \A k \in 1 .. Len(frames) :
              Caller(k)' = Caller(k) /\ frames'[k].left \subseteq frames[k].left
         /\ \A k \in 1 .. Len(frames) - 1 : Low(k)' = Low(k)
         /\ \A n : n = Len(frames) =>
              Low(n)' = IF w \in Stacked THEN Least(Low(n), IndexOf(w)) ELSE Low(n)
         /\ Fetched' \subseteq Fetched \cup {NextEdge}
<1>1. frames' = Advanced /\ indices' = indices /\ stack' = stack /\ sccs' = sccs
  BY DEF LookAt, Entered
<1>2. /\ Advanced \in Seq([v : Nodes, left : SUBSET AgentEdges]) /\ Len(Advanced) = Len(frames)
      /\ \A k \in 1 .. Len(frames) :
           /\ Advanced[k].v = frames[k].v
           /\ Advanced[k].left \subseteq frames[k].left
           /\ frames[k].left \ Advanced[k].left \subseteq {NextEdge}
  BY AdvancedFacts
<1>3. /\ Nodes' = Nodes /\ AgentEdges' = AgentEdges
      /\ \A i : From(i)' = From(i) /\ To(i)' = To(i)
  BY GraphKept
<1>4. /\ Len(frames) \in Nat /\ Len(frames) \in 1 .. Len(frames) /\ Top.v \in Entered
      /\ \A k \in 1 .. Len(frames) - 1 : IndexOf(Caller(k)) < IndexOf(Top.v)
      /\ \A n : n = Len(frames) => Caller(n) = Top.v
  BY TopFacts
<1>5. IF w \in Stacked THEN Lower(Top.v, IndexOf(w)) ELSE lowlink' = lowlink
  BY DEF LookAt, Entered, Stacked
<1>6. /\ lowlink' \in Seq(Nat) /\ Len(lowlink') = Len(lowlink)
      /\ \A i \in 1 .. Len(lowlink') : lowlink'[i] \in 1 .. i
      /\ \A x \in Entered \ {Top.v} : lowlink'[IndexOf(x)] = lowlink[IndexOf(x)]
      /\ lowlink'[IndexOf(Top.v)] =
           IF w \in Stacked THEN Least(lowlink[IndexOf(Top.v)], IndexOf(w)) ELSE lowlink[IndexOf(Top.v)]
  <2>1. CASE w \in Stacked
    <3>1. IndexOf(w) \in Nat \ {0}
      BY IndexFacts
    <3> QED
      BY <1>4, <1>5, <2>1, <3>1, LowerEffect
  <2>2. CASE w \notin Stacked
    BY <1>5, <2>2 DEF SearchTypes
  <2> QED
    BY <2>1, <2>2
<1>7. SearchTypes'
  <2>1. indices \in Seq(Nodes) /\ IsInjective(indices) /\ stack \in Seq(Nodes) /\ sccs \in Seq(SUBSET Nodes)
        /\ Len(lowlink) = Len(indices)
    BY DEF SearchTypes
  <2> QED
    BY <1>1, <1>2, <1>3, <1>6, <2>1 DEF SearchTypes
<1>8. \A k \in 1 .. Len(frames) : Caller(k)' = Caller(k) /\ frames'[k].left \subseteq frames[k].left
  BY <1>1, <1>2 DEF Caller
<1>9. \A x : IndexOf(x)' = IndexOf(x)
  BY <1>1 DEF IndexOf
<1>10. \A k \in 1 .. Len(frames) : Low(k)' = lowlink'[IndexOf(Caller(k))]
  BY <1>8, <1>9 DEF Low
<1>11. \A k \in 1 .. Len(frames) - 1 : Low(k)' = Low(k)
  <2> SUFFICES ASSUME NEW k \in 1 .. Len(frames) - 1 PROVE Low(k)' = Low(k)
    OBVIOUS
  <2>1. k \in 1 .. Len(frames) /\ IndexOf(Caller(k)) < IndexOf(Top.v)
    BY <1>4
  <2>2. Caller(k) \in Entered /\ Caller(k) # Top.v
    BY <2>1, <1>4, LowFacts, IndexFacts
  <2> QED
    BY <1>6, <1>10, <2>1, <2>2 DEF Low
<1>12. \A n : n = Len(frames) =>
              Low(n)' = IF w \in Stacked THEN Least(Low(n), IndexOf(w)) ELSE Low(n)
  BY <1>4, <1>6, <1>10 DEF Low
<1>13. Fetched' \subseteq Fetched \cup {NextEdge}
  <2> SUFFICES ASSUME NEW i \in Fetched', i # NextEdge PROVE i \in Fetched
    OBVIOUS
  <2>1. i \in AgentEdges /\ From(i) \in Entered /\ \A k \in DOMAIN frames' : i \notin frames'[k].left
    BY <1>1, <1>3 DEF Fetched, Entered
  <2>2. \A k \in 1 .. Len(frames) : i \notin Advanced[k].left
    BY <1>1, <1>2, <2>1
  <2>3. \A k \in 1 .. Len(frames) : i \notin frames[k].left
    BY <1>2, <2>2
  <2>4. DOMAIN frames = 1 .. Len(frames)
    BY DEF SearchTypes
  <2> QED
    BY <2>1, <2>3, <2>4 DEF Fetched
<1>14. Len(frames') = Len(frames)
  BY <1>1, <1>2
<1> QED
  BY <1>1, <1>7, <1>8, <1>11, <1>12, <1>13, <1>14

LEMMA LookKeeps ==
  ASSUME ConfigOK, SearchInv, cfg' = cfg, frames # << >>, Top.left # {},
         NEW w, w = To(NextEdge), w \in Entered, LookAt(w)
  PROVE  SearchInv'
<1>0. SearchTypes /\ Bookkeeping /\ StackPaths /\ LowlinksMean /\ ComponentsFound
  BY DEF SearchInv
<1>3. /\ Nodes' = Nodes /\ AgentEdges' = AgentEdges
      /\ \A i : From(i)' = From(i) /\ To(i)' = To(i)
      /\ \A x : Out(x)' = Out(x)
      /\ \A x, y : Connected(x, y)' <=> Connected(x, y)
  BY GraphKept
<1>e. /\ SearchTypes'
      /\ indices' = indices /\ stack' = stack /\ sccs' = sccs /\ Len(frames') = Len(frames)
      /\ \A k \in 1 .. Len(frames) :
           Caller(k)' = Caller(k) /\ frames'[k].left \subseteq frames[k].left
      /\ \A k \in 1 .. Len(frames) - 1 : Low(k)' = Low(k)
      /\ \A n : n = Len(frames) =>
           Low(n)' = IF w \in Stacked THEN Least(Low(n), IndexOf(w)) ELSE Low(n)
      /\ Fetched' \subseteq Fetched \cup {NextEdge}
  BY <1>0, LookEffect
<1>i. /\ Entered' = Entered /\ Stacked' = Stacked /\ Finished' = Finished
      /\ \A x : IndexOf(x)' = IndexOf(x)
  BY <1>e DEF Entered, Stacked, Finished, IndexOf
<1>x. \A x \in Entered : IndexOf(x) \in 1 .. Len(indices)
  BY <1>0, IndexFacts
<1>l. Stacked \subseteq Entered /\ \A k \in 1 .. Len(frames) : Caller(k) \in Entered /\ Low(k) \in 1 .. IndexOf(Caller(k))
  BY <1>0, LowFacts
<1>t. /\ Len(frames) \in Nat /\ Len(frames) \in 1 .. Len(frames)
      /\ Top.v \in Stacked
      /\ \A n : n = Len(frames) => Caller(n) = Top.v
      /\ NextEdge \in AgentEdges /\ From(NextEdge) = Top.v
  BY <1>0, TopFacts, AdvancedFacts
<1>n. \A k \in 1 .. Len(frames) : k \in 1 .. Len(frames) - 1 \/ k = Len(frames)
  BY <1>t
<1>s. \A k \in 1 .. Len(frames) : Low(k)' <= Low(k) /\ Low(k)' \in Nat /\ Low(k) \in Nat
  <2> SUFFICES ASSUME NEW k \in 1 .. Len(frames) PROVE Low(k)' <= Low(k) /\ Low(k)' \in Nat /\ Low(k) \in Nat
    OBVIOUS
  <2>1. Low(k) \in Nat /\ IndexOf(w) \in Nat
    BY <1>l, <1>x
  <2> QED
    BY <1>e, <1>n, <2>1 DEF Least
<1>4. Bookkeeping'
  <2>1. \A k \in 1 .. Len(frames') : Caller(k)' \in Stacked' /\ frames'[k].left \subseteq Out(Caller(k))'
    <3> SUFFICES ASSUME NEW k \in 1 .. Len(frames')
                 PROVE  Caller(k)' \in Stacked' /\ frames'[k].left \subseteq Out(Caller(k))'
      OBVIOUS
    <3>1. k \in 1 .. Len(frames) /\ Caller(k)' = Caller(k) /\ frames'[k].left \subseteq frames[k].left
      BY <1>e
    <3>2. Caller(k) \in Stacked /\ frames[k].left \subseteq Out(Caller(k))
      BY <1>0, <3>1 DEF Bookkeeping
    <3> QED
      BY <1>3, <1>i, <3>1, <3>2
  <2>2. \A k, l \in 1 .. Len(frames') : k < l => IndexOf(Caller(k))' < IndexOf(Caller(l))'
    BY <1>0, <1>e, <1>i DEF Bookkeeping
  <2>3. \A i \in Fetched' : To(i)' \in Entered'
    BY <1>0, <1>3, <1>e, <1>i DEF Bookkeeping
  <2>4. \A i, j \in 1 .. Len(stack') : i < j => IndexOf(stack[i])' < IndexOf(stack[j])'
    BY <1>0, <1>e, <1>i DEF Bookkeeping
  <2>5. Entered' = Stacked' \cup Finished' /\ Stacked' \cap Finished' = {}
    BY <1>0, <1>i DEF Bookkeeping
  <2> QED
    BY <2>1, <2>2, <2>3, <2>4, <2>5 DEF Bookkeeping
<1>5. StackPaths'
  <2>1. \A x, y \in Stacked' : IndexOf(x)' <= IndexOf(y)' => Connected(x, y)'
    BY <1>0, <1>3, <1>i DEF StackPaths
  <2>2. ASSUME NEW y \in Stacked'
        PROVE  \E k \in 1 .. Len(frames') : IndexOf(Caller(k))' <= IndexOf(y)' /\ Connected(y, Caller(k))'
    <3>1. PICK k \in 1 .. Len(frames) : IndexOf(Caller(k)) <= IndexOf(y) /\ Connected(y, Caller(k))
      BY <1>0, <1>i, <2>2 DEF StackPaths
    <3>2. Caller(k)' = Caller(k) /\ k \in 1 .. Len(frames')
      BY <1>e
    <3> QED
      BY <1>3, <1>i, <3>1, <3>2
  <2> QED
    BY <2>1, <2>2 DEF StackPaths
<1>6. LowlinksMean'
  <2>1. ASSUME NEW k \in 1 .. Len(frames')
        PROVE  \E y \in Stacked' : Connected(Caller(k), y)' /\ IndexOf(y)' = Low(k)'
    <3>1. k \in 1 .. Len(frames) /\ Caller(k)' = Caller(k)
      BY <1>e
    <3>2. CASE Low(k)' = Low(k)
      <4>1. PICK y \in Stacked : Connected(Caller(k), y) /\ IndexOf(y) = Low(k)
        BY <1>0, <3>1 DEF LowlinksMean
      <4> QED
        BY <1>3, <1>i, <3>1, <3>2, <4>1
    <3>3. CASE Low(k)' # Low(k)
      <4>1. k = Len(frames) /\ w \in Stacked /\ Low(k)' = IndexOf(w)
        BY <1>e, <1>n, <3>1, <3>3 DEF Least
      <4>2. Connected(Top.v, w)
        BY <1>t, Paths
      <4>3. Caller(k) = Top.v
        BY <1>t, <4>1
      <4>4. Connected(Caller(k), w)'
        BY <1>3, <3>1, <4>2, <4>3
      <4> QED
        BY <1>i, <4>1, <4>4
    <3> QED
      BY <3>2, <3>3
  <2>2. ASSUME NEW k \in 1 .. Len(frames'), NEW i \in Fetched', From(i)' \in Stacked', To(i)' \in Stacked',
               IndexOf(Caller(k))' <= IndexOf(From(i))'
        PROVE  \E l \in k .. Len(frames') : Low(l)' <= IndexOf(To(i))'
    <3>1. k \in 1 .. Len(frames) /\ From(i) \in Stacked /\ To(i) \in Stacked
      BY <1>3, <1>e, <1>i, <2>2
    <3>2. IndexOf(To(i))' = IndexOf(To(i)) /\ IndexOf(To(i)) \in Nat
      BY <1>3, <1>i, <1>l, <1>x, <3>1
    <3>3. CASE i \in Fetched
      <4>1. IndexOf(Caller(k)) <= IndexOf(From(i))
        BY <1>3, <1>e, <1>i, <2>2
      <4>2. PICK l \in k .. Len(frames) : Low(l) <= IndexOf(To(i))
        BY <1>0, <3>1, <3>3, <4>1 DEF LowlinksMean
      <4>3. l \in 1 .. Len(frames)
        BY <1>t, <3>1
      <4>4. Low(l)' <= IndexOf(To(i))
        BY <1>s, <3>2, <4>2, <4>3
      <4> QED
        BY <1>e, <3>2, <4>2, <4>4
    <3>4. CASE i = NextEdge
      <4>1. PICK n : n = Len(frames)
        OBVIOUS
      <4>2. Low(n)' = Least(Low(n), IndexOf(w)) /\ To(i) = w
        BY <1>e, <3>1, <3>4, <4>1
      <4>3. n \in 1 .. Len(frames) /\ n \in k .. Len(frames')
        BY <1>e, <1>t, <3>1, <4>1
      <4>4. Low(n) \in Nat /\ IndexOf(w) \in Nat
        BY <1>s, <3>2, <4>2, <4>3
      <4>5. Low(n)' <= IndexOf(w)
        BY <4>2, <4>4 DEF Least
      <4> QED
        BY <3>2, <4>2, <4>3, <4>5
    <3> QED
      BY <1>e, <3>3, <3>4
  <2> QED
    BY <2>1, <2>2 DEF LowlinksMean
<1>7. ComponentsFound'
  BY <1>0, <1>e, ComponentsKept
<1> QED
  BY <1>4, <1>5, <1>6, <1>7, <1>e DEF SearchInv

-----------------------------------------------------------------------------
(* Returning from a call. *)

\* What is on the stack from an agent on.
Above(v) == {x \in Stacked : IndexOf(v) <= IndexOf(x)}

LEMMA PopEffect ==
  ASSUME SearchTypes, Bookkeeping, NEW v \in Stacked, PopComponent(v)
  PROVE  /\ stack' \in Seq(Nodes) /\ Len(stack') <= Len(stack) /\ Len(stack') \in Nat
         /\ \A i \in 1 .. Len(stack') : i \in 1 .. Len(stack) /\ stack'[i] = stack[i]
         /\ sccs' = Append(sccs, Above(v))
         /\ Stacked' = Stacked \ Above(v)
         /\ Finished' = Finished \cup Above(v)
<1> DEFINE k == CHOOSE i \in DOMAIN stack : stack[i] = v
<1>1. stack \in Seq(Nodes) /\ sccs \in Seq(SUBSET Nodes) /\ DOMAIN stack = 1 .. Len(stack) /\ Len(stack) \in Nat
  BY DEF SearchTypes
<1>2. k \in 1 .. Len(stack) /\ stack[k] = v
  BY <1>1, LowFacts
<1>3. stack' = SubSeq(stack, 1, k - 1) /\ sccs' = Append(sccs, {stack[i] : i \in k .. Len(stack)})
  BY DEF PopComponent
<1> HIDE DEF k
<1>4. k - 1 \in 0 .. Len(stack) - 1
  BY <1>1, <1>2
<1>5. stack' \in Seq(Nodes) /\ Len(stack') = k - 1
  BY <1>1, <1>3, <1>4
<1>6. \A i \in 1 .. k - 1 : stack'[i] = stack[i]
  BY <1>1, <1>3, <1>4
<1>7. \A i \in 1 .. Len(stack) : IndexOf(stack[i]) \in Nat /\ IndexOf(v) \in Nat
  BY LowFacts, IndexFacts
<1>8. \A i \in 1 .. k - 1 : IndexOf(stack[i]) < IndexOf(v)
  BY <1>1, <1>2 DEF Bookkeeping
<1>9. \A i \in k .. Len(stack) : IndexOf(v) <= IndexOf(stack[i])
  <2> SUFFICES ASSUME NEW i \in k .. Len(stack) PROVE IndexOf(v) <= IndexOf(stack[i])
    OBVIOUS
  <2>1. i \in 1 .. Len(stack) /\ (i = k \/ k < i)
    BY <1>1, <1>2
  <2>2. k < i => IndexOf(stack[k]) < IndexOf(stack[i])
    BY <1>2, <2>1 DEF Bookkeeping
  <2> QED
    BY <1>2, <1>7, <2>1, <2>2
<1>10. \A x \in Stacked : \E i \in 1 .. Len(stack) : stack[i] = x
  BY LowFacts
<1>11. {stack[i] : i \in k .. Len(stack)} = Above(v)
  <2>1. \A i \in k .. Len(stack) : stack[i] \in Above(v)
    BY <1>1, <1>2, <1>9, LowFacts DEF Above
  <2>2. ASSUME NEW x \in Above(v) PROVE \E i \in k .. Len(stack) : stack[i] = x
    <3>1. PICK i \in 1 .. Len(stack) : stack[i] = x
      BY <1>10 DEF Above
    <3>2. ~(i \in 1 .. k - 1)
      BY <1>7, <1>8, <3>1 DEF Above
    <3> QED
      BY <1>1, <1>2, <3>1, <3>2
  <2> QED
    BY <2>1, <2>2
<1>12. Stacked' = Stacked \ Above(v)
  <2>1. Stacked' = {stack'[i] : i \in 1 .. k - 1}
    BY <1>5 DEF Stacked, ToSet
  <2>2. \A i \in 1 .. k - 1 : stack[i] \in Stacked \ Above(v)
    BY <1>1, <1>2, <1>7, <1>8, LowFacts DEF Above
  <2>3. ASSUME NEW x \in Stacked \ Above(v) PROVE \E i \in 1 .. k - 1 : stack[i] = x
    <3>1. PICK i \in 1 .. Len(stack) : stack[i] = x
      BY <1>10
    <3>2. ~(i \in k .. Len(stack))
      BY <1>9, <3>1 DEF Above
    <3> QED
      BY <1>1, <1>2, <3>1, <3>2
  <2> QED
    BY <1>6, <2>1, <2>2, <2>3
<1>13. sccs' = Append(sccs, Above(v))
  BY <1>3, <1>11
<1>14. Finished' = Finished \cup Above(v)
  <2>1. ToSet(sccs') = ToSet(sccs) \cup {Above(v)}
    BY <1>1, <1>13, AppendedSet
  <2> QED
    BY <2>1 DEF Finished
<1> QED
  BY <1>1, <1>2, <1>4, <1>5, <1>6, <1>12, <1>13, <1>14

\* What happens to the calls and the lowlinks.
LEMMA ReturnEffect ==
  ASSUME ConfigOK, SearchTypes, Bookkeeping, cfg' = cfg, frames # << >>, Top.left = {}, ReturnFrom(Top.v)
  PROVE  /\ indices' = indices
         /\ frames' \in Seq([v : Nodes, left : SUBSET AgentEdges]) /\ Len(frames') = Len(frames) - 1
         /\ lowlink' \in Seq(Nat) /\ Len(lowlink') = Len(lowlink)
         /\ \A i \in 1 .. Len(lowlink') : lowlink'[i] \in 1 .. i
         /\ \A k \in 1 .. Len(frames) - 1 : frames'[k] = frames[k] /\ Caller(k)' = Caller(k)
         /\ \A k \in 1 .. Len(frames) - 1 :
              Low(k)' = IF k = Len(frames) - 1 THEN Least(Low(k), lowlink[IndexOf(Top.v)]) ELSE Low(k)
         /\ Fetched' \subseteq Fetched
<1> DEFINE F == [v : Nodes, left : SUBSET AgentEdges]
<1>1. frames \in Seq(F) /\ lowlink \in Seq(Nat) /\ Len(lowlink) = Len(indices)
      /\ \A i \in 1 .. Len(lowlink) : lowlink[i] \in 1 .. i
  BY DEF SearchTypes
<1>2. PICK n : n = Len(frames) /\ n \in Nat /\ n \in 1 .. Len(frames)
  BY TopFacts
<1>3. Top.v \in Entered /\ IndexOf(Top.v) \in 1 .. Len(indices)
  BY TopFacts, IndexFacts
<1>4. indices' = indices /\ frames' = SubSeq(frames, 1, n - 1)
  BY <1>2 DEF ReturnFrom, Front
<1>5. n - 1 \in 0 .. Len(frames)
  BY <1>2
<1> HIDE DEF F
<1>6. frames' \in Seq(F) /\ Len(frames') = n - 1
  BY <1>1, <1>2, <1>4, <1>5
<1>7. \A k \in 1 .. n - 1 : frames'[k] = frames[k]
  BY <1>1, <1>2, <1>4, <1>5
<1>8. \A k \in 1 .. n - 1 : Caller(k)' = Caller(k)
  BY <1>7 DEF Caller
<1>9. \A x : IndexOf(x)' = IndexOf(x)
  BY <1>4 DEF IndexOf
<1>10. \A k \in 1 .. n - 1 : Low(k)' = lowlink'[IndexOf(Caller(k))]
  BY <1>8, <1>9 DEF Low
<1>11. /\ lowlink' \in Seq(Nat) /\ Len(lowlink') = Len(lowlink)
       /\ \A i \in 1 .. Len(lowlink') : lowlink'[i] \in 1 .. i
       /\ \A k \in 1 .. n - 1 :
            Low(k)' = IF k = n - 1 THEN Least(Low(k), lowlink[IndexOf(Top.v)]) ELSE Low(k)
  <2>1. CASE Front(frames) = << >>
    <3>1. lowlink' = lowlink
      BY <2>1 DEF ReturnFrom
    <3>2. n - 1 = 0
      <4>1. frames' = << >>
        BY <2>1 DEF ReturnFrom
      <4>2. Len(frames') = 0
        BY <4>1
      <4> QED
        BY <1>6, <4>2
    <3>3. 1 .. n - 1 = {}
      BY <3>2
    <3> QED
      BY <1>1, <3>1, <3>3
  <2>2. CASE Front(frames) # << >>
    <3>1. frames' = Front(frames) /\ Lower(Last(Front(frames)).v, lowlink[IndexOf(Top.v)])
      BY <2>2 DEF ReturnFrom
    <3>2. n - 1 # 0
      BY <1>6, <2>2, <3>1
    <3>3. n - 1 \in 1 .. n - 1 /\ n - 1 \in 1 .. Len(frames)
      BY <1>2, <3>2
    <3>4. PICK m : m = n - 1
      OBVIOUS
    <3>5. Last(Front(frames)).v = Caller(m)
      BY <1>6, <1>7, <3>1, <3>3, <3>4 DEF Last, Caller
    <3>6. Caller(m) \in Entered
      BY <3>3, <3>4, LowFacts
    <3>7. lowlink[IndexOf(Top.v)] \in Nat \ {0}
      BY <1>1, <1>3
    <3>8. /\ lowlink' \in Seq(Nat) /\ Len(lowlink') = Len(lowlink)
          /\ \A i \in 1 .. Len(lowlink') : lowlink'[i] \in 1 .. i
          /\ \A x \in Entered \ {Caller(m)} : lowlink'[IndexOf(x)] = lowlink[IndexOf(x)]
          /\ lowlink'[IndexOf(Caller(m))] = Least(lowlink[IndexOf(Caller(m))], lowlink[IndexOf(Top.v)])
      BY <3>1, <3>5, <3>6, <3>7, LowerEffect
    <3>9. \A k \in 1 .. n - 1 : k # m => Caller(k) \in Entered \ {Caller(m)}
      <4> SUFFICES ASSUME NEW k \in 1 .. n - 1, k # m PROVE Caller(k) \in Entered \ {Caller(m)}
        OBVIOUS
      <4>1. k \in 1 .. Len(frames) /\ m \in 1 .. Len(frames) /\ k < m
        BY <1>2, <3>3, <3>4
      <4>2. IndexOf(Caller(k)) < IndexOf(Caller(m))
        BY <4>1 DEF Bookkeeping
      <4>3. Caller(k) \in Entered /\ IndexOf(Caller(m)) \in Nat
        BY <3>6, <4>1, LowFacts, IndexFacts
      <4> QED
        BY <4>2, <4>3
    <3> QED
      BY <1>10, <3>4, <3>8, <3>9 DEF Low
  <2> QED
    BY <2>1, <2>2
<1>12. Fetched' \subseteq Fetched
  <2> SUFFICES ASSUME NEW i \in Fetched' PROVE i \in Fetched
    OBVIOUS
  <2>1. AgentEdges' = AgentEdges /\ From(i)' = From(i)
    BY GraphKept
  <2>2. i \in AgentEdges /\ From(i) \in Entered /\ \A k \in 1 .. n - 1 : i \notin frames'[k].left
    BY <1>4, <1>6, <2>1 DEF Fetched, Entered
  <2>3. frames[n].left = {}
    BY <1>2 DEF Top
  <2>4. \A k \in 1 .. Len(frames) : k \in 1 .. n - 1 \/ k = n
    BY <1>2
  <2>5. \A k \in 1 .. Len(frames) : i \notin frames[k].left
    BY <1>7, <2>2, <2>3, <2>4
  <2> QED
    BY <1>1, <2>2, <2>5 DEF Fetched
<1> QED
  BY <1>2, <1>4, <1>6, <1>7, <1>8, <1>11, <1>12 DEF F

\* What a call knows when it has followed all edges of its agent: all above the agent on the
\* stack reach it, and all their edges were followed.
LEMMA CallOver ==
  ASSUME ConfigOK, SearchInv, frames # << >>, Top.left = {}
  PROVE  /\ \A x \in Above(Top.v) : Connected(x, Top.v) /\ Connected(Top.v, x)
         /\ \A i \in AgentEdges : From(i) \in Above(Top.v) => i \in Fetched
<1>0. SearchTypes /\ Bookkeeping /\ StackPaths
  BY DEF SearchInv
<1>1. /\ Top.v \in Stacked
      /\ \A k \in 1 .. Len(frames) : IndexOf(Caller(k)) <= IndexOf(Top.v)
      /\ \A k \in 1 .. Len(frames) - 1 : IndexOf(Caller(k)) < IndexOf(Top.v)
      /\ Len(frames) \in Nat
  BY <1>0, TopFacts
<1>2. \A x \in Stacked : IndexOf(x) \in Nat /\ x \in Entered
  BY <1>0, LowFacts, IndexFacts
<1>3. ASSUME NEW x \in Above(Top.v) PROVE Connected(x, Top.v) /\ Connected(Top.v, x)
  <2>1. x \in Stacked /\ IndexOf(Top.v) <= IndexOf(x)
    BY DEF Above
  <2>2. PICK k \in 1 .. Len(frames) : Connected(x, Caller(k))
    BY <1>0, <2>1 DEF StackPaths
  <2>3. Caller(k) \in Stacked /\ IndexOf(Caller(k)) <= IndexOf(Top.v)
    BY <1>0, <1>1 DEF Bookkeeping
  <2>4. Connected(Caller(k), Top.v) /\ Connected(Top.v, x)
    BY <1>0, <1>1, <2>1, <2>3 DEF StackPaths
  <2> QED
    BY <2>2, <2>4, Paths
<1>4. ASSUME NEW i \in AgentEdges, From(i) \in Above(Top.v) PROVE i \in Fetched
  <2>1. From(i) \in Stacked /\ IndexOf(Top.v) <= IndexOf(From(i))
    BY <1>4 DEF Above
  <2>2. ASSUME NEW k \in 1 .. Len(frames), i \in frames[k].left PROVE FALSE
    <3>1. From(i) = Caller(k)
      BY <1>0, <2>2, EdgeFacts DEF Bookkeeping
    <3>2. k = Len(frames)
      BY <1>1, <1>2, <2>1, <3>1
    <3> QED
      BY <2>2, <3>2 DEF Top
  <2>3. DOMAIN frames = 1 .. Len(frames)
    BY <1>0 DEF SearchTypes
  <2> QED
    BY <1>2, <2>1, <2>2, <2>3 DEF Fetched
<1> QED
  BY <1>3, <1>4

\* The call is not the first of its component: its agent stays on the stack.
LEMMA StayKeeps ==
  ASSUME ConfigOK, SearchInv, cfg' = cfg, frames # << >>, Top.left = {}, ReturnFrom(Top.v),
         lowlink[IndexOf(Top.v)] # IndexOf(Top.v)
  PROVE  SearchInv'
<1>0. SearchTypes /\ Bookkeeping /\ StackPaths /\ LowlinksMean /\ ComponentsFound
  BY DEF SearchInv
<1>3. /\ Nodes' = Nodes /\ AgentEdges' = AgentEdges
      /\ \A i : From(i)' = From(i) /\ To(i)' = To(i)
      /\ \A x : Out(x)' = Out(x)
      /\ \A x, y : Connected(x, y)' <=> Connected(x, y)
  BY GraphKept
<1>s. stack' = stack /\ sccs' = sccs
  BY DEF ReturnFrom
<1>t. PICK n : /\ n = Len(frames) /\ n \in Nat /\ n \in 1 .. n /\ Caller(n) = Top.v /\ Top.v \in Stacked
               /\ \A k \in 1 .. n - 1 : IndexOf(Caller(k)) < IndexOf(Top.v)
  BY <1>0, TopFacts
<1>e. /\ indices' = indices
      /\ frames' \in Seq([v : Nodes, left : SUBSET AgentEdges]) /\ Len(frames') = n - 1
      /\ lowlink' \in Seq(Nat) /\ Len(lowlink') = Len(lowlink)
      /\ \A i \in 1 .. Len(lowlink') : lowlink'[i] \in 1 .. i
      /\ \A k \in 1 .. n - 1 : frames'[k] = frames[k] /\ Caller(k)' = Caller(k)
      /\ \A k \in 1 .. n - 1 : Low(k)' = IF k = n - 1 THEN Least(Low(k), Low(n)) ELSE Low(k)
      /\ Fetched' \subseteq Fetched
  BY <1>0, <1>t, ReturnEffect DEF Low
<1>i. /\ Entered' = Entered /\ Stacked' = Stacked /\ Finished' = Finished
      /\ \A x : IndexOf(x)' = IndexOf(x)
  BY <1>e, <1>s DEF Entered, Stacked, Finished, IndexOf
<1>l. /\ Stacked \subseteq Entered /\ \A x \in Stacked : IndexOf(x) \in Nat
      /\ \A k \in 1 .. n : Caller(k) \in Stacked /\ Low(k) \in Nat /\ Low(k) <= IndexOf(Caller(k))
  <2>1. Stacked \subseteq Entered /\ \A x \in Entered : IndexOf(x) \in Nat
    BY <1>0, LowFacts, IndexFacts
  <2>2. \A k \in 1 .. n : Caller(k) \in Stacked
    BY <1>0, <1>t DEF Bookkeeping
  <2>3. \A k \in 1 .. n : Low(k) \in 1 .. IndexOf(Caller(k)) /\ IndexOf(Caller(k)) \in Nat
    BY <1>0, <1>t, <2>1, <2>2, LowFacts
  <2> QED
    BY <2>1, <2>2, <2>3
<1>v. Low(n) < IndexOf(Top.v)
  BY <1>l, <1>t DEF Low
<1>n. \A k \in 1 .. n : k \in 1 .. n - 1 \/ k = n
  BY <1>t
<1>m. \A k \in 1 .. n - 1 : k \in 1 .. n /\ k \in 1 .. Len(frames)
  BY <1>t
<1>d. ASSUME NEW k \in 1 .. n - 1
      PROVE  Low(k)' <= Low(k) /\ Low(k)' \in Nat /\ (k = n - 1 => Low(k)' <= Low(n))
  <2>1. Low(k) \in Nat /\ Low(n) \in Nat
    BY <1>l, <1>m, <1>t
  <2>2. Low(k)' = IF k = n - 1 THEN Least(Low(k), Low(n)) ELSE Low(k)
    BY <1>e
  <2> QED
    BY <2>1, <2>2 DEF Least
<1>1. SearchTypes'
  <2>1. /\ indices \in Seq(Nodes) /\ IsInjective(indices) /\ stack \in Seq(Nodes) /\ sccs \in Seq(SUBSET Nodes)
        /\ Len(lowlink) = Len(indices)
    BY <1>0 DEF SearchTypes
  <2> QED
    BY <1>3, <1>e, <1>s, <2>1 DEF SearchTypes
<1>4. Bookkeeping'
  <2>1. \A k \in 1 .. Len(frames') : Caller(k)' \in Stacked' /\ frames'[k].left \subseteq Out(Caller(k))'
    <3> SUFFICES ASSUME NEW k \in 1 .. Len(frames')
                 PROVE  Caller(k)' \in Stacked' /\ frames'[k].left \subseteq Out(Caller(k))'
      OBVIOUS
    <3>1. k \in 1 .. Len(frames) /\ Caller(k)' = Caller(k) /\ frames'[k] = frames[k]
      BY <1>e, <1>m
    <3>2. Caller(k) \in Stacked /\ frames[k].left \subseteq Out(Caller(k))
      BY <1>0, <3>1 DEF Bookkeeping
    <3> QED
      BY <1>3, <1>i, <3>1, <3>2
  <2>2. \A k, l \in 1 .. Len(frames') : k < l => IndexOf(Caller(k))' < IndexOf(Caller(l))'
    <3>1. \A k \in 1 .. n - 1 : k \in 1 .. Len(frames)
      BY <1>t
    <3> QED
      BY <1>0, <1>e, <1>i, <3>1 DEF Bookkeeping
  <2>3. \A i \in Fetched' : To(i)' \in Entered'
    BY <1>0, <1>3, <1>e, <1>i DEF Bookkeeping
  <2>4. \A i, j \in 1 .. Len(stack') : i < j => IndexOf(stack[i])' < IndexOf(stack[j])'
    BY <1>0, <1>s, <1>i DEF Bookkeeping
  <2>5. Entered' = Stacked' \cup Finished' /\ Stacked' \cap Finished' = {}
    BY <1>0, <1>i DEF Bookkeeping
  <2> QED
    BY <2>1, <2>2, <2>3, <2>4, <2>5 DEF Bookkeeping
<1>5. StackPaths'
  <2>1. \A x, y \in Stacked' : IndexOf(x)' <= IndexOf(y)' => Connected(x, y)'
    BY <1>0, <1>3, <1>i DEF StackPaths
  <2>2. ASSUME NEW y \in Stacked
        PROVE  \E k \in 1 .. n - 1 : IndexOf(Caller(k)) <= IndexOf(y) /\ Connected(y, Caller(k))
    <3>1. PICK k \in 1 .. n : IndexOf(Caller(k)) <= IndexOf(y) /\ Connected(y, Caller(k))
      BY <1>0, <1>t DEF StackPaths
    <3>2. CASE k = n
      <4>1. PICK z \in Stacked : Connected(Top.v, z) /\ IndexOf(z) = Low(n)
        BY <1>0, <1>t DEF LowlinksMean
      <4>2. PICK j \in 1 .. n : IndexOf(Caller(j)) <= IndexOf(z) /\ Connected(z, Caller(j))
        BY <1>0, <1>t DEF StackPaths
      <4>3. j # n
        BY <1>l, <1>t, <1>v, <4>1, <4>2
      <4>4. IndexOf(Caller(j)) <= IndexOf(y)
        BY <1>l, <1>t, <1>v, <3>1, <3>2, <4>1, <4>2
      <4>5. Connected(y, Caller(j))
        BY <1>t, <3>1, <3>2, <4>1, <4>2, Paths
      <4> QED
        BY <1>n, <4>3, <4>4, <4>5
    <3> QED
      BY <1>n, <3>1, <3>2
  <2>3. \A y \in Stacked' : \E k \in 1 .. Len(frames') :
          IndexOf(Caller(k))' <= IndexOf(y)' /\ Connected(y, Caller(k))'
    <3> SUFFICES ASSUME NEW y \in Stacked
                 PROVE  \E k \in 1 .. n - 1 : IndexOf(Caller(k))' <= IndexOf(y)' /\ Connected(y, Caller(k))'
      BY <1>e, <1>i
    <3>1. PICK k \in 1 .. n - 1 : IndexOf(Caller(k)) <= IndexOf(y) /\ Connected(y, Caller(k))
      BY <2>2
    <3> QED
      BY <1>3, <1>e, <1>i, <3>1
  <2> QED
    BY <2>1, <2>3 DEF StackPaths
<1>6. LowlinksMean'
  <2>1. ASSUME NEW k \in 1 .. n - 1
        PROVE  \E y \in Stacked : Connected(Caller(k), y) /\ IndexOf(y) = Low(k)'
    <3>1. k \in 1 .. n
      BY <1>t
    <3>2. CASE Low(k)' = Low(k)
      BY <1>0, <1>t, <3>1, <3>2 DEF LowlinksMean
    <3>3. CASE Low(k)' # Low(k)
      <4>1. Low(k)' = Low(n)
        BY <1>e, <3>3 DEF Least
      <4>2. PICK y \in Stacked : Connected(Top.v, y) /\ IndexOf(y) = Low(n)
        BY <1>0, <1>t DEF LowlinksMean
      <4>3. Caller(k) \in Stacked /\ IndexOf(Caller(k)) <= IndexOf(Top.v)
        <5>1. Caller(k) \in Stacked /\ IndexOf(Caller(k)) < IndexOf(Top.v)
          BY <1>l, <1>t, <3>1
        <5>2. IndexOf(Caller(k)) \in Nat /\ IndexOf(Top.v) \in Nat
          BY <1>l, <1>t, <5>1
        <5> QED
          BY <5>1, <5>2
      <4>4. Connected(Caller(k), Top.v)
        BY <1>0, <1>t, <4>3 DEF StackPaths
      <4> QED
        BY <4>1, <4>2, <4>4, Paths
    <3> QED
      BY <3>2, <3>3
  <2>2. ASSUME NEW k \in 1 .. n - 1, NEW i \in Fetched', From(i) \in Stacked, To(i) \in Stacked,
               IndexOf(Caller(k)) <= IndexOf(From(i))
        PROVE  \E l \in k .. n - 1 : Low(l)' <= IndexOf(To(i))
    <3>1. k \in 1 .. Len(frames) /\ i \in Fetched
      BY <1>e, <1>t
    <3>2. PICK l \in k .. n : Low(l) <= IndexOf(To(i))
      BY <1>0, <1>t, <2>2, <3>1 DEF LowlinksMean
    <3>3. IndexOf(To(i)) \in Nat
      BY <1>l, <2>2
    <3>4. PICK m : m = n - 1
      OBVIOUS
    <3>5. m \in 1 .. n - 1 /\ m \in k .. n - 1 /\ m \in 1 .. n
      BY <1>t, <3>4
    <3>6. CASE l = n
      <4>2. Low(m)' <= Low(n) /\ Low(m)' \in Nat
        BY <1>d, <3>4, <3>5
      <4> QED
        <5>1. Low(n) \in Nat /\ Low(n) <= IndexOf(To(i))
          BY <1>l, <1>t, <3>2, <3>6
        <5>2. Low(m)' <= IndexOf(To(i))
          BY <3>3, <4>2, <5>1
        <5> QED
          BY <3>5, <5>2
    <3>7. CASE l # n
      <4>1. l \in k .. n - 1 /\ l \in 1 .. n - 1 /\ l \in 1 .. n
        BY <1>t, <3>7
      <4>2. Low(l)' <= Low(l) /\ Low(l)' \in Nat
        BY <1>d, <4>1
      <4> QED
        BY <1>l, <3>2, <3>3, <4>1, <4>2
    <3> QED
      BY <3>6, <3>7
  <2>3. \A k \in 1 .. Len(frames') : \E y \in Stacked' : Connected(Caller(k), y)' /\ IndexOf(y)' = Low(k)'
    BY <1>3, <1>e, <1>i, <2>1
  <2>4. \A k \in 1 .. Len(frames'), i \in Fetched' :
          From(i)' \in Stacked' /\ To(i)' \in Stacked' /\ IndexOf(Caller(k))' <= IndexOf(From(i))' =>
            \E l \in k .. Len(frames') : Low(l)' <= IndexOf(To(i))'
    <3> SUFFICES ASSUME NEW k \in 1 .. Len(frames'), NEW i \in Fetched',
                        From(i)' \in Stacked', To(i)' \in Stacked', IndexOf(Caller(k))' <= IndexOf(From(i))'
                 PROVE  \E l \in k .. Len(frames') : Low(l)' <= IndexOf(To(i))'
      OBVIOUS
    <3>1. k \in 1 .. n - 1 /\ From(i) \in Stacked /\ To(i) \in Stacked /\ IndexOf(Caller(k)) <= IndexOf(From(i))
      BY <1>3, <1>e, <1>i
    <3>2. IndexOf(To(i))' = IndexOf(To(i))
      BY <1>3, <1>i
    <3> QED
      BY <1>e, <2>2, <3>1, <3>2
  <2> QED
    BY <2>3, <2>4 DEF LowlinksMean
<1>7. ComponentsFound'
  BY <1>0, <1>s, ComponentsKept
<1> QED
  BY <1>1, <1>4, <1>5, <1>6, <1>7 DEF SearchInv

\* All that is finished lies in the components found.
LEMMA BelowFacts ==
  ASSUME SearchTypes
  PROVE  /\ Len(sccs) \in Nat /\ Below(Len(sccs)) = Finished
         /\ \A i : Below(i) \subseteq UNION {sccs[j] : j \in 1 .. i}
         /\ ComponentsFound => Closed(Finished)
<1>1. sccs \in Seq(SUBSET Nodes)
  BY DEF SearchTypes
<1>2. Len(sccs) \in Nat /\ Below(Len(sccs)) = Finished
  BY <1>1 DEF Below, Finished, ToSet
<1>3. ASSUME ComponentsFound PROVE Closed(Finished)
  <2>1. CASE Len(sccs) = 0
    <3>1. DOMAIN sccs = {}
      BY <1>1, <2>1
    <3>2. Finished = {}
      BY <3>1 DEF Finished, ToSet
    <3> QED
      BY <3>2 DEF Closed
  <2>2. CASE Len(sccs) # 0
    BY <1>2, <1>3, <2>2 DEF ComponentsFound
  <2> QED
    BY <2>1, <2>2
<1> QED
  BY <1>2, <1>3 DEF Below

\* What is above a call that is the first of its component is a component.
LEMMA PoppedComponent ==
  ASSUME ConfigOK, SearchInv, frames # << >>, Top.left = {}, lowlink[IndexOf(Top.v)] = IndexOf(Top.v)
  PROVE  /\ Above(Top.v) # {} /\ Above(Top.v) \subseteq Stacked
         /\ \A u, w \in Above(Top.v) : Connected(u, w)
         /\ Above(Top.v) \cap Finished = {}
         /\ Closed(Finished \cup Above(Top.v))
<1>0. SearchTypes /\ Bookkeeping /\ LowlinksMean /\ ComponentsFound
  BY DEF SearchInv
<1>1. PICK n : /\ n = Len(frames) /\ n \in Nat /\ n \in 1 .. n /\ Caller(n) = Top.v /\ Top.v \in Stacked
  BY <1>0, TopFacts
<1>2. \A x \in Stacked : IndexOf(x) \in Nat
  BY <1>0, LowFacts, IndexFacts
<1>3. Top.v \in Above(Top.v) /\ Above(Top.v) \subseteq Stacked
  BY <1>1, <1>2 DEF Above
<1>4. \A u, w \in Above(Top.v) : Connected(u, w)
  BY CallOver, Paths
<1>5. Above(Top.v) \cap Finished = {}
  BY <1>0, <1>3 DEF Bookkeeping
<1>6. ASSUME NEW i \in AgentEdges, From(i) \in Above(Top.v) PROVE To(i) \in Finished \cup Above(Top.v)
  <2>1. i \in Fetched /\ From(i) \in Stacked /\ IndexOf(Top.v) <= IndexOf(From(i))
    BY <1>6, CallOver DEF Above
  <2>2. To(i) \in Stacked \cup Finished
    BY <1>0, <2>1 DEF Bookkeeping
  <2>3. CASE To(i) \in Stacked
    <3>1. PICK l \in n .. n : Low(l) <= IndexOf(To(i))
      BY <1>0, <1>1, <2>1, <2>3 DEF LowlinksMean
    <3>2. l = n
      BY <1>1, <3>1
    <3>3. IndexOf(Top.v) <= IndexOf(To(i))
      BY <1>1, <3>1, <3>2 DEF Low
    <3> QED
      BY <2>3, <3>3 DEF Above
  <2> QED
    BY <2>2, <2>3
<1>7. Closed(Finished)
  BY <1>0, BelowFacts
<1>8. Closed(Finished \cup Above(Top.v))
  BY <1>6, <1>7 DEF Closed
<1> QED
  BY <1>3, <1>4, <1>5, <1>8

\* The call is the first of its component, which is taken off the stack.
LEMMA PopKeeps ==
  ASSUME ConfigOK, SearchInv, cfg' = cfg, frames # << >>, Top.left = {}, ReturnFrom(Top.v),
         lowlink[IndexOf(Top.v)] = IndexOf(Top.v)
  PROVE  SearchInv'
<1>0. SearchTypes /\ Bookkeeping /\ StackPaths /\ LowlinksMean /\ ComponentsFound
  BY DEF SearchInv
<1>3. /\ Nodes' = Nodes /\ AgentEdges' = AgentEdges
      /\ \A i : From(i)' = From(i) /\ To(i)' = To(i)
      /\ \A x : Out(x)' = Out(x)
      /\ \A S : Closed(S)' <=> Closed(S)
      /\ \A x, y : Connected(x, y)' <=> Connected(x, y)
  BY GraphKept
<1>t. PICK n : /\ n = Len(frames) /\ n \in Nat /\ n \in 1 .. n /\ Caller(n) = Top.v /\ Top.v \in Stacked
               /\ \A k \in 1 .. n - 1 : IndexOf(Caller(k)) < IndexOf(Top.v)
  BY <1>0, TopFacts
<1>m. \A k \in 1 .. n - 1 : k \in 1 .. n /\ k \in 1 .. Len(frames)
  BY <1>t
<1>c. PICK C : C = Above(Top.v)
  OBVIOUS
<1>p. /\ C # {} /\ C \subseteq Stacked /\ \A u, w \in C : Connected(u, w)
      /\ C \cap Finished = {} /\ Closed(Finished \cup C)
  BY <1>c, PoppedComponent
<1>s. /\ stack' \in Seq(Nodes) /\ Len(stack') <= Len(stack) /\ Len(stack') \in Nat
      /\ \A i \in 1 .. Len(stack') : i \in 1 .. Len(stack) /\ stack'[i] = stack[i]
      /\ sccs' = Append(sccs, C)
      /\ Stacked' = Stacked \ C
      /\ Finished' = Finished \cup C
  <2>1. PopComponent(Top.v)
    BY DEF ReturnFrom
  <2> QED
    BY <1>0, <1>c, <1>t, <2>1, PopEffect
<1>e. /\ indices' = indices
      /\ frames' \in Seq([v : Nodes, left : SUBSET AgentEdges]) /\ Len(frames') = n - 1
      /\ lowlink' \in Seq(Nat) /\ Len(lowlink') = Len(lowlink)
      /\ \A i \in 1 .. Len(lowlink') : lowlink'[i] \in 1 .. i
      /\ \A k \in 1 .. n - 1 : frames'[k] = frames[k] /\ Caller(k)' = Caller(k)
      /\ \A k \in 1 .. n - 1 : Low(k)' = IF k = n - 1 THEN Least(Low(k), Low(n)) ELSE Low(k)
      /\ Fetched' \subseteq Fetched
  BY <1>0, <1>t, ReturnEffect DEF Low
<1>i. Entered' = Entered /\ \A x : IndexOf(x)' = IndexOf(x)
  BY <1>e DEF Entered, IndexOf
<1>l. /\ Stacked \subseteq Entered /\ \A x \in Stacked : IndexOf(x) \in Nat
      /\ \A k \in 1 .. n : Caller(k) \in Stacked /\ Low(k) \in Nat /\ Low(k) <= IndexOf(Caller(k))
  <2>1. Stacked \subseteq Entered /\ \A x \in Entered : IndexOf(x) \in Nat
    BY <1>0, LowFacts, IndexFacts
  <2>2. \A k \in 1 .. n : Caller(k) \in Stacked
    BY <1>0, <1>t DEF Bookkeeping
  <2>3. \A k \in 1 .. n : Low(k) \in 1 .. IndexOf(Caller(k)) /\ IndexOf(Caller(k)) \in Nat
    BY <1>0, <1>t, <2>1, <2>2, LowFacts
  <2> QED
    BY <2>1, <2>2, <2>3
<1>v. Low(n) = IndexOf(Top.v)
  BY <1>t DEF Low
<1>a. \A x \in Stacked : x \in C <=> IndexOf(Top.v) <= IndexOf(x)
  BY <1>c DEF Above
<1>k. \A k \in 1 .. n - 1 : Caller(k) \in Stacked \ C
  BY <1>a, <1>l, <1>m, <1>t
<1>d. ASSUME NEW k \in 1 .. n - 1 PROVE Low(k)' = Low(k) /\ Low(k) < IndexOf(Top.v)
  <2>1. Low(k) \in Nat /\ Low(k) <= IndexOf(Caller(k)) /\ IndexOf(Caller(k)) \in Nat /\ IndexOf(Top.v) \in Nat
    BY <1>l, <1>m, <1>t
  <2>2. Low(k) < IndexOf(Top.v)
    BY <1>t, <2>1
  <2>3. Low(k)' = IF k = n - 1 THEN Least(Low(k), Low(n)) ELSE Low(k)
    BY <1>e
  <2> QED
    BY <1>v, <2>1, <2>2, <2>3 DEF Least
<1>1. SearchTypes'
  <2>1. /\ indices \in Seq(Nodes) /\ IsInjective(indices) /\ sccs \in Seq(SUBSET Nodes)
        /\ Len(lowlink) = Len(indices) /\ Entered \subseteq Nodes
    BY <1>0, IndexFacts DEF SearchTypes
  <2>2. sccs' \in Seq(SUBSET Nodes)
    BY <1>l, <1>p, <1>s, <2>1
  <2> QED
    BY <1>3, <1>e, <1>s, <2>1, <2>2 DEF SearchTypes
<1>4. Bookkeeping'
  <2>1. \A k \in 1 .. Len(frames') : Caller(k)' \in Stacked' /\ frames'[k].left \subseteq Out(Caller(k))'
    <3> SUFFICES ASSUME NEW k \in 1 .. Len(frames')
                 PROVE  Caller(k)' \in Stacked' /\ frames'[k].left \subseteq Out(Caller(k))'
      OBVIOUS
    <3>1. k \in 1 .. Len(frames) /\ k \in 1 .. n - 1 /\ Caller(k)' = Caller(k) /\ frames'[k] = frames[k]
      BY <1>e, <1>m
    <3>2. frames[k].left \subseteq Out(Caller(k))
      BY <1>0, <3>1 DEF Bookkeeping
    <3> QED
      BY <1>3, <1>k, <1>s, <3>1, <3>2
  <2>2. \A k, l \in 1 .. Len(frames') : k < l => IndexOf(Caller(k))' < IndexOf(Caller(l))'
    BY <1>0, <1>e, <1>i, <1>m DEF Bookkeeping
  <2>3. \A i \in Fetched' : To(i)' \in Entered'
    BY <1>0, <1>3, <1>e, <1>i DEF Bookkeeping
  <2>4. \A i, j \in 1 .. Len(stack') : i < j => IndexOf(stack[i])' < IndexOf(stack[j])'
    BY <1>0, <1>s, <1>i DEF Bookkeeping
  <2>5. Entered' = Stacked' \cup Finished' /\ Stacked' \cap Finished' = {}
    BY <1>0, <1>i, <1>p, <1>s DEF Bookkeeping
  <2> QED
    BY <2>1, <2>2, <2>3, <2>4, <2>5 DEF Bookkeeping
<1>5. StackPaths'
  <2>1. \A x, y \in Stacked' : IndexOf(x)' <= IndexOf(y)' => Connected(x, y)'
    BY <1>0, <1>3, <1>i, <1>s DEF StackPaths
  <2>2. \A y \in Stacked' : \E k \in 1 .. Len(frames') :
          IndexOf(Caller(k))' <= IndexOf(y)' /\ Connected(y, Caller(k))'
    <3> SUFFICES ASSUME NEW y \in Stacked, y \notin C
                 PROVE  \E k \in 1 .. n - 1 : IndexOf(Caller(k))' <= IndexOf(y)' /\ Connected(y, Caller(k))'
      BY <1>e, <1>s
    <3>1. PICK k \in 1 .. n : IndexOf(Caller(k)) <= IndexOf(y) /\ Connected(y, Caller(k))
      BY <1>0, <1>t DEF StackPaths
    <3>2. k # n
      BY <1>a, <1>t, <3>1
    <3>3. k \in 1 .. n - 1
      BY <1>t, <3>2
    <3> QED
      BY <1>3, <1>e, <1>i, <3>1, <3>3
  <2> QED
    BY <2>1, <2>2 DEF StackPaths
<1>6. LowlinksMean'
  <2>1. \A k \in 1 .. Len(frames') : \E y \in Stacked' : Connected(Caller(k), y)' /\ IndexOf(y)' = Low(k)'
    <3> SUFFICES ASSUME NEW k \in 1 .. n - 1
                 PROVE  \E y \in Stacked \ C : Connected(Caller(k), y)' /\ IndexOf(y)' = Low(k)'
      BY <1>e, <1>s
    <3>1. PICK y \in Stacked : Connected(Caller(k), y) /\ IndexOf(y) = Low(k)
      BY <1>0, <1>m DEF LowlinksMean
    <3>2. IndexOf(y) \in Nat /\ IndexOf(y) < IndexOf(Top.v) /\ IndexOf(Top.v) \in Nat
      BY <1>d, <1>l, <1>t, <3>1
    <3>3. y \notin C
      BY <1>a, <3>2
    <3> QED
      BY <1>3, <1>d, <1>e, <1>i, <3>1, <3>3
  <2>2. \A k \in 1 .. Len(frames'), i \in Fetched' :
          From(i)' \in Stacked' /\ To(i)' \in Stacked' /\ IndexOf(Caller(k))' <= IndexOf(From(i))' =>
            \E l \in k .. Len(frames') : Low(l)' <= IndexOf(To(i))'
    <3> SUFFICES ASSUME NEW k \in 1 .. Len(frames'), NEW i \in Fetched',
                        From(i)' \in Stacked', To(i)' \in Stacked', IndexOf(Caller(k))' <= IndexOf(From(i))'
                 PROVE  \E l \in k .. Len(frames') : Low(l)' <= IndexOf(To(i))'
      OBVIOUS
    <3>1. /\ k \in 1 .. n - 1 /\ From(i) \in Stacked /\ To(i) \in Stacked \ C
          /\ IndexOf(Caller(k)) <= IndexOf(From(i)) /\ i \in Fetched
      BY <1>3, <1>e, <1>i, <1>s
    <3>2. IndexOf(To(i))' = IndexOf(To(i))
      BY <1>3, <1>i
    <3>3. PICK l \in k .. n : Low(l) <= IndexOf(To(i))
      BY <1>0, <1>m, <1>t, <3>1 DEF LowlinksMean
    <3>4. l # n
      BY <1>a, <1>v, <3>1, <3>3
    <3>5. l \in k .. n - 1 /\ l \in 1 .. n - 1
      BY <1>t, <3>1, <3>4
    <3> QED
      BY <1>d, <1>e, <3>2, <3>3, <3>5
  <2> QED
    BY <2>1, <2>2 DEF LowlinksMean
<1>7. ComponentsFound'
  <2>1. sccs \in Seq(SUBSET Nodes) /\ Len(sccs) \in Nat /\ Below(Len(sccs)) = Finished
    BY <1>0, BelowFacts DEF SearchTypes
  <2>2. PICK m : m = Len(sccs)
    OBVIOUS
  <2>3. Len(sccs') = m + 1 /\ sccs'[m + 1] = C /\ \A i \in 1 .. m : sccs'[i] = sccs[i]
    BY <1>s, <2>1, <2>2
  <2>4. \A i \in 0 .. m : Below(i)' = Below(i)
    <3> SUFFICES ASSUME NEW i \in 0 .. m PROVE Below(i)' = Below(i)
      OBVIOUS
    <3>1. \A j \in 1 .. i : sccs'[j] = sccs[j]
      BY <2>1, <2>2, <2>3
    <3> QED
      BY <3>1 DEF Below
  <2>5. \A i : i = m + 1 => Below(i)' = Finished \cup C
    <3>1. 1 .. m + 1 = (1 .. m) \cup {m + 1}
      BY <2>1, <2>2
    <3>2. UNION {sccs'[j] : j \in 1 .. m + 1} = (UNION {sccs[j] : j \in 1 .. m}) \cup C
      BY <2>3, <3>1
    <3> QED
      BY <2>1, <2>2, <3>2 DEF Below
  <2>6. ASSUME NEW i \in 1 .. Len(sccs')
        PROVE  /\ sccs'[i] # {} /\ \A u, w \in sccs'[i] : Connected(u, w)
               /\ Closed(Below(i)') /\ sccs'[i] \cap Below(i - 1)' = {}
    <3>1. CASE i \in 1 .. m
      <4>1. i \in 0 .. m /\ i - 1 \in 0 .. m
        BY <2>1, <2>2, <3>1
      <4>2. sccs'[i] = sccs[i] /\ Below(i)' = Below(i)
        BY <2>3, <2>4, <3>1, <4>1
      <4>3. Below(i - 1)' = Below(i - 1)
        <5>1. PICK j \in 0 .. m : j = i - 1
          BY <4>1
        <5> QED
          BY <2>4, <5>1
      <4> QED
        BY <1>0, <2>2, <3>1, <4>2, <4>3 DEF ComponentsFound
    <3>2. CASE i = m + 1
      <4>1. sccs'[i] = C /\ Below(i)' = Finished \cup C
        BY <2>3, <2>5, <3>2
      <4>2. Below(i - 1)' = Finished
        <5>1. i - 1 = m /\ m \in 0 .. m
          BY <2>1, <2>2, <3>2
        <5> QED
          BY <2>1, <2>2, <2>4, <5>1
      <4> QED
        BY <1>p, <4>1, <4>2
    <3> QED
      BY <2>1, <2>2, <2>3, <3>1, <3>2
  <2>7. \A i \in 1 .. Len(sccs') : Closed(Below(i))'
    BY <1>3, <2>6
  <2>8. \A i \in 1 .. Len(sccs') : (sccs[i] \cap Below(i - 1))' = {}
    BY <2>6
  <2> QED
    BY <1>3, <2>6, <2>7, <2>8 DEF ComponentsFound
<1> QED
  BY <1>1, <1>4, <1>5, <1>6, <1>7 DEF SearchInv

-----------------------------------------------------------------------------
(* The search as a whole. *)

\* The first agent of the file in a set is one of the set.
LEMMA FirstFacts ==
  ASSUME ConfigOK, NEW S, S \cap Nodes # {}
  PROVE  FirstAgent(S) \in S \cap Nodes
<1> DEFINE T == {i \in DOMAIN cfg.agents : cfg.agents[i] \in S}
<1>1. cfg.agents \in Seq(Ids)
  BY PositionFacts
<1>2. T \in SUBSET Nat /\ T # {} /\ T \subseteq DOMAIN cfg.agents
  BY <1>1 DEF Nodes, ToSet
<1>3. Min(T) \in T
  <2> HIDE DEF T
  <2> QED
    BY <1>2, MinFacts
<1> QED
  BY <1>3 DEF FirstAgent, Nodes, ToSet

LEMMA InitSearch == Init => SearchInv
<1> SUFFICES ASSUME Init PROVE SearchInv
  OBVIOUS
<1>1. frames = << >> /\ indices = << >> /\ lowlink = << >> /\ stack = << >> /\ sccs = << >>
  BY DEF Init
<1>2. Entered = {} /\ Stacked = {} /\ Finished = {}
  BY <1>1 DEF Entered, Stacked, Finished, ToSet
<1>3. Fetched = {}
  BY <1>2 DEF Fetched
<1>4. 1 .. Len(frames) = {} /\ 1 .. Len(sccs) = {} /\ 1 .. Len(stack) = {} /\ 1 .. Len(lowlink) = {}
  BY <1>1
<1>5. SearchTypes
  BY <1>1, <1>4 DEF SearchTypes, IsInjective
<1> QED
  BY <1>2, <1>3, <1>4, <1>5 DEF SearchInv, Bookkeeping, StackPaths, LowlinksMean, ComponentsFound

LEMMA TarjanKeeps == ConfigOK /\ SearchInv /\ Tarjan => SearchInv'
<1> SUFFICES ASSUME ConfigOK, SearchInv, Tarjan PROVE SearchInv'
  OBVIOUS
<1>0. cfg' = cfg /\ SearchTypes /\ Bookkeeping /\ StackPaths
  BY DEF Tarjan, SearchInv
<1>1. CASE EnterRoot
  <2>1. PICK v : v = FirstAgent(Nodes \ ToSet(indices))
    OBVIOUS
  <2>2. frames = << >> /\ Enter(<< >>, v) /\ (Nodes \ ToSet(indices)) \cap Nodes # {}
    BY <1>1, <2>1 DEF EnterRoot
  <2>3. v \in Nodes \ Entered
    BY <2>1, <2>2, FirstFacts DEF Entered
  <2>4. 1 .. Len(frames) = {} /\ Len(<< >>) = Len(frames)
    BY <2>2
  <2>5. Stacked = {}
    BY <1>0, <2>4 DEF StackPaths
  <2>6. Entering(<< >>, v)
    BY <2>3, <2>4, <2>5 DEF Entering
  <2> QED
    BY <1>0, <2>2, <2>6, EnterKeeps
<1>2. CASE frames # << >> /\ Top.left # {} /\ LookAt(To(NextEdge))
  <2>1. PICK w : w = To(NextEdge)
    OBVIOUS
  <2>2. CASE w \in Entered
    BY <1>0, <1>2, <2>1, <2>2, LookKeeps
  <2>3. CASE w \notin Entered
    <3>1. Enter(Advanced, w)
      BY <1>2, <2>1, <2>3 DEF LookAt, Entered
    <3>2. /\ Advanced \in Seq([v : Nodes, left : SUBSET AgentEdges]) /\ Len(Advanced) = Len(frames)
          /\ \A k \in 1 .. Len(frames) :
               /\ Advanced[k].v = frames[k].v
               /\ Advanced[k].left \subseteq frames[k].left
               /\ frames[k].left \ Advanced[k].left \subseteq {NextEdge}
          /\ NextEdge \in AgentEdges /\ From(NextEdge) = Top.v
      BY <1>0, <1>2, AdvancedFacts
    <3>3. w \in Nodes /\ Connected(Top.v, w)
      BY <2>1, <3>2, EdgeFacts, Paths
    <3>4. ASSUME NEW x \in Stacked PROVE Connected(x, w)
      <4>1. PICK k \in 1 .. Len(frames) : Connected(x, Caller(k))
        BY <1>0 DEF StackPaths
      <4>2. Caller(k) \in Stacked /\ Top.v \in Stacked /\ IndexOf(Caller(k)) <= IndexOf(Top.v)
        BY <1>0, <1>2, TopFacts DEF Bookkeeping
      <4>3. Connected(Caller(k), Top.v)
        BY <1>0, <4>2 DEF StackPaths
      <4> QED
        BY <3>3, <4>1, <4>3, Paths
    <3>5. Entering(Advanced, w)
      BY <2>1, <2>3, <3>2, <3>3, <3>4 DEF Entering
    <3> QED
      BY <1>0, <3>1, <3>5, EnterKeeps
  <2> QED
    BY <2>2, <2>3
<1>3. CASE frames # << >> /\ Top.left = {} /\ ReturnFrom(Top.v)
  BY <1>0, <1>3, StayKeeps, PopKeeps
<1> QED
  BY <1>1, <1>2, <1>3 DEF Tarjan

\* Nothing else touches the state of the search.
LEMMA SearchKept == SearchInv /\ UNCHANGED << cfg, tarjanVars >> => SearchInv'
<1> SUFFICES ASSUME SearchInv, UNCHANGED << cfg, tarjanVars >> PROVE SearchInv'
  OBVIOUS
<1>1. /\ cfg' = cfg /\ frames' = frames /\ indices' = indices /\ lowlink' = lowlink
      /\ stack' = stack /\ sccs' = sccs
  BY DEF tarjanVars
<1>2. /\ Nodes' = Nodes /\ AgentEdges' = AgentEdges
      /\ \A i : From(i)' = From(i) /\ To(i)' = To(i)
      /\ \A x : Out(x)' = Out(x)
      /\ \A S : Closed(S)' <=> Closed(S)
      /\ \A x, y : Connected(x, y)' <=> Connected(x, y)
  BY <1>1, GraphKept
<1>3. /\ Entered' = Entered /\ Stacked' = Stacked /\ Finished' = Finished
      /\ \A x : IndexOf(x)' = IndexOf(x)
      /\ \A k : Caller(k)' = Caller(k)
  BY <1>1 DEF Entered, Stacked, Finished, IndexOf, Caller
<1>4. \A k : Low(k)' = Low(k)
  BY <1>1, <1>3 DEF Low
<1>5. Fetched' = Fetched
  BY <1>1, <1>2, <1>3 DEF Fetched
<1>6. SearchTypes'
  BY <1>1, <1>2 DEF SearchInv, SearchTypes
<1>7. Bookkeeping'
  BY <1>1, <1>2, <1>3, <1>5 DEF SearchInv, Bookkeeping
<1>8. StackPaths'
  BY <1>1, <1>2, <1>3 DEF SearchInv, StackPaths
<1>9. LowlinksMean'
  BY <1>1, <1>2, <1>3, <1>4, <1>5 DEF SearchInv, LowlinksMean
<1>10. ComponentsFound'
  BY <1>1, ComponentsKept DEF SearchInv
<1> QED
  BY <1>6, <1>7, <1>8, <1>9, <1>10 DEF SearchInv

\* A sequence without repetitions has as many elements as its length.
LEMMA ElementsCounted ==
  ASSUME NEW S, NEW s \in Seq(S)
  PROVE  /\ IsFiniteSet(ToSet(s)) /\ Len(s) \in Nat
         /\ IsInjective(s) => Cardinality(ToSet(s)) = Len(s)
<1>1. Len(s) \in Nat /\ s \in [1 .. Len(s) -> S] /\ DOMAIN s = 1 .. Len(s)
  OBVIOUS
<1>2. s \in Surjection(1 .. Len(s), ToSet(s))
  BY <1>1 DEF Surjection, ToSet
<1>3. IsFiniteSet(1 .. Len(s))
  BY <1>1, FS_Interval
<1>4. IsFiniteSet(ToSet(s))
  BY <1>2, <1>3, FS_Surjection
<1>5. ASSUME IsInjective(s) PROVE Cardinality(ToSet(s)) = Len(s)
  <2>1. s \in Bijection(1 .. Len(s), ToSet(s))
    BY <1>2, <1>5 DEF Bijection, Injection, Surjection
  <2>2. ExistsBijection(1 .. Len(s), ToSet(s))
    BY <2>1 DEF ExistsBijection
  <2> QED
    BY <1>1, <2>2, FS_CountingElements
<1> QED
  BY <1>1, <1>4, <1>5

\* The components are all of the agents on a common cycle.
LEMMA ComponentsComplete ==
  ASSUME ConfigOK, SearchInv
  PROVE  /\ \A i \in 1 .. Len(sccs) : \A u \in sccs[i] : sccs[i] = {v \in Nodes : SameCycle(u, v)}
         /\ \A i, j \in 1 .. Len(sccs) : \A u \in sccs[i], v \in sccs[j] : j > i => ~Connected(u, v)
<1>1. sccs \in Seq(SUBSET Nodes) /\ Len(sccs) \in Nat /\ ComponentsFound
  BY DEF SearchInv, SearchTypes
<1>2. \A i \in 1 .. Len(sccs) : sccs[i] \subseteq Nodes
  BY <1>1
<1>3. \A i \in 1 .. Len(sccs) : Below(i) \subseteq Nodes /\ Closed(Below(i)) /\ sccs[i] \subseteq Below(i)
  <2> SUFFICES ASSUME NEW i \in 1 .. Len(sccs)
               PROVE  Below(i) \subseteq Nodes /\ Closed(Below(i)) /\ sccs[i] \subseteq Below(i)
    OBVIOUS
  <2>1. \A j \in 1 .. i : j \in 1 .. Len(sccs)
    BY <1>1
  <2>2. i \in 1 .. i
    BY <1>1
  <2> QED
    BY <1>1, <1>2, <2>1, <2>2 DEF Below, ComponentsFound
<1>4. \A i, j \in 1 .. Len(sccs) : j > i => sccs[j] \cap Below(i) = {}
  <2> SUFFICES ASSUME NEW i \in 1 .. Len(sccs), NEW j \in 1 .. Len(sccs), j > i
               PROVE  sccs[j] \cap Below(i) = {}
    OBVIOUS
  <2>1. \A l \in 1 .. i : l \in 1 .. j - 1
    BY <1>1
  <2>2. Below(i) \subseteq Below(j - 1)
    BY <2>1 DEF Below
  <2> QED
    BY <1>1, <2>2 DEF ComponentsFound
<1>5. \A i, j \in 1 .. Len(sccs) : \A u \in sccs[i], v \in sccs[j] : j > i => ~Connected(u, v)
  BY <1>3, <1>4 DEF Connected
<1>6. ASSUME NEW i \in 1 .. Len(sccs), NEW u \in sccs[i], NEW v \in Nodes, SameCycle(u, v)
      PROVE  v \in sccs[i]
  <2>1. v \in Below(i)
    BY <1>3, <1>6 DEF SameCycle, Connected
  <2>2. PICK j \in 1 .. i : v \in sccs[j]
    BY <2>1 DEF Below
  <2>3. j \in 1 .. Len(sccs)
    BY <1>1
  <2>4. ~(j < i)
    BY <1>5, <1>6, <2>2, <2>3 DEF SameCycle
  <2>5. j = i
    BY <1>1, <2>4
  <2> QED
    BY <2>2, <2>5
<1>7. \A i \in 1 .. Len(sccs) : \A u, v \in sccs[i] : v \in Nodes /\ SameCycle(u, v)
  BY <1>1, <1>2 DEF ComponentsFound, SameCycle
<1> QED
  BY <1>5, <1>6, <1>7

-----------------------------------------------------------------------------
(* Cycles. *)

LEMMA TwoElements ==
  ASSUME NEW S, IsFiniteSet(S)
  PROVE  /\ Cardinality(S) \in Nat
         /\ Cardinality(S) >= 2 <=> \E x, y \in S : x # y
         /\ Cardinality(S) <= 1 <=> \A x, y \in S : x = y
<1>1. Cardinality(S) \in Nat
  BY FS_CardinalityType
<1>2. ASSUME NEW x \in S, NEW y \in S, x # y PROVE Cardinality(S) >= 2
  <2>1. IsFiniteSet({x}) /\ Cardinality({x}) = 1
    BY FS_Singleton
  <2>2. IsFiniteSet({x} \cup {y}) /\ Cardinality({x} \cup {y}) = Cardinality({x}) + 1
    BY <1>2, <2>1, FS_AddElement
  <2>3. {x} \cup {y} \in SUBSET S
    OBVIOUS
  <2>4. Cardinality({x} \cup {y}) <= Cardinality(S)
    BY <2>3, FS_Subset
  <2> QED
    BY <1>1, <2>1, <2>2, <2>4
<1>3. ASSUME \A x, y \in S : x = y PROVE Cardinality(S) <= 1
  <2>1. CASE S = {}
    BY <2>1, FS_EmptySet
  <2>2. CASE S # {}
    <3>1. PICK x : S = {x}
      BY <1>3, <2>2
    <3> QED
      BY <1>1, <3>1, FS_Singleton
  <2> QED
    BY <2>1, <2>2
<1> QED
  BY <1>1, <1>2, <1>3

LEMMA GraphFinite ==
  ASSUME ConfigOK
  PROVE  /\ IsFiniteSet(Nodes) /\ IsFiniteSet(AgentEdges)
         /\ \A v : IsFiniteSet(Out(v)) /\ IsFiniteSet(In(v))
<1>1. IsFiniteSet(Nodes)
  BY PositionFacts, ElementsCounted DEF Nodes
<1>2. IsFiniteSet(1 .. Len(cfg.edges))
  BY PositionFacts, FS_Interval
<1>3. AgentEdges \in SUBSET (1 .. Len(cfg.edges))
  BY PositionFacts
<1>4. IsFiniteSet(AgentEdges)
  BY <1>2, <1>3, FS_Subset
<1>5. \A v : Out(v) \in SUBSET AgentEdges /\ In(v) \in SUBSET AgentEdges
  BY EdgeFacts
<1>6. \A v : IsFiniteSet(Out(v)) /\ IsFiniteSet(In(v))
  BY <1>4, <1>5, FS_Subset
<1> QED
  BY <1>1, <1>4, <1>6

\* A path to another agent begins with an edge.
LEMMA FirstEdge ==
  ASSUME NEW u \in Nodes, NEW v, Connected(u, v), u # v
  PROVE  \E i \in Out(u) : Connected(To(i), v)
<1> DEFINE S == {u} \cup {x \in Nodes : \E i \in Out(u) : Connected(To(i), x)}
<1>1. Closed(S)
  BY EdgeFacts, Paths DEF Closed
<1>2. S \in SUBSET Nodes /\ u \in S
  OBVIOUS
<1>3. v \in S
  <2> HIDE DEF S
  <2> QED
    BY <1>1, <1>2 DEF Connected
<1> QED
  BY <1>3

\* The search is over: every agent is in a component.
Searched == frames = << >> /\ Nodes \subseteq Entered

LEMMA AllFinished ==
  ASSUME SearchInv, Searched
  PROVE  \A v \in Nodes : \E i \in 1 .. Len(sccs) : v \in sccs[i]
<1>1. 1 .. Len(frames) = {}
  BY DEF Searched
<1>2. Stacked = {}
  BY <1>1 DEF SearchInv, StackPaths
<1>3. Nodes \subseteq Finished
  BY <1>2 DEF SearchInv, Bookkeeping, Searched
<1>4. DOMAIN sccs = 1 .. Len(sccs)
  BY DEF SearchInv, SearchTypes
<1> QED
  BY <1>3, <1>4 DEF Finished, ToSet

\* The first cyclic component, or the first agent that talks to itself.
LEMMA GroupFacts ==
  ASSUME ConfigOK, SearchInv, HasCycle
  PROVE  /\ Group # {} /\ Group \subseteq Nodes
         /\ \A u, v \in Group : SameCycle(u, v)
         /\ \A u \in Group : Group = {u} => u \in Adj(u)
<1>1. sccs \in Seq(SUBSET Nodes) /\ ComponentsFound /\ DOMAIN sccs = 1 .. Len(sccs)
  BY DEF SearchInv, SearchTypes
<1>2. CASE Big # {}
  <2>1. Big \in SUBSET Nat /\ Big \subseteq 1 .. Len(sccs)
    BY <1>1 DEF Big
  <2>2. PICK m \in Big : m = Min(Big)
    BY <1>2, <2>1, MinFacts
  <2>3. Group = sccs[m] /\ m \in 1 .. Len(sccs) /\ Cardinality(sccs[m]) >= 2
    BY <1>2, <2>1, <2>2 DEF Group, Big
  <2>4. Group \in SUBSET Nodes /\ Group # {} /\ \A u, v \in Group : SameCycle(u, v)
    BY <1>1, <2>3 DEF ComponentsFound, SameCycle
  <2>5. ASSUME NEW u, Group = {u} PROVE FALSE
    <3>1. Cardinality({u}) = 1
      BY FS_Singleton
    <3>2. Cardinality({u}) >= 2
      BY <2>3, <2>5
    <3> QED
      BY <3>1, <3>2
  <2> QED
    BY <2>4, <2>5
<1>3. CASE Big = {}
  <2>1. Loops \in SUBSET Nat /\ Loops # {}
    BY <1>3, PositionFacts DEF Loops, HasCycle
  <2>2. PICK i \in Loops : i = Min(Loops)
    BY <2>1, MinFacts
  <2>3. Group = {From(i)}
    BY <1>3, <2>2 DEF Group
  <2>4. i \in AgentEdges /\ From(i) = To(i)
    BY DEF Loops
  <2>5. From(i) \in Nodes /\ From(i) \in Adj(From(i))
    BY <2>4, EdgeFacts
  <2>6. SameCycle(From(i), From(i))
    BY <2>5, Paths DEF SameCycle
  <2> QED
    BY <2>3, <2>5, <2>6
<1> QED
  BY <1>2, <1>3

\* The components and the self loops tell whether there is a cycle.
LEMMA CyclesSeen ==
  ASSUME ConfigOK, SearchInv, Searched
  PROVE  HasCycle <=> Cyclic
<1>1. sccs \in Seq(SUBSET Nodes) /\ ComponentsFound /\ DOMAIN sccs = 1 .. Len(sccs)
  BY DEF SearchInv, SearchTypes
<1>2. \A i \in 1 .. Len(sccs) : IsFiniteSet(sccs[i]) /\ sccs[i] \in SUBSET Nodes
  BY <1>1, GraphFinite, FS_Subset
<1>3. ASSUME HasCycle PROVE Cyclic
  <2>1. CASE Loops # {}
    <3>1. PICK i \in AgentEdges : From(i) = To(i)
      BY <2>1 DEF Loops
    <3>2. Connected(To(i), From(i))
      BY <3>1, EdgeFacts, Paths
    <3> QED
      BY <3>2 DEF Cyclic
  <2>2. CASE Big # {}
    <3>1. PICK j \in 1 .. Len(sccs) : Cardinality(sccs[j]) >= 2
      BY <1>1, <2>2 DEF Big
    <3>2. PICK u \in sccs[j], v \in sccs[j] : u # v
      BY <1>2, <3>1, TwoElements
    <3>3. u \in Nodes /\ Connected(u, v) /\ Connected(v, u)
      BY <1>1, <1>2 DEF ComponentsFound
    <3>4. PICK i \in Out(u) : Connected(To(i), v)
      BY <3>2, <3>3, FirstEdge
    <3>5. i \in AgentEdges /\ From(i) = u
      BY EdgeFacts
    <3>6. Connected(To(i), From(i))
      BY <3>3, <3>4, <3>5, Paths
    <3> QED
      BY <3>5, <3>6 DEF Cyclic
  <2> QED
    BY <1>3, <2>1, <2>2 DEF HasCycle
<1>4. ASSUME Cyclic PROVE HasCycle
  <2>1. PICK i \in AgentEdges : Connected(To(i), From(i))
    BY <1>4 DEF Cyclic
  <2>2. CASE From(i) = To(i)
    BY <2>2 DEF HasCycle, Loops
  <2>3. CASE From(i) # To(i)
    <3>1. From(i) \in Nodes /\ To(i) \in Nodes /\ SameCycle(From(i), To(i))
      BY <2>1, EdgeFacts, Paths DEF SameCycle
    <3>2. PICK j \in 1 .. Len(sccs) : From(i) \in sccs[j]
      BY <3>1, AllFinished
    <3>3. To(i) \in sccs[j]
      BY <3>1, <3>2, ComponentsComplete
    <3>4. Cardinality(sccs[j]) >= 2
      BY <1>2, <2>3, <3>2, <3>3, TwoElements
    <3> QED
      BY <1>1, <3>2, <3>4 DEF HasCycle, Big
  <2> QED
    BY <2>2, <2>3
<1> QED
  BY <1>3, <1>4

\* Without cycles the agents without an edge to them are those that nobody else reaches.
LEMMA RootsAreSources ==
  ASSUME ConfigOK, ~Cyclic
  PROVE  Roots = Sources
<1>1. \A v \in Nodes : v \in Roots <=> In(v) = {}
  <2>1. \A v : IsFiniteSet(In(v))
    BY GraphFinite
  <2>2. \A v : Cardinality(In(v)) = 0 <=> In(v) = {}
    BY <2>1, FS_EmptySet
  <2> QED
    BY <2>2 DEF Roots, InDeg
<1>2. ASSUME NEW v \in Nodes, In(v) = {}, NEW u \in Nodes, Connected(u, v), u # v PROVE FALSE
  <2>1. Closed(Nodes \ {v})
    BY <1>2, EdgeFacts DEF Closed
  <2>2. Nodes \ {v} \in SUBSET Nodes /\ u \in Nodes \ {v}
    BY <1>2
  <2>3. v \in Nodes \ {v}
    BY <1>2, <2>1, <2>2 DEF Connected
  <2> QED
    BY <2>3
<1>3. ASSUME NEW v \in Sources, NEW i \in In(v) PROVE FALSE
  <2>1. i \in AgentEdges /\ To(i) = v /\ From(i) \in Nodes
    BY EdgeFacts
  <2>2. Connected(From(i), v)
    BY <2>1, Paths
  <2>3. From(i) = v
    BY <2>1, <2>2 DEF Sources
  <2> QED
    BY <2>1, <2>2, <2>3 DEF Cyclic
<1> QED
  BY <1>1, <1>2, <1>3 DEF Sources, Roots

-----------------------------------------------------------------------------
(* Kahn's algorithm. *)

\* The edges from agents that were not visited yet.
Pending(v) == {i \in In(v) : From(i) \notin visited}

\* The in-degrees left are those of the agents not visited, and the queue has who has none left.
KahnInv ==
  /\ visited \subseteq Nodes
  /\ \A v \in Nodes : reach[v] = Cardinality(Pending(v))
  /\ ready = {v \in Nodes \ visited : Pending(v) = {}}
  /\ \A r \in Roots : \A x \in visited \cup ready : Connected(r, x)

LEMMA RootFacts ==
  ASSUME ConfigOK
  PROVE  \A v : v \in Roots <=> v \in Nodes /\ In(v) = {}
<1>1. \A v : IsFiniteSet(In(v))
  BY GraphFinite
<1>2. \A v : Cardinality(In(v)) = 0 <=> In(v) = {}
  BY <1>1, FS_EmptySet
<1> QED
  BY <1>2 DEF Roots, InDeg

LEMMA KahnStarts ==
  ASSUME ConfigOK, visited = {}, NEW r, Roots = {r}, cfg' = cfg,
         reach' = [v \in Nodes |-> InDeg(v)], ready' = Roots, visited' = visited
  PROVE  KahnInv'
<1>1. /\ Nodes' = Nodes /\ \A i : From(i)' = From(i)
      /\ \A v : In(v)' = In(v) /\ InDeg(v)' = InDeg(v)
      /\ \A x, y : Connected(x, y)' <=> Connected(x, y)
  BY GraphKept
<1>2. \A v : Pending(v)' = In(v)
  BY <1>1 DEF Pending
<1>3. Roots' = Roots
  BY <1>1 DEF Roots
<1>4. \A v \in Nodes' : reach'[v] = Cardinality(Pending(v))'
  BY <1>1, <1>2 DEF InDeg
<1>5. ready' = {v \in Nodes' \ visited' : Pending(v)' = {}}
  BY <1>1, <1>2, RootFacts
<1>6. \A x \in visited' \cup ready' : Connected(r, x)
  BY RootFacts, Paths
<1> QED
  BY <1>1, <1>3, <1>4, <1>5, <1>6 DEF KahnInv

LEMMA KahnKeeps ==
  ASSUME ConfigOK, KahnInv, NEW u \in Nodes, Kahn(u)
  PROVE  KahnInv'
<1>0. /\ cfg' = cfg /\ u \in ready
      /\ visited' = visited \cup {u}
      /\ reach' = [v \in Nodes |-> reach[v] - Cardinality({i \in Out(u) : To(i) = v})]
      /\ ready' = (ready \ {u}) \cup {v \in Adj(u) : reach'[v] = 0 /\ v \notin visited'}
  BY DEF Kahn
<1>1. /\ Nodes' = Nodes /\ \A i : From(i)' = From(i)
      /\ \A v : In(v)' = In(v) /\ InDeg(v)' = InDeg(v)
      /\ \A x, y : Connected(x, y)' <=> Connected(x, y)
  BY <1>0, GraphKept
<1>2. Roots' = Roots
  BY <1>1 DEF Roots
<1>3. u \notin visited /\ u \in Nodes
  BY <1>0 DEF KahnInv
<1>4. \A v : Pending(v)' = Pending(v) \ {i \in Out(u) : To(i) = v}
  BY <1>0, <1>1, EdgeFacts DEF Pending
<1>5. \A v : {i \in Out(u) : To(i) = v} \in SUBSET Pending(v)
  BY <1>3, EdgeFacts DEF Pending
<1>6. \A v : IsFiniteSet(Pending(v)) /\ IsFiniteSet(Pending(v)')
  <2>1. \A v : Pending(v) \in SUBSET In(v) /\ Pending(v)' \in SUBSET In(v)
    BY <1>1 DEF Pending
  <2> QED
    BY <2>1, GraphFinite, FS_Subset
<1>7. ASSUME NEW v \in Nodes PROVE reach'[v] = Cardinality(Pending(v)')
  <2> DEFINE S == Pending(v)
             D == {i \in Out(u) : To(i) = v}
  <2>1. IsFiniteSet(S) /\ D \in SUBSET S
    BY <1>5, <1>6
  <2>2. IsFiniteSet(D) /\ Cardinality(D) \in Nat /\ Cardinality(S) \in Nat
    BY <2>1, FS_Subset, FS_CardinalityType
  <2>3. Cardinality(S \ D) = Cardinality(S) - Cardinality(S \cap D)
    BY <2>1, FS_Difference
  <2>4. S \cap D = D
    BY <2>1
  <2>5. reach'[v] = Cardinality(S) - Cardinality(D)
    BY <1>0 DEF KahnInv
  <2>6. Cardinality(S \ D) = Cardinality(S) - Cardinality(D)
    BY <2>3, <2>4
  <2>7. Pending(v)' = S \ D
    BY <1>4
  <2> QED
    BY <2>5, <2>6, <2>7
<1>8. \A v \in Nodes : reach'[v] = 0 <=> Pending(v)' = {}
  BY <1>6, <1>7, FS_EmptySet
<1>9. ready' = {v \in Nodes' \ visited' : Pending(v)' = {}}
  <2>1. ASSUME NEW v \in ready' PROVE v \in Nodes /\ v \notin visited' /\ Pending(v)' = {}
    <3>1. CASE v \in ready \ {u}
      BY <1>0, <1>4, <3>1 DEF KahnInv
    <3>2. CASE v \in {w \in Adj(u) : reach'[w] = 0 /\ w \notin visited'}
      BY <1>8, <3>2, EdgeFacts
    <3> QED
      BY <1>0, <2>1, <3>1, <3>2
  <2>2. ASSUME NEW v \in Nodes, v \notin visited', Pending(v)' = {} PROVE v \in ready'
    <3>1. v # u /\ v \notin visited
      BY <1>0, <2>2
    <3>2. CASE Pending(v) = {}
      BY <1>0, <3>1, <3>2 DEF KahnInv
    <3>3. CASE Pending(v) # {}
      <4>1. PICK i \in Out(u) : To(i) = v
        BY <1>4, <2>2, <3>3
      <4>2. v \in Adj(u)
        BY <4>1, EdgeFacts
      <4> QED
        BY <1>0, <1>8, <2>2, <4>2
    <3> QED
      BY <3>2, <3>3
  <2> QED
    BY <1>1, <2>1, <2>2
<1>10. ASSUME NEW r \in Roots, NEW x \in visited' \cup ready' PROVE Connected(r, x)
  <2>1. Connected(r, u)
    BY <1>0 DEF KahnInv
  <2>2. CASE x \in visited \cup ready
    BY <2>2 DEF KahnInv
  <2>3. CASE x \in Adj(u)
    <3>1. PICK i \in AgentEdges : From(i) = u /\ To(i) = x
      BY <2>3, EdgeFacts
    <3> QED
      BY <2>1, <3>1, Paths
  <2> QED
    BY <1>0, <2>1, <2>2, <2>3
<1> QED
  BY <1>0, <1>1, <1>2, <1>3, <1>7, <1>9, <1>10 DEF KahnInv

\* Who reaches an agent.
Before(v) == {x \in Nodes : Connected(x, v)}

\* Without cycles the algorithm visits every agent: of those left out, one with the fewest
\* agents before it would have no edge from another.
LEMMA KahnVisitsAll ==
  ASSUME ConfigOK, KahnInv, ready = {}, ~Cyclic
  PROVE  visited = Nodes
<1> DEFINE U == Nodes \ visited
           T == {Cardinality(Before(v)) : v \in U}
<1>1. \A v : IsFiniteSet(Before(v)) /\ Cardinality(Before(v)) \in Nat
  <2>1. \A v : Before(v) \in SUBSET Nodes
    BY DEF Before
  <2>2. \A v : IsFiniteSet(Before(v))
    BY <2>1, GraphFinite, FS_Subset
  <2> QED
    BY <2>2, FS_CardinalityType
<1>2. SUFFICES ASSUME U # {} PROVE FALSE
  BY DEF KahnInv
<1>3. T \in SUBSET Nat /\ T # {}
  BY <1>1, <1>2
<1>4. PICK v \in U : \A w \in U : Cardinality(Before(v)) <= Cardinality(Before(w))
  <2>1. PICK k \in T : \A l \in T : k <= l
    <3> HIDE DEF T
    <3> QED
      BY <1>3, LeastNat
  <2>2. PICK v \in U : k = Cardinality(Before(v))
    OBVIOUS
  <2>3. \A w \in U : Cardinality(Before(w)) \in T
    OBVIOUS
  <2> QED
    BY <2>1, <2>2, <2>3
<1>5. PICK i \in In(v) : From(i) \notin visited
  BY DEF KahnInv, Pending
<1>6. i \in AgentEdges /\ To(i) = v /\ From(i) \in U
  BY <1>5, EdgeFacts
<1>7. PICK w \in U : w = From(i)
  BY <1>6
<1>8. Connected(w, v) /\ ~Connected(v, w)
  BY <1>6, <1>7, Paths DEF Cyclic
<1>9. Before(w) \in SUBSET Before(v)
  BY <1>8, Paths DEF Before
<1>10. v \in Before(v) /\ v \notin Before(w)
  BY <1>8, Paths DEF Before
<1>11. Cardinality(Before(w)) # Cardinality(Before(v)) /\ Cardinality(Before(w)) <= Cardinality(Before(v))
  BY <1>1, <1>9, <1>10, FS_Subset
<1> QED
  BY <1>1, <1>4, <1>11

-----------------------------------------------------------------------------
(* Chains. *)

\* validate_graph has seen to it that no agent is listed twice.
LEMMA AgentsCounted ==
  ASSUME ConfigOK, IsInjective(cfg.agents)
  PROVE  IsFiniteSet(Nodes) /\ Cardinality(Nodes) = Len(cfg.agents) /\ Len(cfg.agents) \in Nat
BY PositionFacts, ElementsCounted DEF Nodes

\* Each agent but the last has an edge to the next.
Follows(p) == \A k \in 1 .. Len(p) - 1 : p[k + 1] \in Adj(p[k])

EdgeAfter(p, k) == CHOOSE i \in Out(p[k]) : To(i) = p[k + 1]

\* Along a path without repetitions every step takes an edge of its own.
LEMMA EdgesAlong ==
  ASSUME ConfigOK, NEW p \in Seq(Nodes), IsInjective(p), Len(p) >= 1, Follows(p)
  PROVE  /\ [k \in 1 .. Len(p) - 1 |-> EdgeAfter(p, k)] \in Injection(1 .. Len(p) - 1, AgentEdges)
         /\ \A k \in 1 .. Len(p) - 1 : EdgeAfter(p, k) \in Out(p[k])
         /\ IsFiniteSet(1 .. Len(p) - 1) /\ Cardinality(1 .. Len(p) - 1) = Len(p) - 1
<1> DEFINE e == [k \in 1 .. Len(p) - 1 |-> EdgeAfter(p, k)]
<1>1. \A k \in 1 .. Len(p) - 1 : EdgeAfter(p, k) \in Out(p[k])
  BY EdgeFacts DEF Follows, EdgeAfter
<1>2. \A k \in 1 .. Len(p) - 1 : EdgeAfter(p, k) \in AgentEdges /\ From(EdgeAfter(p, k)) = p[k]
  BY <1>1, EdgeFacts
<1>3. \A k, l \in 1 .. Len(p) : p[k] = p[l] => k = l
  BY DEF IsInjective
<1>4. Len(p) \in Nat
  OBVIOUS
<1>5. \A k \in 1 .. Len(p) - 1 : k \in 1 .. Len(p)
  BY <1>4
<1>6. \A k, l \in 1 .. Len(p) - 1 : EdgeAfter(p, k) = EdgeAfter(p, l) => k = l
  BY <1>2, <1>3, <1>5
<1>7. e \in [1 .. Len(p) - 1 -> AgentEdges] /\ IsInjective(e)
  BY <1>2, <1>6 DEF IsInjective
<1>8. e \in Injection(1 .. Len(p) - 1, AgentEdges)
  BY <1>7 DEF Injection
<1>9. IsFiniteSet(1 .. Len(p) - 1) /\ Cardinality(1 .. Len(p) - 1) = Len(p) - 1
  <2>1. PICK m \in Nat : m = Len(p) - 1
    BY <1>4
  <2>2. IsFiniteSet(1 .. m) /\ Cardinality(1 .. m) = IF 1 > m THEN 0 ELSE m - 1 + 1
    BY FS_Interval
  <2> QED
    BY <2>1, <2>2
<1> QED
  BY <1>1, <1>8, <1>9

\* In a chain nobody has two edges.
LEMMA ChainsDoNotBranch ==
  ASSUME ConfigOK, IsInjective(cfg.agents), Len(cfg.agents) >= 1,
         NEW p \in [1 .. Len(cfg.agents) -> Nodes], IsChain(p), NEW v \in Nodes
  PROVE  OutDeg(v) <= 1
<1>1. PICK n \in Nat : n = Len(cfg.agents)
  BY AgentsCounted
<1>2. p \in Seq(Nodes) /\ Len(p) = n /\ n >= 1
  BY <1>1
<1>3. ToSet(p) = Nodes /\ Cardinality(AgentEdges) = Len(p) - 1 /\ Follows(p)
  BY DEF IsChain, Follows
<1>4. IsInjective(p)
  <2>1. p \in Surjection(1 .. n, Nodes)
    BY <1>1, <1>2, <1>3 DEF Surjection, ToSet
  <2>2. IsFiniteSet(1 .. n) /\ Cardinality(1 .. n) = n
    BY <1>1, <1>2, FS_Interval
  <2>3. Cardinality(Nodes) = n
    BY <1>1, AgentsCounted
  <2>4. p \in Injection(1 .. n, Nodes)
    BY <2>1, <2>2, <2>3, FS_SurjSameCardinalityImpliesInj
  <2> QED
    BY <2>4 DEF Injection
<1> DEFINE e == [k \in 1 .. Len(p) - 1 |-> EdgeAfter(p, k)]
           K == 1 .. Len(p) - 1
<1>5. /\ e \in Injection(K, AgentEdges) /\ IsFiniteSet(K) /\ Cardinality(K) = Len(p) - 1
      /\ \A k \in K : EdgeAfter(p, k) \in Out(p[k])
  BY <1>2, <1>3, <1>4, EdgesAlong
<1>6. \A k \in K : e[k] = EdgeAfter(p, k)
  OBVIOUS
<1>7. \A k \in K : k \in 1 .. n
  BY <1>2
<1> HIDE DEF e, K
<1>8. e \in Surjection(K, AgentEdges)
  BY <1>3, <1>5, GraphFinite, FS_Injection
<1>9. ASSUME NEW i \in Out(v), NEW j \in Out(v) PROVE i = j
  <2>1. i \in AgentEdges /\ j \in AgentEdges /\ From(i) = v /\ From(j) = v
    BY EdgeFacts
  <2>2. PICK k \in K : EdgeAfter(p, k) = i
    BY <1>6, <1>8, <2>1 DEF Surjection
  <2>3. PICK l \in K : EdgeAfter(p, l) = j
    BY <1>6, <1>8, <2>1 DEF Surjection
  <2>4. p[k] = v /\ p[l] = v
    BY <1>5, <2>1, <2>2, <2>3, EdgeFacts
  <2>5. k = l
    BY <1>2, <1>4, <1>7, <2>4 DEF IsInjective
  <2> QED
    BY <2>2, <2>3, <2>5
<1>10. IsFiniteSet(Out(v))
  BY GraphFinite
<1> QED
  BY <1>9, <1>10, TwoElements DEF OutDeg

(***************************************************************************)
(* What the walk along the successors knows: nobody has two edges, the     *)
(* root reaches everybody, and the agents walked so far are a path from    *)
(* the root.                                                               *)
(***************************************************************************)
WalkInv ==
  /\ \A v \in Nodes : OutDeg(v) <= 1
  /\ \A r \in Roots, x \in Nodes : Connected(r, x)
  /\ order \in Seq(Nodes) /\ IsInjective(order) /\ Len(order) >= 1 /\ order[1] \in Roots
  /\ Follows(order)
  /\ \A j, k \in 1 .. Len(order) : j <= k => Connected(order[j], order[k])

\* Nobody has two successors.
LEMMA OneEdge ==
  ASSUME ConfigOK, NEW v, OutDeg(v) <= 1
  PROVE  \A i, j \in Out(v) : i = j
BY GraphFinite, TwoElements DEF OutDeg

LEMMA WalkOver ==
  ASSUME ConfigOK, IsInjective(cfg.agents), Len(cfg.agents) >= 1, ~Cyclic, WalkInv,
         Adj(Last(order)) \subseteq ToSet(order)
  PROVE  Adj(Last(order)) = {} /\ Len(order) = Len(cfg.agents) /\ IsChain(order)
<1>1. PICK n \in Nat : /\ n = Len(order) /\ n >= 1 /\ n \in 1 .. n
                       /\ DOMAIN order = 1 .. n /\ Last(order) = order[n]
  BY DEF WalkInv, Last
<1>2. \A k \in 1 .. n : order[k] \in Nodes
  BY <1>1 DEF WalkInv
<1>3. ToSet(order) = {order[k] : k \in 1 .. n}
  BY <1>1 DEF ToSet
<1>4. ASSUME NEW w \in Adj(order[n]) PROVE FALSE
  <2>1. PICK k \in 1 .. n : order[k] = w
    BY <1>1, <1>3, <1>4
  <2>2. Connected(w, order[n])
    BY <1>1, <2>1 DEF WalkInv
  <2>3. PICK i \in AgentEdges : From(i) = order[n] /\ To(i) = w
    BY <1>4, EdgeFacts
  <2> QED
    BY <2>2, <2>3 DEF Cyclic
<1>5. \A k \in 1 .. n - 1 : \A i \in Out(order[k]) : To(i) = order[k + 1]
  <2> SUFFICES ASSUME NEW k \in 1 .. n - 1, NEW i \in Out(order[k]) PROVE To(i) = order[k + 1]
    OBVIOUS
  <2>1. OutDeg(order[k]) <= 1
    BY <1>1, <1>2 DEF WalkInv
  <2>2. order[k + 1] \in Adj(order[k])
    BY <1>1 DEF WalkInv, Follows
  <2>3. PICK j \in Out(order[k]) : To(j) = order[k + 1]
    BY <2>2, EdgeFacts
  <2>4. i = j
    BY <2>1, OneEdge
  <2> QED
    BY <2>3, <2>4
<1>6. \A k \in 1 .. n : k \in 1 .. n - 1 \/ k = n
  BY <1>1
<1>7. ASSUME NEW i \in AgentEdges, From(i) \in ToSet(order)
      PROVE  \E k \in 1 .. n - 1 : From(i) = order[k] /\ To(i) = order[k + 1]
  <2>1. PICK k \in 1 .. n : From(i) = order[k]
    BY <1>3, <1>7
  <2>2. i \in Out(order[k]) /\ To(i) \in Adj(order[k])
    BY <2>1, EdgeFacts
  <2>3. k \in 1 .. n - 1
    BY <1>4, <1>6, <2>2
  <2> QED
    BY <1>5, <2>1, <2>2, <2>3
<1>8. \A k \in 1 .. n - 1 : k + 1 \in 1 .. n
  BY <1>1
<1>9. Closed(ToSet(order))
  BY <1>3, <1>7, <1>8 DEF Closed
<1>10. ToSet(order) = Nodes
  <2>1. ToSet(order) \in SUBSET Nodes
    BY <1>2, <1>3
  <2>2. 1 \in 1 .. n
    BY <1>1
  <2>3. order[1] \in ToSet(order)
    BY <1>3, <2>2
  <2>4. \A x \in Nodes : Connected(order[1], x)
    BY DEF WalkInv
  <2> QED
    BY <1>9, <2>1, <2>3, <2>4 DEF Connected
<1>11. order \in Seq(Nodes) /\ IsInjective(order) /\ Follows(order)
  BY DEF WalkInv
<1>12. Len(order) = Len(cfg.agents)
  <2>1. Cardinality(ToSet(order)) = Len(order)
    BY <1>11, ElementsCounted
  <2> QED
    BY <1>10, <2>1, AgentsCounted
<1>13. Cardinality(AgentEdges) = Len(order) - 1
  <2> DEFINE e == [k \in 1 .. Len(order) - 1 |-> EdgeAfter(order, k)]
             K == 1 .. Len(order) - 1
  <2>1. /\ e \in Injection(K, AgentEdges) /\ IsFiniteSet(K) /\ Cardinality(K) = Len(order) - 1
        /\ \A k \in K : EdgeAfter(order, k) \in Out(order[k])
    BY <1>1, <1>11, EdgesAlong
  <2>2. K = 1 .. n - 1
    BY <1>1
  <2>3. \A k \in K : e[k] = EdgeAfter(order, k)
    OBVIOUS
  <2> HIDE DEF e, K
  <2>4. ASSUME NEW i \in AgentEdges PROVE \E k \in K : e[k] = i
    <3>1. From(i) \in ToSet(order)
      BY <1>10, EdgeFacts
    <3>2. PICK k \in K : From(i) = order[k]
      BY <1>7, <2>2, <3>1
    <3>3. i \in Out(order[k]) /\ EdgeAfter(order, k) \in Out(order[k])
      BY <2>1, <3>2, EdgeFacts
    <3>4. OutDeg(order[k]) <= 1
      BY <3>2, EdgeFacts DEF WalkInv
    <3>5. i = EdgeAfter(order, k)
      BY <3>3, <3>4, OneEdge
    <3> QED
      BY <2>3, <3>5
  <2>5. e \in Surjection(K, AgentEdges)
    BY <2>1, <2>4 DEF Surjection, Injection
  <2> QED
    BY <2>1, <2>5, GraphFinite, FS_Injection
<1> QED
  BY <1>1, <1>4, <1>10, <1>11, <1>12, <1>13 DEF IsChain, Follows

-----------------------------------------------------------------------------
(* The verdict. *)

\* What else stays the same with the configuration.
LEMMA ConfigKept ==
  ASSUME cfg' = cfg
  PROVE  /\ Errors' = Errors /\ NodeIds' = NodeIds
         /\ Roots' = Roots /\ Sources' = Sources /\ (Cyclic' <=> Cyclic)
         /\ \A v : Built(v)' = Built(v) /\ Attached(v)' = Attached(v)
         /\ \A u, v : SameCycle(u, v)' <=> SameCycle(u, v)
         /\ \A p : (IsChain(p)' <=> IsChain(p)) /\ (Follows(p)' <=> Follows(p))
<1>1. /\ Nodes' = Nodes /\ AgentEdges' = AgentEdges
      /\ \A i : From(i)' = From(i) /\ To(i)' = To(i)
      /\ \A v : In(v)' = In(v) /\ Adj(v)' = Adj(v) /\ InDeg(v)' = InDeg(v)
      /\ \A u, v : Connected(u, v)' <=> Connected(u, v)
  BY GraphKept
<1>2. NodeIds' = NodeIds
  BY DEF NodeIds
<1>3. Errors' = Errors
  <2>1. AllAttached' = AllAttached
    BY DEF AllAttached
  <2> QED
    BY <1>2, <2>1 DEF Errors
<1>4. Roots' = Roots /\ Sources' = Sources /\ (Cyclic' <=> Cyclic)
  BY <1>1 DEF Roots, Sources, Cyclic
<1>5. \A v : Built(v)' = Built(v) /\ Attached(v)' = Attached(v)
  BY <1>1 DEF Built, Attached
<1>6. \A u, v : SameCycle(u, v)' <=> SameCycle(u, v)
  BY <1>1 DEF SameCycle
<1>7. \A p : (IsChain(p)' <=> IsChain(p)) /\ (Follows(p)' <=> Follows(p))
  BY <1>1 DEF IsChain, Follows
<1> QED
  BY <1>2, <1>3, <1>4, <1>5, <1>6, <1>7

\* What it means for a configuration to have no errors.
LEMMA ValidFacts ==
  ASSUME ConfigOK, Errors = {}
  PROVE  /\ IsInjective(NodeIds) /\ IsInjective(cfg.agents)
         /\ \A u \in Nodes : Attached(u) \subseteq ToSet(cfg.tools)
         /\ \A i \in DOMAIN cfg.edges : ToSet(cfg.edges[i]) \subseteq ToSet(NodeIds)
<1>1. /\ cfg.agents \in Seq(Ids) /\ cfg.tools \in Seq(Ids) /\ DOMAIN cfg.attached = DOMAIN cfg.agents
  BY ConfigsAssumption DEF ConfigOK
<1>2. /\ {"node.duplicate_id"} \X Repeated(NodeIds) = {}
      /\ {"edge.unknown_node"} \X ((UNION {ToSet(e) : e \in ToSet(cfg.edges)}) \ ToSet(NodeIds)) = {}
      /\ {"tools.unknown_attachment"} \X (AllAttached \ ToSet(NodeIds)) = {}
      /\ {"tools.attachment_not_tool"} \X ((AllAttached \cap ToSet(NodeIds)) \ ToSet(cfg.tools)) = {}
  BY DEF Errors
<1>3. /\ Repeated(NodeIds) = {}
      /\ (UNION {ToSet(e) : e \in ToSet(cfg.edges)}) \subseteq ToSet(NodeIds)
      /\ AllAttached \subseteq ToSet(cfg.tools)
  <2>1. \A c, S : {c} \X S = {} => S = {}
    <3> SUFFICES ASSUME NEW c, NEW S, NEW x \in S PROVE << c, x >> \in {c} \X S
      OBVIOUS
    <3> QED
      OBVIOUS
  <2>2. Repeated(NodeIds) = {}
    BY <1>2, <2>1
  <2>3. (UNION {ToSet(e) : e \in ToSet(cfg.edges)}) \ ToSet(NodeIds) = {}
    BY <1>2, <2>1
  <2>4. AllAttached \ ToSet(NodeIds) = {}
    BY <1>2, <2>1
  <2>5. (AllAttached \cap ToSet(NodeIds)) \ ToSet(cfg.tools) = {}
    BY <1>2, <2>1
  <2> QED
    BY <2>2, <2>3, <2>4, <2>5
<1>4. IsInjective(NodeIds)
  BY <1>3 DEF Repeated, IsInjective
<1>5. IsInjective(cfg.agents)
  <2>1. /\ Len(cfg.agents) \in Nat /\ Len(cfg.tools) \in Nat
        /\ DOMAIN cfg.agents = 1 .. Len(cfg.agents)
    BY <1>1
  <2>2. \A x, y : x \in Seq(Ids) /\ y \in Seq(Ids) =>
          /\ DOMAIN (x \o y) = 1 .. Len(x) + Len(y)
          /\ \A i \in 1 .. Len(x) : (x \o y)[i] = x[i]
    OBVIOUS
  <2>3. ASSUME NEW i \in DOMAIN cfg.agents PROVE i \in DOMAIN NodeIds /\ NodeIds[i] = cfg.agents[i]
    <3>1. i \in 1 .. Len(cfg.agents) + Len(cfg.tools)
      <4>1. \A m, n \in Nat : 1 .. m \subseteq 1 .. m + n
        OBVIOUS
      <4> QED
        BY <2>1, <4>1, Zenon
    <3>2. /\ DOMAIN NodeIds = 1 .. Len(cfg.agents) + Len(cfg.tools)
          /\ \A j \in 1 .. Len(cfg.agents) : NodeIds[j] = cfg.agents[j]
      BY <1>1, <2>2, Zenon DEF NodeIds
    <3> QED
      BY <2>1, <3>1, <3>2
  <2> QED
    BY <1>4, <2>3 DEF IsInjective
<1>6. \A u \in Nodes : Attached(u) \subseteq ToSet(cfg.tools)
  <2> SUFFICES ASSUME NEW u \in Nodes PROVE Attached(u) \subseteq ToSet(cfg.tools)
    OBVIOUS
  <2>1. \E i \in DOMAIN cfg.agents : cfg.agents[i] = u
    BY DEF Nodes, ToSet
  <2>2. PICK i \in DOMAIN cfg.attached : Attached(u) = cfg.attached[i]
    BY <1>1, <2>1 DEF Attached
  <2>3. Attached(u) \in ToSet(cfg.attached)
    BY <2>2 DEF ToSet
  <2> QED
    BY <1>3, <2>3 DEF AllAttached
<1>7. \A i \in DOMAIN cfg.edges : ToSet(cfg.edges[i]) \subseteq ToSet(NodeIds)
  <2>1. \A i \in DOMAIN cfg.edges : cfg.edges[i] \in ToSet(cfg.edges)
    BY DEF ToSet
  <2> QED
    BY <1>3, <2>1
<1> QED
  BY <1>4, <1>5, <1>6, <1>7

\* The group, its moderator and the stage depend on the configuration only.
LEMMA ChoiceKept ==
  ASSUME cfg' = cfg
  PROVE  /\ \A P : (IsGroup(P)' <=> IsGroup(P))
         /\ \A M, P : (IsModerator(M, P)' <=> IsModerator(M, P))
         /\ \A r : (FansOut(r)' <=> FansOut(r))
<1>1. /\ Nodes' = Nodes /\ AgentEdges' = AgentEdges
      /\ \A i : From(i)' = From(i) /\ To(i)' = To(i)
      /\ \A x : Out(x)' = Out(x) /\ In(x)' = In(x) /\ Adj(x)' = Adj(x)
      /\ \A x, y : (SameCycle(x, y)' <=> SameCycle(x, y)) /\ (Connected(x, y)' <=> Connected(x, y))
  BY GraphKept, ConfigKept
<1>2. Loops' = Loops
  BY <1>1 DEF Loops
<1>3. \A P : IsGroup(P)' <=> IsGroup(P)
  BY <1>1, <1>2 DEF IsGroup, Several
<1>4. \A M, P : IsModerator(M, P)' <=> IsModerator(M, P)
  BY <1>1 DEF IsModerator, Several
<1>5. \A r : FansOut(r)' <=> FansOut(r)
  BY <1>1 DEF FansOut, Several
<1> QED
  BY <1>3, <1>4, <1>5

\* What is right of a verdict stays right, as the configuration does.
LEMMA MetKept ==
  ASSUME cfg' = cfg
  PROVE  \A v : /\ (Right(v)' <=> Right(v))
               /\ (ChatMet(v)' <=> ChatMet(v))
               /\ (StageMet(v)' <=> StageMet(v))
<1>1. /\ Nodes' = Nodes /\ AgentEdges' = AgentEdges
      /\ Sources' = Sources /\ (Cyclic' <=> Cyclic)
      /\ \A p : (IsChain(p)' <=> IsChain(p))
      /\ \A x : Adj(x)' = Adj(x)
      /\ \A x, y : (SameCycle(x, y)' <=> SameCycle(x, y)) /\ (Connected(x, y)' <=> Connected(x, y))
  BY GraphKept, ConfigKept
<1>2. \A v : Right(v)' <=> Right(v)
  <2>1. /\ \A P : (IsGroup(P)' <=> IsGroup(P))
        /\ \A M, P : (IsModerator(M, P)' <=> IsModerator(M, P))
        /\ \A r : (FansOut(r)' <=> FansOut(r))
    BY ChoiceKept
  <2> QED
    BY <1>1, <2>1, Zenon DEF Right, Refusal
<1>3. \A v : ChatMet(v)' <=> ChatMet(v)
  BY <1>1 DEF ChatMet
<1>4. \A v : StageMet(v)' <=> StageMet(v)
  BY <1>1 DEF StageMet
<1> QED
  BY <1>2, <1>3, <1>4

LEMMA RightVerdict ==
  ASSUME cfg' = cfg, NEW v, verdict' = v, Right(v)
  PROVE  VerdictIsRight'
<1>1. \A x : Right(x)' <=> Right(x)
  BY MetKept
<1>2. Right(verdict)'
  <2>1. \A x : x = verdict' => Right(x)'
    BY <1>1
  <2> QED
    BY <2>1
<1> QED
  BY <1>2 DEF VerdictIsRight

LEMMA NeedsOfRefusal ==
  ASSUME verdict'.kind \in {"none", "refused"}
  PROVE  BuildersGetWhatTheyNeed'
BY DEF BuildersGetWhatTheyNeed

LEMMA NeedsMet ==
  ASSUME ConfigOK, Errors = {}, cfg' = cfg, NEW v, verdict' = v,
         Built(v) # {}, Built(v) \subseteq Nodes, \A u \in Built(v) : Attached(u) \subseteq Registered,
         ChatMet(v), StageMet(v)
  PROVE  BuildersGetWhatTheyNeed'
<1>1. /\ Nodes' = Nodes /\ NodeIds' = NodeIds
      /\ \A x : Built(x)' = Built(x) /\ Attached(x)' = Attached(x) /\ Adj(x)' = Adj(x)
      /\ \A x, y : (SameCycle(x, y)' <=> SameCycle(x, y)) /\ (Connected(x, y)' <=> Connected(x, y))
  BY GraphKept, ConfigKept
<1>2. /\ IsInjective(NodeIds)
      /\ \A u \in Nodes : Attached(u) \subseteq ToSet(cfg.tools)
      /\ \A i \in DOMAIN cfg.edges : ToSet(cfg.edges[i]) \subseteq ToSet(NodeIds)
  BY ValidFacts
<1>3. ChatMet(verdict)' /\ StageMet(verdict)'
  <2>1. \A x : x = verdict' => (ChatMet(x)' <=> ChatMet(x)) /\ (StageMet(x)' <=> StageMet(x))
    BY MetKept
  <2> QED
    BY <2>1
<1> QED
  BY <1>1, <1>2, <1>3 DEF BuildersGetWhatTheyNeed

\* A builder is called, or finds nobody to build or an unknown tool.
LEMMA ConcludeKeeps ==
  ASSUME ConfigOK, Errors = {}, cfg' = cfg, NEW v, Conclude(v),
         Built(v) \subseteq Nodes, ChatMet(v), StageMet(v),
         IF Built(v) = {} THEN Right(Refusal("no participants")) ELSE Right(v)
  PROVE  stage' = "done" /\ BuildersGetWhatTheyNeed' /\ VerdictIsRight'
<1>1. stage' = "done"
  BY DEF Conclude
<1>2. CASE Built(v) = {}
  <2>1. verdict' = Refusal("no participants")
    BY <1>2 DEF Conclude
  <2>2. Right(Refusal("no participants"))
    BY <1>2
  <2>3. verdict'.kind = "refused"
    BY <2>1 DEF Refusal
  <2> QED
    BY <1>1, <2>1, <2>2, <2>3, RightVerdict, NeedsOfRefusal
<1>3. CASE Built(v) # {} /\ \A u \in Built(v) : Attached(u) \subseteq Registered
  <2>1. verdict' = v
    BY <1>3 DEF Conclude
  <2> QED
    BY <1>1, <1>3, <2>1, RightVerdict, NeedsMet
<1>4. CASE Built(v) # {} /\ ~ \A u \in Built(v) : Attached(u) \subseteq Registered
  <2>1. verdict' = Refusal("unknown tool")
    BY <1>4 DEF Conclude
  <2>2. Right(Refusal("unknown tool"))
    BY DEF Right
  <2>3. verdict'.kind = "refused"
    BY <2>1 DEF Refusal
  <2> QED
    BY <1>1, <2>1, <2>2, <2>3, RightVerdict, NeedsOfRefusal
<1> QED
  BY <1>2, <1>3, <1>4

\* Refusals keep the invariants when they are right.
LEMMA RefuseKeeps ==
  ASSUME cfg' = cfg, NEW why, Refuse(why), Right(Refusal(why))
  PROVE  stage' = "done" /\ BuildersGetWhatTheyNeed' /\ VerdictIsRight'
<1>1. stage' = "done" /\ verdict' = Refusal(why)
  BY DEF Refuse
<1>2. verdict'.kind = "refused"
  BY <1>1 DEF Refusal
<1> QED
  BY <1>1, <1>2, RightVerdict, NeedsOfRefusal

\* Around a concurrent stage: from the root, which all agents are reached from, there is only
\* an edge to the branches, and from these only to the next agent.
LEMMA FanoutFacts ==
  ASSUME ConfigOK, ~Cyclic, NEW r, Roots = {r}, \A x \in Nodes : Connected(r, x), Fanout(r),
         NEW v, v.kind = "concurrent", v.root = r, v.branches = Adj(r),
         v.next = UNION {Adj(b) : b \in Adj(r)}
  PROVE  Built(v) \subseteq Nodes /\ Built(v) # {} /\ StageMet(v)
<1>a. PICK B : B = Adj(r)
  OBVIOUS
<1>b. PICK X : X = UNION {Adj(b) : b \in B}
  OBVIOUS
<1>1. r \in Nodes /\ \A i \in AgentEdges : To(i) # r
  BY RootFacts, EdgeFacts
<1>2. B \subseteq Nodes /\ X \subseteq Nodes /\ r \notin B /\ r \notin X
  BY <1>a, <1>b, <1>1, EdgeFacts
<1>3. B # {}
  <2>1. OutDeg(r) # 0
    <3>1. OutDeg(r) > 1 /\ OutDeg(r) \in Nat
      BY GraphFinite, TwoElements DEF Fanout, OutDeg
    <3> QED
      BY <3>1
  <2>2. Out(r) # {}
    BY <2>1, FS_EmptySet DEF OutDeg
  <2> QED
    BY <1>a, <2>2, EdgeFacts
<1>4. \A b, c \in B : Adj(b) = Adj(c) /\ OutDeg(b) <= 1
  <2>1. CASE \A b \in B : OutDeg(b) = 0
    <3>1. \A b \in B : Out(b) = {}
      BY <2>1, GraphFinite, FS_EmptySet DEF OutDeg
    <3>2. \A b \in B : Adj(b) = {}
      BY <3>1, EdgeFacts
    <3>3. \A b \in B : OutDeg(b) <= 1
      BY <2>1
    <3> QED
      BY <3>2, <3>3
  <2>2. CASE \A b \in B : OutDeg(b) = 1 /\ \A c \in B : Adj(b) = Adj(c)
    <3>1. \A b \in B : OutDeg(b) <= 1
      BY <2>2
    <3> QED
      BY <2>2, <3>1
  <2> QED
    BY <1>a, <2>1, <2>2 DEF Fanout
<1>5. \A b \in B : X = Adj(b)
  BY <1>b, <1>4
<1>6. \A x, y \in X : x = y
  <2> SUFFICES ASSUME NEW x \in X, NEW y \in X PROVE x = y
    OBVIOUS
  <2>1. PICK b \in B : TRUE
    BY <1>3
  <2>2. PICK i, j \in Out(b) : To(i) = x /\ To(j) = y
    BY <1>5, EdgeFacts
  <2> QED
    BY <1>4, <2>2, OneEdge
<1>7. Cardinality(X) <= 1
  BY <1>2, <1>6, GraphFinite, FS_Subset, TwoElements
<1>8. X \cap B = {}
  <2> SUFFICES ASSUME NEW n \in X, n \in B PROVE FALSE
    OBVIOUS
  <2>1. PICK i \in AgentEdges : From(i) = n /\ To(i) = n
    BY <1>5, EdgeFacts
  <2> QED
    BY <2>1, Paths DEF Cyclic
<1>9. ASSUME NEW w \in B, NEW x \in Nodes, Connected(w, x), w # x
      PROVE  \E n \in X : Connected(n, x)
  <2>1. PICK i \in Out(w) : Connected(To(i), x)
    BY <1>2, <1>9, FirstEdge
  <2> QED
    BY <1>5, <2>1, EdgeFacts
<1>10. ASSUME X = {}, NEW x \in Nodes \ {r} PROVE x \in B
  <2>1. PICK i \in Out(r) : Connected(To(i), x)
    BY <1>1, <1>10, FirstEdge
  <2>2. To(i) \in B
    BY <1>a, <2>1, EdgeFacts
  <2> QED
    BY <1>9, <1>10, <2>1, <2>2
<1>11. Built(v) = B \cup X
  BY <1>a, <1>b DEF Built
<1>12. X = {} => Nodes = B \cup {r}
  BY <1>1, <1>2, <1>10
<1>13. StageMet(v)
  <2>1. v.branches = B /\ v.next = X
    BY <1>a, <1>b
  <2> QED
    BY <1>2, <1>3, <1>7, <1>8, <1>9, <1>12, <2>1 DEF StageMet
<1> QED
  BY <1>2, <1>3, <1>11, <1>13

\* Counted degrees tell a fan-out from other shapes.
LEMMA FanoutMeans ==
  ASSUME ConfigOK, NEW r \in Nodes
  PROVE  Fanout(r) <=> cfg.hint /\ FansOut(r)
<1>1. \A x : /\ IsFiniteSet(Out(x)) /\ OutDeg(x) \in Nat
             /\ OutDeg(x) >= 2 <=> Several(Out(x))
             /\ OutDeg(x) <= 1 <=> ~Several(Out(x))
             /\ OutDeg(x) = 0 <=> Out(x) = {}
  <2>1. \A x : IsFiniteSet(Out(x))
    BY GraphFinite
  <2> QED
    BY <2>1, TwoElements, FS_EmptySet DEF OutDeg, Several
<1>2. OutDeg(r) > 1 <=> Several(Out(r))
  BY <1>1
<1>3. (\A b \in Adj(r) : OutDeg(b) = 0) <=> (\A b \in Adj(r) : Out(b) = {})
  BY <1>1
<1>4. ASSUME NEW b, OutDeg(b) = 1 PROVE \E i \in AgentEdges : Out(b) = {i}
  <2>1. Out(b) # {} /\ \A x, y \in Out(b) : x = y
    BY <1>1, <1>4 DEF Several
  <2>2. PICK i : Out(b) = {i}
    BY <2>1
  <2> QED
    BY <2>2, EdgeFacts
<1>5. ASSUME NEW b, NEW i, Out(b) = {i} PROVE OutDeg(b) = 1 /\ Adj(b) = {To(i)}
  BY <1>5, FS_Singleton DEF OutDeg, Adj
<1>6. ASSUME Several(Out(r)), \A b \in Adj(r) : OutDeg(b) = 1,
             \A b, c \in Adj(r) : Adj(b) = Adj(c)
      PROVE  \E n \in Nodes : \A b \in Adj(r) : \E i \in AgentEdges : Out(b) = {i} /\ To(i) = n
  <2>1. PICK a \in Adj(r) : TRUE
    BY <1>6, EdgeFacts DEF Several
  <2>2. PICK k \in AgentEdges : Out(a) = {k}
    BY <1>4, <1>6
  <2>3. Adj(a) = {To(k)} /\ To(k) \in Nodes
    BY <1>5, <2>2, EdgeFacts
  <2>4. ASSUME NEW b \in Adj(r) PROVE \E i \in AgentEdges : Out(b) = {i} /\ To(i) = To(k)
    <3>1. PICK i \in AgentEdges : Out(b) = {i}
      BY <1>4, <1>6
    <3>2. Adj(b) = {To(i)} /\ Adj(b) = {To(k)}
      BY <1>5, <1>6, <2>3, <3>1
    <3> QED
      BY <3>1, <3>2
  <2> QED
    BY <2>3, <2>4
<1>7. ASSUME NEW n, \A b \in Adj(r) : \E i \in AgentEdges : Out(b) = {i} /\ To(i) = n
      PROVE  /\ \A b \in Adj(r) : OutDeg(b) = 1
             /\ \A b, c \in Adj(r) : Adj(b) = Adj(c)
  <2>1. ASSUME NEW b \in Adj(r) PROVE OutDeg(b) = 1 /\ Adj(b) = {n}
    <3>1. PICK i \in AgentEdges : Out(b) = {i} /\ To(i) = n
      BY <1>7
    <3> QED
      BY <1>5, <3>1
  <2> QED
    BY <2>1
<1> QED
  BY <1>2, <1>3, <1>6, <1>7 DEF Fanout, FansOut

\* The verdict on a branching graph.
LEMMA BranchingMet ==
  ASSUME ConfigOK, IsInjective(cfg.agents), Len(cfg.agents) > 1, ~Cyclic, AgentEdges # {},
         NEW r, Roots = {r}, \A x \in Nodes : Connected(r, x), NEW u \in Nodes, OutDeg(u) > 1,
         NEW v, v = Branching(r)
  PROVE  Built(v) \subseteq Nodes /\ Built(v) # {} /\ ChatMet(v) /\ StageMet(v) /\ Right(v)
<1>1. v.kind \in {"handoff", "concurrent"} /\ v.root = r
  BY DEF Branching
<1>2. Sources = {r} /\ Cardinality(Sources) = 1
  BY RootsAreSources, FS_Singleton
<1>3. Right(v)
  <2>1. ASSUME NEW p \in [1 .. Len(cfg.agents) -> Nodes], IsChain(p) PROVE FALSE
    <3>1. Len(cfg.agents) >= 1
      BY AgentsCounted
    <3>2. OutDeg(u) <= 1
      BY <2>1, <3>1, ChainsDoNotBranch
    <3>3. OutDeg(u) \in Nat
      BY GraphFinite, TwoElements DEF OutDeg
    <3> QED
      BY <3>2, <3>3
  <2>2. v.kind = IF cfg.hint /\ FansOut(r) THEN "concurrent" ELSE "handoff"
    <3>1. r \in Nodes
      BY DEF Roots
    <3>2. Fanout(r) <=> cfg.hint /\ FansOut(r)
      BY <3>1, FanoutMeans
    <3> QED
      BY <3>2 DEF Branching
  <2> QED
    BY <1>1, <1>2, <2>1, <2>2, Zenon DEF Right
<1>4. ChatMet(v)
  BY <1>1 DEF ChatMet
<1>5. CASE Fanout(r)
  <2>1. /\ v.kind = "concurrent" /\ v.branches = Adj(r)
        /\ v.next = UNION {Adj(b) : b \in Adj(r)}
    BY <1>5 DEF Branching
  <2> QED
    BY <1>1, <1>3, <1>4, <1>5, <2>1, FanoutFacts
<1>6. CASE ~Fanout(r)
  <2>1. v.kind = "handoff"
    BY <1>6 DEF Branching
  <2>2. Built(v) = Nodes
    BY <2>1 DEF Built
  <2>3. StageMet(v)
    BY <2>1 DEF StageMet
  <2> QED
    BY <1>3, <1>4, <2>2, <2>3 DEF Roots
<1> QED
  BY <1>5, <1>6

\* A moderator is one of the group.
LEMMA ModeratorFacts ==
  ASSUME ConfigOK, Group \subseteq Nodes
  PROVE  Moderator \subseteq Group
<1> DEFINE labelled == Group \cap cfg.moderators
<1>1. CASE labelled # {}
  <2>1. FirstAgent(labelled) \in labelled
    BY <1>1, FirstFacts
  <2> QED
    BY <1>1, <2>1 DEF Moderator
<1>2. CASE labelled = {}
  BY <1>2 DEF Moderator
<1> QED
  BY <1>1, <1>2

\* The first agent of the file in a set comes before all others.
LEMMA FirstOfAll ==
  ASSUME ConfigOK, NEW S, S \cap Nodes # {}
  PROVE  \E i \in DOMAIN cfg.agents :
           /\ FirstAgent(S) = cfg.agents[i] /\ cfg.agents[i] \in S
           /\ \A j \in DOMAIN cfg.agents : cfg.agents[j] \in S => i <= j
<1> DEFINE T == {i \in DOMAIN cfg.agents : cfg.agents[i] \in S}
<1>1. cfg.agents \in Seq(Ids)
  BY PositionFacts
<1>2. T \in SUBSET Nat /\ T # {} /\ T \subseteq DOMAIN cfg.agents
  BY <1>1 DEF Nodes, ToSet
<1>3. Min(T) \in T /\ \A l \in T : Min(T) <= l
  <2> HIDE DEF T
  <2> QED
    BY <1>2, MinFacts
<1>4. FirstAgent(S) = cfg.agents[Min(T)]
  BY DEF FirstAgent
<1> QED
  BY <1>3, <1>4

\* The labels and the counted degrees in the group choose the moderator.
LEMMA ModeratorMeans ==
  ASSUME ConfigOK, Group \subseteq Nodes
  PROVE  IsModerator(Moderator, Group)
<1> DEFINE labelled == Group \cap cfg.moderators
           hubs == {x \in Group : /\ Several({i \in Out(x) : To(i) \in Group})
                                  /\ Several({i \in In(x) : From(i) \in Group})}
           counted == {x \in Group : /\ Cardinality({i \in Out(x) : To(i) \in Group}) >= 2
                                     /\ Cardinality({i \in In(x) : From(i) \in Group}) >= 2}
<1>1. hubs = counted
  <2>1. ASSUME NEW x
        PROVE  /\ Cardinality({i \in Out(x) : To(i) \in Group}) >= 2 <=>
                    Several({i \in Out(x) : To(i) \in Group})
               /\ Cardinality({i \in In(x) : From(i) \in Group}) >= 2 <=>
                    Several({i \in In(x) : From(i) \in Group})
    <3>1. /\ {i \in Out(x) : To(i) \in Group} \in SUBSET Out(x)
          /\ {i \in In(x) : From(i) \in Group} \in SUBSET In(x)
      OBVIOUS
    <3>2. /\ IsFiniteSet({i \in Out(x) : To(i) \in Group})
          /\ IsFiniteSet({i \in In(x) : From(i) \in Group})
      BY <3>1, GraphFinite, FS_Subset
    <3> QED
      BY <3>2, TwoElements DEF Several
  <2> QED
    BY <2>1
<1>2. IsFiniteSet(hubs)
  <2>1. hubs \in SUBSET Nodes
    OBVIOUS
  <2> QED
    BY <2>1, GraphFinite, FS_Subset
<1>3. IF Cardinality(counted) = 1 THEN counted = {x \in hubs : hubs = {x}}
      ELSE {x \in hubs : hubs = {x}} = {}
  <2> HIDE DEF hubs, counted
  <2>1. CASE Cardinality(hubs) = 1
    <3>1. PICK x : hubs = {x}
      BY <1>2, <2>1, FS_Singleton
    <3>2. {y \in hubs : hubs = {y}} = {x}
      BY <3>1
    <3> QED
      BY <1>1, <2>1, <3>1, <3>2
  <2>2. CASE Cardinality(hubs) # 1
    <3>1. \A x : hubs # {x}
      BY <2>2, FS_Singleton
    <3> QED
      BY <1>1, <2>2, <3>1
  <2> QED
    BY <2>1, <2>2
<1>4. Moderator = IF labelled # {} THEN {FirstAgent(labelled)}
                  ELSE IF Cardinality(counted) = 1 THEN counted ELSE {}
  BY DEF Moderator
<1>5. IsModerator(Moderator, Group) <=>
        IF labelled # {}
        THEN \E i \in DOMAIN cfg.agents :
               /\ Moderator = {cfg.agents[i]} /\ cfg.agents[i] \in labelled
               /\ \A j \in DOMAIN cfg.agents : cfg.agents[j] \in labelled => i <= j
        ELSE Moderator = {x \in hubs : hubs = {x}}
  BY DEF IsModerator
<1>6. labelled \subseteq Nodes
  OBVIOUS
<1> HIDE DEF labelled, hubs, counted
<1>7. CASE labelled # {}
  <2>1. \E i \in DOMAIN cfg.agents :
          /\ FirstAgent(labelled) = cfg.agents[i] /\ cfg.agents[i] \in labelled
          /\ \A j \in DOMAIN cfg.agents : cfg.agents[j] \in labelled => i <= j
    BY <1>6, <1>7, FirstOfAll
  <2> QED
    BY <1>4, <1>5, <1>7, <2>1
<1>8. CASE labelled = {}
  BY <1>3, <1>4, <1>5, <1>8
<1> QED
  BY <1>7, <1>8

\* The first large component, or the first self loop, is the group.
LEMMA GroupMeans ==
  ASSUME ConfigOK, SearchInv, Searched, HasCycle
  PROVE  IsGroup(Group)
<1> DEFINE cycle(u) == {x \in Nodes : SameCycle(u, x)}
<1>1. sccs \in Seq(SUBSET Nodes) /\ DOMAIN sccs = 1 .. Len(sccs) /\ Len(sccs) \in Nat
  BY DEF SearchInv, SearchTypes
<1>2. \A i \in 1 .. Len(sccs) : IsFiniteSet(sccs[i]) /\ sccs[i] \in SUBSET Nodes
  BY <1>1, GraphFinite, FS_Subset
<1>3. /\ \A i \in 1 .. Len(sccs) : \A u \in sccs[i] : sccs[i] = cycle(u)
      /\ \A i, j \in 1 .. Len(sccs) : \A u \in sccs[i], v \in sccs[j] : j > i => ~Connected(u, v)
  BY ComponentsComplete
<1>4. \A v \in Nodes : \E i \in 1 .. Len(sccs) : v \in sccs[i]
  BY AllFinished
<1>5. \A i \in 1 .. Len(sccs) : i \in Big <=> Several(sccs[i])
  BY <1>1, <1>2, TwoElements DEF Big, Several
<1>6. Big \subseteq 1 .. Len(sccs)
  BY <1>1 DEF Big
<1>7. IsGroup(Group) <=>
        IF \E u \in Nodes : Several(cycle(u))
        THEN /\ Several(Group) /\ \A u \in Group : Group = cycle(u)
             /\ \A u \in Group, x \in Nodes \ Group : Connected(u, x) => ~Several(cycle(x))
        ELSE \E i \in Loops : Group = {From(i)} /\ \A j \in Loops : i <= j
  BY DEF IsGroup
<1> HIDE DEF cycle
<1>8. (\E u \in Nodes : Several(cycle(u))) <=> Big # {}
  <2>1. ASSUME NEW u \in Nodes, Several(cycle(u)) PROVE Big # {}
    <3>1. PICK i \in 1 .. Len(sccs) : u \in sccs[i]
      BY <1>4
    <3> QED
      BY <1>3, <1>5, <2>1, <3>1
  <2>2. ASSUME NEW i \in Big PROVE \E u \in Nodes : Several(cycle(u))
    <3>1. Several(sccs[i]) /\ i \in 1 .. Len(sccs)
      BY <1>5, <1>6
    <3>2. PICK u \in sccs[i] : TRUE
      BY <3>1 DEF Several
    <3> QED
      BY <1>2, <1>3, <3>1, <3>2
  <2> QED
    BY <2>1, <2>2
<1>9. CASE Big # {}
  <2>1. PICK m \in Big : m = Min(Big) /\ \A l \in Big : m <= l
    <3>1. Big \in SUBSET Nat
      BY <1>6
    <3> QED
      BY <1>9, <3>1, MinFacts
  <2>2. Group = sccs[m] /\ m \in 1 .. Len(sccs) /\ Several(Group)
    BY <1>5, <1>6, <1>9, <2>1 DEF Group
  <2>3. \A u \in Group : Group = cycle(u)
    BY <1>3, <2>2
  <2>4. ASSUME NEW u \in Group, NEW x \in Nodes \ Group, Connected(u, x), Several(cycle(x))
        PROVE  FALSE
    <3>1. PICK j \in 1 .. Len(sccs) : x \in sccs[j]
      BY <1>4
    <3>2. j \in Big /\ j # m
      BY <1>3, <1>5, <2>2, <2>4, <3>1
    <3>3. j > m
      BY <1>6, <2>1, <3>2
    <3> QED
      BY <1>3, <2>2, <2>4, <3>1, <3>3
  <2> QED
    BY <1>7, <1>8, <1>9, <2>2, <2>3, <2>4
<1>10. CASE Big = {}
  <2>1. Loops \in SUBSET Nat /\ Loops # {}
    BY <1>10, PositionFacts DEF Loops, HasCycle
  <2>2. Min(Loops) \in Loops /\ \A l \in Loops : Min(Loops) <= l
    BY <2>1, MinFacts
  <2>3. Group = {From(Min(Loops))}
    BY <1>10 DEF Group
  <2> QED
    BY <1>7, <1>8, <1>10, <2>2, <2>3
<1> QED
  BY <1>9, <1>10

-----------------------------------------------------------------------------
(* The detection as a whole. *)

\* What is known at each stage of the analysis.
Progress ==
  /\ stage \in {"start", "tarjan", "kahn", "chain", "done"}
  /\ stage # "done" => verdict = [kind |-> "none"]
  /\ stage \in {"start", "tarjan"} => visited = {}
  /\ stage \in {"tarjan", "kahn", "chain"} =>
       Errors = {} /\ Len(cfg.agents) > 1 /\ AgentEdges # {}
  /\ stage \in {"kahn", "chain"} => ~Cyclic /\ \E r : Roots = {r}
  /\ stage = "kahn" => KahnInv
  /\ stage = "chain" => WalkInv
  /\ order \in Seq(Nodes) /\ IsInjective(order)

(***************************************************************************)
(* That the verdict is right is not inductive either: each stage rests on  *)
(* what the one before it has established, and the last ones on Kahn's     *)
(* algorithm having come to every agent from the only root.                *)
(***************************************************************************)
DetectionInv == ConfigOK /\ SearchInv /\ Progress /\ BuildersGetWhatTheyNeed /\ VerdictIsRight

\* The configuration and the verdict tell all that the properties of a verdict are about.
LEMMA VerdictKept ==
  ASSUME cfg' = cfg, verdict' = verdict, stage' = stage, VerdictIsRight, BuildersGetWhatTheyNeed
  PROVE  VerdictIsRight' /\ BuildersGetWhatTheyNeed'
<1>1. /\ Nodes' = Nodes /\ NodeIds' = NodeIds
      /\ \A x : Built(x)' = Built(x) /\ Attached(x)' = Attached(x)
  BY GraphKept, ConfigKept
<1>a. /\ (Right(verdict)' <=> Right(verdict)) /\ (ChatMet(verdict)' <=> ChatMet(verdict))
      /\ (StageMet(verdict)' <=> StageMet(verdict))
  <2>1. \A x : x = verdict' => /\ (Right(x)' <=> Right(x)) /\ (ChatMet(x)' <=> ChatMet(x))
                              /\ (StageMet(x)' <=> StageMet(x))
    BY MetKept
  <2> QED
    BY <2>1
<1>2. VerdictIsRight'
  BY <1>a DEF VerdictIsRight
<1>3. BuildersGetWhatTheyNeed'
  BY <1>1, <1>a DEF BuildersGetWhatTheyNeed
<1> QED
  BY <1>2, <1>3

LEMMA Unfinished ==
  ASSUME stage' # "done", verdict' = [kind |-> "none"]
  PROVE  VerdictIsRight' /\ BuildersGetWhatTheyNeed'
BY DEF VerdictIsRight, BuildersGetWhatTheyNeed

\* A step to the verdict, from one that left everything else in place.
LEMMA DoneKeeps ==
  ASSUME DetectionInv, UNCHANGED << cfg, tarjanVars, order >>, stage' = "done",
         BuildersGetWhatTheyNeed', VerdictIsRight'
  PROVE  DetectionInv'
<1>1. ConfigOK' /\ SearchInv'
  BY SearchKept DEF DetectionInv, ConfigOK
<1>2. Nodes' = Nodes
  BY GraphKept
<1>3. order' \in Seq(Nodes') /\ IsInjective(order')
  BY <1>2 DEF DetectionInv, Progress
<1>4. Progress'
  BY <1>3 DEF Progress
<1> QED
  BY <1>1, <1>4 DEF DetectionInv

\* The same for a step to another stage.
LEMMA StageKeeps ==
  ASSUME DetectionInv, UNCHANGED << cfg, tarjanVars >>, verdict' = [kind |-> "none"],
         Errors = {}, Len(cfg.agents) > 1, AgentEdges # {},
         \/ /\ stage' = "tarjan" /\ visited' = {}
         \/ /\ stage' \in {"kahn", "chain"} /\ ~Cyclic /\ \E r : Roots = {r}
            /\ stage' = "kahn" => KahnInv'
            /\ stage' = "chain" => WalkInv',
         order' \in Seq(Nodes), IsInjective(order')
  PROVE  DetectionInv'
<1>1. ConfigOK' /\ SearchInv'
  BY SearchKept DEF DetectionInv, ConfigOK
<1>2. /\ Nodes' = Nodes /\ AgentEdges' = AgentEdges /\ Roots' = Roots
      /\ Errors' = Errors /\ (Cyclic' <=> Cyclic)
  BY GraphKept, ConfigKept
<1>3. Progress'
  BY <1>2 DEF Progress
<1>4. VerdictIsRight' /\ BuildersGetWhatTheyNeed'
  BY Unfinished
<1> QED
  BY <1>1, <1>3, <1>4 DEF DetectionInv

LEMMA InitDetection == Init => DetectionInv
<1> SUFFICES ASSUME Init PROVE DetectionInv
  OBVIOUS
<1>1. ConfigOK /\ SearchInv
  BY InitSearch DEF Init, ConfigOK
<1>2. stage = "start" /\ verdict = [kind |-> "none"] /\ visited = {} /\ order = << >>
  BY DEF Init
<1>3. order \in Seq(Nodes) /\ IsInjective(order)
  BY <1>2 DEF IsInjective
<1>4. Progress
  BY <1>2, <1>3 DEF Progress
<1>5. VerdictIsRight /\ BuildersGetWhatTheyNeed
  BY <1>2 DEF VerdictIsRight, BuildersGetWhatTheyNeed
<1> QED
  BY <1>1, <1>4, <1>5 DEF DetectionInv

LEMMA InvalidStep ==
  ASSUME DetectionInv, Invalid
  PROVE  DetectionInv'
<1>1. UNCHANGED << cfg, tarjanVars, order >> /\ Refuse("invalid")
  BY DEF Invalid
<1>2. Right(Refusal("invalid"))
  BY DEF Right
<1> QED
  BY <1>1, <1>2, RefuseKeeps, DoneKeeps

LEMMA BeginStep ==
  ASSUME DetectionInv, Begin
  PROVE  DetectionInv'
<1>1. /\ UNCHANGED << cfg, tarjanVars, kahnVars, order >> /\ Errors = {} /\ stage = "start"
      /\ ConfigOK /\ order \in Seq(Nodes) /\ IsInjective(order) /\ visited = {}
      /\ verdict = [kind |-> "none"]
  BY DEF Begin, DetectionInv, Progress
<1>2. UNCHANGED << cfg, tarjanVars, order >>
  BY <1>1
<1>3. cfg.agents \in Seq(Ids) /\ Len(cfg.agents) \in Nat
  BY <1>1, PositionFacts
<1>4. CASE cfg.agents = << >> /\ Refuse("no agents")
  <2>1. Len(cfg.agents) = 0
    <3>1. Len(<< >>) = 0
      OBVIOUS
    <3> QED
      BY <1>4, <3>1, Zenon
  <2>2. ~ (Len(cfg.agents) > 1)
    <3>1. ~ (0 > 1)
      OBVIOUS
    <3> QED
      BY <2>1, <3>1, Zenon
  <2>3. Right(Refusal("no agents"))
    BY <2>2 DEF Right
  <2> QED
    BY <1>2, <1>4, <2>3, RefuseKeeps, DoneKeeps
<1>5. CASE Len(cfg.agents) = 1 /\ Conclude([kind |-> "single", only |-> Head(cfg.agents)])
  <2>1. PICK v : v = [kind |-> "single", only |-> Head(cfg.agents)]
    OBVIOUS
  <2>2. Head(cfg.agents) \in Nodes
    BY <1>3, <1>5 DEF Nodes, ToSet
  <2>3. Built(v) \subseteq Nodes /\ Built(v) # {}
    BY <2>1, <2>2 DEF Built
  <2>4. Len(cfg.agents) <= 1 /\ ~ (Len(cfg.agents) > 1)
    BY <1>3, <1>5
  <2>5. Right(v)
    BY <2>4 DEF Right
  <2>6. ChatMet(v) /\ StageMet(v)
    BY <2>1 DEF ChatMet, StageMet
  <2>7. Conclude(v)
    BY <1>5, <2>1
  <2> QED
    BY <1>1, <1>2, <2>3, <2>4, <2>5, <2>6, <2>7, ConcludeKeeps, DoneKeeps
<1>6. CASE Len(cfg.agents) > 1 /\ AgentEdges = {} /\ Refuse("no edges")
  <2>1. ~Cyclic
    BY <1>6 DEF Cyclic
  <2>2. Refusal("no edges").kind = "refused" /\ Refusal("no edges").why = "no edges"
    BY DEF Refusal
  <2>3. Right(Refusal("no edges"))
    BY <1>6, <2>1, <2>2, Zenon DEF Right
  <2> QED
    BY <1>2, <1>6, <2>3, RefuseKeeps, DoneKeeps
<1>7. CASE Len(cfg.agents) > 1 /\ AgentEdges # {} /\ stage' = "tarjan" /\ UNCHANGED verdict
  <2>1. /\ visited' = {} /\ verdict' = [kind |-> "none"]
        /\ order' \in Seq(Nodes) /\ IsInjective(order') /\ UNCHANGED << cfg, tarjanVars >>
    BY <1>1, <1>7 DEF kahnVars
  <2> QED
    BY <1>1, <1>7, <2>1, StageKeeps
<1> QED
  BY <1>4, <1>5, <1>6, <1>7 DEF Begin

LEMMA TarjanStep ==
  ASSUME DetectionInv, Tarjan
  PROVE  DetectionInv'
<1>1. UNCHANGED << cfg, stage, kahnVars, order, verdict >> /\ stage = "tarjan"
  BY DEF Tarjan
<1>2. ConfigOK' /\ SearchInv'
  BY <1>1, TarjanKeeps DEF DetectionInv, ConfigOK
<1>3. Nodes' = Nodes /\ AgentEdges' = AgentEdges /\ Errors' = Errors
  BY <1>1, GraphKept, ConfigKept
<1>4. Progress'
  BY <1>1, <1>3 DEF DetectionInv, Progress, kahnVars
<1>5. VerdictIsRight' /\ BuildersGetWhatTheyNeed'
  BY <1>1, VerdictKept DEF DetectionInv
<1> QED
  BY <1>2, <1>4, <1>5 DEF DetectionInv

\* What is known when the search for components is over.
LEMMA SearchOver ==
  ASSUME DetectionInv, TarjanDone
  PROVE  /\ ConfigOK /\ SearchInv /\ stage = "tarjan" /\ visited = {}
         /\ Errors = {} /\ Len(cfg.agents) > 1 /\ AgentEdges # {}
         /\ verdict = [kind |-> "none"] /\ order \in Seq(Nodes) /\ IsInjective(order)
         /\ (HasCycle <=> Cyclic) /\ Searched
<1>1. Searched
  BY DEF TarjanDone, Searched, Entered
<1> QED
  BY <1>1, CyclesSeen DEF DetectionInv, Progress, TarjanDone

LEMMA DetectGroupChatStep ==
  ASSUME DetectionInv, DetectGroupChat
  PROVE  DetectionInv'
<1>1. /\ UNCHANGED << cfg, tarjanVars, order >> /\ HasCycle /\ Cyclic
      /\ ConfigOK /\ SearchInv /\ Searched /\ Errors = {}
  BY SearchOver DEF DetectGroupChat
<1>2. PICK v : v = [kind |-> "groupchat", participants |-> Group, moderator |-> Moderator]
  OBVIOUS
<1>3. /\ Group # {} /\ Group \subseteq Nodes
      /\ \A x, y \in Group : SameCycle(x, y)
      /\ \A x \in Group : Group = {x} => x \in Adj(x)
  BY <1>1, GroupFacts
<1>4. Moderator \subseteq Group
  BY <1>1, <1>3, ModeratorFacts
<1>5. v.kind = "groupchat" /\ v.participants = Group /\ v.moderator = Moderator
  BY <1>2
<1>6. Built(v) \subseteq Nodes
  BY <1>3, <1>5 DEF Built
<1>7. ChatMet(v) /\ StageMet(v)
  BY <1>3, <1>4, <1>5 DEF ChatMet, StageMet
<1>8. IF Built(v) = {} THEN Right(Refusal("no participants")) ELSE Right(v)
  <2>1. IsGroup(Group) /\ IsModerator(Moderator, Group)
    BY <1>1, <1>3, GroupMeans, ModeratorMeans
  <2>2. Built(v) = Group \ Moderator
    BY <1>5 DEF Built
  <2>3. Built(v) = {} <=> Moderator = Group
    BY <1>4, <2>2
  <2>4. Group \in SUBSET Nodes /\ Moderator \in SUBSET Nodes
    BY <1>3, <1>4
  <2>5. ASSUME NEW w, w = IF Moderator = Group THEN Refusal("no participants") ELSE v
        PROVE  Right(w)
    <3>1. \E P, M \in SUBSET Nodes :
            /\ IsGroup(P) /\ IsModerator(M, P)
            /\ w = IF M = P THEN Refusal("no participants")
                   ELSE [kind |-> "groupchat", participants |-> P, moderator |-> M]
      BY <1>2, <2>1, <2>4, <2>5
    <3> QED
      BY <1>1, <3>1, Zenon DEF Right
  <2> QED
    BY <2>3, <2>5
<1>9. Conclude(v)
  BY <1>2 DEF DetectGroupChat
<1> QED
  BY <1>1, <1>6, <1>7, <1>8, <1>9, ConcludeKeeps, DoneKeeps

LEMMA CountRootsStep ==
  ASSUME DetectionInv, CountRoots
  PROVE  DetectionInv'
<1>1. /\ UNCHANGED << cfg, tarjanVars, order >> /\ ~Cyclic /\ ConfigOK
      /\ Errors = {} /\ Len(cfg.agents) > 1 /\ AgentEdges # {} /\ visited = {}
      /\ verdict = [kind |-> "none"] /\ order \in Seq(Nodes) /\ IsInjective(order)
  BY SearchOver DEF CountRoots
<1>2. Roots = Sources
  BY <1>1, RootsAreSources
<1>3. CASE Cardinality(Roots) # 1
  <2>1. Refuse("roots")
    BY <1>3 DEF CountRoots
  <2>2. Refusal("roots").kind = "refused" /\ Refusal("roots").why = "roots"
    BY DEF Refusal
  <2>3. Right(Refusal("roots"))
    BY <1>1, <1>2, <1>3, <2>2, Zenon DEF Right
  <2> QED
    BY <1>1, <2>1, <2>3, RefuseKeeps, DoneKeeps
<1>4. CASE Cardinality(Roots) = 1
  <2>1. /\ stage' = "kahn" /\ reach' = [v \in Nodes |-> InDeg(v)] /\ ready' = Roots
        /\ visited' = visited /\ verdict' = verdict
    BY <1>4 DEF CountRoots
  <2>2. IsFiniteSet(Roots)
    <3>1. Roots \in SUBSET Nodes
      BY DEF Roots
    <3> QED
      BY <1>1, <3>1, GraphFinite, FS_Subset
  <2>3. PICK r : Roots = {r}
    BY <1>4, <2>2, FS_Singleton
  <2>4. KahnInv'
    BY <1>1, <2>1, <2>3, KahnStarts
  <2>5. order' \in Seq(Nodes) /\ IsInjective(order') /\ UNCHANGED << cfg, tarjanVars >>
    BY <1>1
  <2> QED
    BY <1>1, <2>1, <2>3, <2>4, <2>5, StageKeeps
<1> QED
  BY <1>3, <1>4

LEMMA KahnStep ==
  ASSUME DetectionInv, NEW u \in Nodes, Kahn(u)
  PROVE  DetectionInv'
<1>1. /\ UNCHANGED << cfg, stage, tarjanVars, order, verdict >> /\ stage = "kahn"
      /\ ConfigOK /\ KahnInv
      /\ Errors = {} /\ Len(cfg.agents) > 1 /\ AgentEdges # {}
      /\ ~Cyclic /\ \E r : Roots = {r}
      /\ verdict = [kind |-> "none"] /\ order \in Seq(Nodes) /\ IsInjective(order)
  BY DEF Kahn, DetectionInv, Progress
<1>2. KahnInv'
  BY <1>1, KahnKeeps
<1>3. /\ UNCHANGED << cfg, tarjanVars >> /\ verdict' = [kind |-> "none"]
      /\ order' \in Seq(Nodes) /\ IsInjective(order')
      /\ stage' \in {"kahn", "chain"} /\ stage' # "chain"
  BY <1>1
<1> QED
  BY <1>1, <1>2, <1>3, StageKeeps

\* When the queue is empty, every agent was visited, all from the only root.
LEMMA KahnOver ==
  ASSUME DetectionInv, KahnEnds
  PROVE  /\ visited = Nodes /\ ConfigOK /\ Errors = {} /\ Len(cfg.agents) > 1 /\ AgentEdges # {}
         /\ ~Cyclic /\ verdict = [kind |-> "none"] /\ IsInjective(cfg.agents)
         /\ \E r \in Nodes : /\ Roots = {r} /\ FirstAgent(Roots) = r
                             /\ \A x \in Nodes : Connected(r, x)
<1>1. /\ ConfigOK /\ KahnInv /\ ready = {} /\ ~Cyclic
      /\ Errors = {} /\ Len(cfg.agents) > 1 /\ AgentEdges # {}
      /\ verdict = [kind |-> "none"]
  BY DEF KahnEnds, DetectionInv, Progress
<1>2. PICK r : Roots = {r}
  BY DEF KahnEnds, DetectionInv, Progress
<1>3. visited = Nodes
  BY <1>1, KahnVisitsAll
<1>4. \A x \in Nodes : Connected(r, x)
  BY <1>1, <1>2, <1>3 DEF KahnInv
<1>5. r \in Nodes
  BY <1>2 DEF Roots
<1>6. FirstAgent(Roots) = r
  BY <1>1, <1>2, <1>5, FirstFacts
<1>7. IsInjective(cfg.agents)
  BY <1>1, ValidFacts
<1> QED
  BY <1>1, <1>2, <1>3, <1>4, <1>5, <1>6, <1>7

LEMMA KahnEndsStep ==
  ASSUME DetectionInv, KahnEnds
  PROVE  DetectionInv'
<1>1. /\ visited = Nodes /\ ConfigOK /\ Errors = {} /\ Len(cfg.agents) > 1 /\ AgentEdges # {}
      /\ ~Cyclic /\ verdict = [kind |-> "none"] /\ IsInjective(cfg.agents)
  BY KahnOver
<1>2. PICK r \in Nodes : /\ Roots = {r} /\ FirstAgent(Roots) = r
                         /\ \A x \in Nodes : Connected(r, x)
  BY KahnOver
<1>3. UNCHANGED << cfg, tarjanVars >>
  BY DEF KahnEnds
<1>4. CASE /\ \A v \in Nodes : OutDeg(v) <= 1
           /\ stage' = "chain" /\ order' = << FirstAgent(Roots) >> /\ UNCHANGED verdict
  <2>1. order' = << r >>
    BY <1>2, <1>4
  <2>2. /\ order' \in Seq(Nodes) /\ IsInjective(order') /\ Len(order') = 1 /\ order'[1] = r
        /\ \A j \in 1 .. Len(order') : j = 1
    BY <2>1 DEF IsInjective
  <2>3. /\ Nodes' = Nodes /\ Roots' = Roots
        /\ \A v : OutDeg(v)' = OutDeg(v)
        /\ \A x, y : Connected(x, y)' <=> Connected(x, y)
    BY <1>3, GraphKept, ConfigKept
  <2>4. Follows(order)'
    <3>1. 1 .. Len(order') - 1 = {}
      BY <2>2
    <3> QED
      BY <3>1 DEF Follows
  <2>5. (\A v \in Nodes : OutDeg(v) <= 1)'
    BY <1>4, <2>3
  <2>6. (\A s \in Roots, x \in Nodes : Connected(s, x))'
    BY <1>2, <2>3
  <2>7. /\ order' \in Seq(Nodes') /\ IsInjective(order') /\ Len(order') >= 1 /\ order'[1] \in Roots'
    BY <1>2, <2>2, <2>3
  <2>8. (\A j, k \in 1 .. Len(order) : j <= k => Connected(order[j], order[k]))'
    <3>1. Connected(r, r)
      BY <1>2
    <3> QED
      BY <2>2, <2>3, <3>1
  <2>9. WalkInv'
    BY <2>4, <2>5, <2>6, <2>7, <2>8 DEF WalkInv
  <2>10. verdict' = [kind |-> "none"] /\ stage' \in {"kahn", "chain"} /\ stage' # "kahn"
    BY <1>1, <1>4
  <2> QED
    BY <1>1, <1>2, <1>3, <2>2, <2>9, <2>10, StageKeeps
<1>5. CASE (\E v \in Nodes : OutDeg(v) > 1) /\ Conclude(Branching(FirstAgent(Roots)))
           /\ UNCHANGED order
  <2>1. PICK u \in Nodes : OutDeg(u) > 1
    BY <1>5
  <2>2. PICK v : v = Branching(r)
    OBVIOUS
  <2>3. Built(v) \subseteq Nodes /\ Built(v) # {} /\ ChatMet(v) /\ StageMet(v) /\ Right(v)
    BY <1>1, <1>2, <2>1, <2>2, BranchingMet
  <2>4. Conclude(v)
    BY <1>2, <1>5, <2>2
  <2>5. UNCHANGED << cfg, tarjanVars, order >>
    BY <1>3, <1>5
  <2> QED
    BY <1>1, <2>3, <2>4, <2>5, ConcludeKeeps, DoneKeeps
<1> QED
  BY <1>1, <1>4, <1>5 DEF KahnEnds

\* The walk stays on a path without repetitions.
LEMMA WalkKeeps ==
  ASSUME ConfigOK, WalkInv, cfg' = cfg, NEW w \in Adj(Last(order)) \ ToSet(order),
         order' = Append(order, w)
  PROVE  WalkInv'
<1>1. PICK n \in Nat : /\ n = Len(order) /\ n >= 1 /\ n \in 1 .. n
                       /\ DOMAIN order = 1 .. n /\ Last(order) = order[n]
  BY DEF WalkInv, Last
<1>2. /\ Nodes' = Nodes /\ Roots' = Roots
      /\ \A v : OutDeg(v)' = OutDeg(v) /\ Adj(v)' = Adj(v)
      /\ \A x, y : Connected(x, y)' <=> Connected(x, y)
  BY GraphKept, ConfigKept
<1>3. w \in Nodes /\ w \in Adj(order[n]) /\ Connected(order[n], w)
  BY <1>1, EdgeFacts, Paths
<1>4. /\ order' \in Seq(Nodes) /\ Len(order') = n + 1 /\ DOMAIN order' = 1 .. n + 1
      /\ order'[n + 1] = w /\ \A k \in 1 .. n : order'[k] = order[k]
  BY <1>1, <1>3 DEF WalkInv
<1>5. \A k \in 1 .. n + 1 : k \in 1 .. n \/ k = n + 1
  BY <1>1
<1>6. \A k \in 1 .. n : order[k] # w
  BY <1>1 DEF ToSet
<1>7. IsInjective(order')
  BY <1>1, <1>4, <1>5, <1>6 DEF WalkInv, IsInjective
<1>8. Follows(order)'
  <2> SUFFICES ASSUME NEW k \in 1 .. n PROVE order'[k + 1] \in Adj(order'[k])
    BY <1>1, <1>2, <1>4 DEF Follows
  <2>1. CASE k = n
    BY <1>1, <1>3, <1>4, <2>1
  <2>2. CASE k # n
    <3>1. k \in 1 .. Len(order) - 1 /\ k + 1 \in 1 .. n
      BY <1>1, <2>2
    <3> QED
      BY <1>4, <3>1 DEF WalkInv, Follows
  <2> QED
    BY <2>1, <2>2
<1>9. (\A j, k \in 1 .. Len(order) : j <= k => Connected(order[j], order[k]))'
  <2> SUFFICES ASSUME NEW j \in 1 .. n + 1, NEW k \in 1 .. n + 1, j <= k
               PROVE  Connected(order'[j], order'[k])
    BY <1>2, <1>4
  <2>1. CASE k \in 1 .. n
    <3>1. j \in 1 .. n
      BY <1>1, <2>1
    <3> QED
      BY <1>1, <1>4, <2>1, <3>1 DEF WalkInv
  <2>2. CASE k = n + 1 /\ j = n + 1
    BY <1>3, <1>4, <2>2, Paths
  <2>3. CASE k = n + 1 /\ j \in 1 .. n
    <3>1. j <= n
      BY <1>1, <2>3
    <3>2. Connected(order[j], order[n])
      BY <1>1, <2>3, <3>1 DEF WalkInv
    <3> QED
      BY <1>3, <1>4, <2>3, <3>2, Paths
  <2> QED
    BY <1>5, <2>1, <2>2, <2>3
<1>10. Len(order') >= 1 /\ order'[1] \in Roots'
  <2>1. 1 \in 1 .. n /\ n + 1 >= 1
    BY <1>1
  <2> QED
    BY <1>2, <1>4, <2>1 DEF WalkInv
<1>11. (\A v \in Nodes : OutDeg(v) <= 1)'
  BY <1>2 DEF WalkInv
<1>12. (\A s \in Roots, x \in Nodes : Connected(s, x))'
  BY <1>2 DEF WalkInv
<1> QED
  BY <1>2, <1>4, <1>7, <1>8, <1>9, <1>10, <1>11, <1>12 DEF WalkInv

\* The verdict at the end of the walk.
LEMMA WalkMet ==
  ASSUME ConfigOK, Errors = {}, Len(cfg.agents) > 1, AgentEdges # {}, ~Cyclic,
         NEW r, Roots = {r}, WalkInv, Adj(Last(order)) \subseteq ToSet(order),
         NEW v, v = [kind |-> "sequential", order |-> order]
  PROVE  /\ Adj(Last(order)) = {} /\ Len(order) = Len(cfg.agents)
         /\ Built(v) \subseteq Nodes /\ Built(v) # {} /\ ChatMet(v) /\ StageMet(v) /\ Right(v)
<1>1. IsInjective(cfg.agents) /\ Len(cfg.agents) >= 1
  BY ValidFacts, AgentsCounted
<1>2. Adj(Last(order)) = {} /\ Len(order) = Len(cfg.agents) /\ IsChain(order)
  BY <1>1, WalkOver
<1>3. v.kind = "sequential" /\ v.order = order
  OBVIOUS
<1>4. Built(v) = Nodes
  BY <1>2, <1>3 DEF Built, IsChain
<1>5. ChatMet(v) /\ StageMet(v)
  BY <1>3 DEF ChatMet, StageMet
<1>6. Cardinality(Sources) = 1
  BY RootsAreSources, FS_Singleton
<1>7. order \in [1 .. Len(cfg.agents) -> Nodes]
  BY <1>2 DEF WalkInv
<1>8. Right(v)
  BY <1>2, <1>3, <1>6, <1>7, Zenon DEF Right
<1>9. r \in Nodes
  BY DEF Roots
<1> QED
  BY <1>2, <1>4, <1>5, <1>8, <1>9

LEMMA WalkChainStep ==
  ASSUME DetectionInv, WalkChain
  PROVE  DetectionInv'
<1>1. /\ UNCHANGED << cfg, tarjanVars >> /\ ConfigOK /\ WalkInv
      /\ stage = "chain" /\ Errors = {} /\ Len(cfg.agents) > 1 /\ AgentEdges # {}
      /\ ~Cyclic /\ \E r : Roots = {r}
      /\ verdict = [kind |-> "none"]
  BY DEF WalkChain, DetectionInv, Progress
<1>2. ASSUME NEW w \in Adj(Last(order)) \ ToSet(order), order' = Append(order, w),
             UNCHANGED << stage, verdict >>
      PROVE  DetectionInv'
  <2>1. WalkInv'
    BY <1>1, <1>2, WalkKeeps
  <2>2. order' \in Seq(Nodes) /\ IsInjective(order')
    BY <1>1, <2>1, GraphKept DEF WalkInv
  <2>3. verdict' = [kind |-> "none"] /\ stage' \in {"kahn", "chain"} /\ stage' # "kahn"
    BY <1>1, <1>2
  <2> QED
    BY <1>1, <2>1, <2>2, <2>3, StageKeeps
<1>3. CASE /\ Adj(Last(order)) = {}
           /\ Conclude([kind |-> "sequential", order |-> order]) /\ UNCHANGED order
  <2>1. PICK v : v = [kind |-> "sequential", order |-> order]
    OBVIOUS
  <2>2. PICK r : Roots = {r}
    BY <1>1
  <2>3. Built(v) \subseteq Nodes /\ Built(v) # {} /\ ChatMet(v) /\ StageMet(v) /\ Right(v)
    BY <1>1, <1>3, <2>1, <2>2, WalkMet
  <2>4. Conclude(v) /\ UNCHANGED << cfg, tarjanVars, order >>
    BY <1>1, <1>3, <2>1
  <2> QED
    BY <1>1, <2>3, <2>4, ConcludeKeeps, DoneKeeps
<1>4. CASE /\ Adj(Last(order)) = {} => Len(order) # Len(cfg.agents)
           /\ Adj(Last(order)) \subseteq ToSet(order)
  BY <1>1, <1>4, WalkMet
<1> QED
  BY <1>2, <1>3, <1>4 DEF WalkChain

LEMMA StutteringStep ==
  ASSUME DetectionInv, UNCHANGED vars
  PROVE  DetectionInv'
<1>1. UNCHANGED << cfg, stage, tarjanVars, kahnVars, order, verdict >>
  BY DEF vars
<1>2. ConfigOK' /\ SearchInv'
  BY <1>1, SearchKept DEF DetectionInv, ConfigOK
<1>3. VerdictIsRight' /\ BuildersGetWhatTheyNeed'
  BY <1>1, VerdictKept DEF DetectionInv
<1>4. /\ Nodes' = Nodes /\ AgentEdges' = AgentEdges /\ Errors' = Errors /\ Roots' = Roots
      /\ (Cyclic' <=> Cyclic) /\ (Follows(order)' <=> Follows(order))
      /\ \A i : From(i)' = From(i)
      /\ \A v : OutDeg(v)' = OutDeg(v) /\ In(v)' = In(v)
      /\ \A x, y : Connected(x, y)' <=> Connected(x, y)
  BY <1>1, GraphKept, ConfigKept DEF Follows
<1>5. KahnInv' <=> KahnInv
  <2>1. \A v : Pending(v)' = Pending(v)
    BY <1>1, <1>4 DEF Pending, kahnVars
  <2> QED
    BY <1>1, <1>4, <2>1 DEF KahnInv, kahnVars
<1>6. WalkInv' <=> WalkInv
  BY <1>1, <1>4 DEF WalkInv
<1>7. Progress'
  BY <1>1, <1>4, <1>5, <1>6 DEF DetectionInv, Progress, kahnVars
<1> QED
  BY <1>2, <1>3, <1>7 DEF DetectionInv

LEMMA StepDetection == DetectionInv /\ [Next]_vars => DetectionInv'
<1> SUFFICES ASSUME DetectionInv, [Next]_vars PROVE DetectionInv'
  OBVIOUS
<1> QED
  BY InvalidStep, BeginStep, TarjanStep, DetectGroupChatStep, CountRootsStep, KahnStep,
     KahnEndsStep, WalkChainStep, StutteringStep DEF Next

\* The invariant holds of every run of the detection.
THEOREM Invariance == Spec => []DetectionInv
BY InitDetection, StepDetection, PTL DEF Spec

(***************************************************************************)
(* The components Tarjan's algorithm finds are those of the graph, in an   *)
(* order in which none leads to a later one (_sccs).                       *)
(***************************************************************************)
THEOREM ComponentsCorrect == Spec => []SccsAreComponents
<1>1. DetectionInv => SccsAreComponents
  <2> SUFFICES ASSUME DetectionInv PROVE SccsAreComponents
    OBVIOUS
  <2>1. ConfigOK /\ SearchInv /\ Progress /\ SearchTypes /\ Bookkeeping
    BY DEF DetectionInv, SearchInv
  <2>2. /\ Len(stack) \in Nat /\ DOMAIN stack = 1 .. Len(stack)
        /\ DOMAIN frames = 1 .. Len(frames) /\ DOMAIN sccs = 1 .. Len(sccs)
        /\ DOMAIN lowlink = 1 .. Len(lowlink)
    BY <2>1 DEF SearchTypes
  <2>3. IsInjective(stack)
    <3> SUFFICES ASSUME NEW i \in 1 .. Len(stack), NEW j \in 1 .. Len(stack), stack[i] = stack[j]
                 PROVE  i = j
      BY <2>2 DEF IsInjective
    <3>1. IndexOf(stack[i]) \in Nat
      <4>1. stack[i] \in Entered
        BY <2>1, <2>2 DEF Bookkeeping, Stacked, ToSet
      <4> QED
        BY <2>1, <4>1, IndexFacts
    <3>2. i < j => IndexOf(stack[i]) < IndexOf(stack[j])
      BY <2>1 DEF Bookkeeping
    <3>3. j < i => IndexOf(stack[j]) < IndexOf(stack[i])
      BY <2>1 DEF Bookkeeping
    <3> QED
      BY <2>2, <3>1, <3>2, <3>3
  <2>4. Len(indices) = Len(stack) + Cardinality(Finished)
    <3>1. /\ Cardinality(Entered) = Len(indices) /\ IsFiniteSet(Entered)
          /\ Cardinality(Stacked) = Len(stack) /\ IsFiniteSet(Stacked)
      BY <2>1, <2>3, ElementsCounted DEF SearchTypes, Entered, Stacked
    <3>2. Finished \in SUBSET Entered
      BY <2>1 DEF Bookkeeping
    <3>3. IsFiniteSet(Finished) /\ Cardinality(Finished) \in Nat
      BY <3>1, <3>2, FS_Subset, FS_CardinalityType
    <3>4. Cardinality(Stacked \cup Finished) =
            Cardinality(Stacked) + Cardinality(Finished) - Cardinality(Stacked \cap Finished)
      BY <3>1, <3>3, FS_Union
    <3>5. Cardinality(Stacked \cap Finished) = 0
      BY <2>1, FS_EmptySet DEF Bookkeeping
    <3>6. Stacked \cup Finished = Entered
      BY <2>1 DEF Bookkeeping
    <3>7. Len(indices) = Len(stack) + Cardinality(Finished) - 0
      BY <3>1, <3>4, <3>5, <3>6, Zenon
    <3>8. \A m, n \in Nat : m + n - 0 = m + n
      OBVIOUS
    <3> QED
      BY <2>2, <3>3, <3>7, <3>8
  <2>5. \A i \in DOMAIN frames : frames[i].v \in ToSet(stack)
    BY <2>1, <2>2 DEF Bookkeeping, Caller, Stacked
  <2>6. TypeOK
    BY <2>1, <2>2, <2>3, <2>4, <2>5 DEF TypeOK, Progress, SearchTypes, Finished
  <2>7. \A i \in DOMAIN sccs : sccs[i] # {}
    BY <2>1, <2>2 DEF SearchInv, ComponentsFound
  <2> QED
    BY <2>1, <2>2, <2>6, <2>7, ComponentsComplete DEF SccsAreComponents
<1> QED
  BY <1>1, Invariance, PTL

\* What a builder is given is what it relies on (compile_graph and the graph builders).
THEOREM NeedsCorrect == Spec => []BuildersGetWhatTheyNeed
<1>1. DetectionInv => BuildersGetWhatTheyNeed
  BY DEF DetectionInv
<1> QED
  BY <1>1, Invariance, PTL

(***************************************************************************)
(* For every configuration, whatever the order of its agents and edges,    *)
(* the verdict is the one that its paths ask for: the kind, the group and  *)
(* its moderator, the chain, the root and whether it fans out; and three   *)
(* of the refusals in the code cannot happen.                              *)
(***************************************************************************)
THEOREM VerdictCorrect == Spec => []VerdictIsRight
<1>1. DetectionInv => VerdictIsRight
  BY DEF DetectionInv
<1> QED
  BY <1>1, Invariance, PTL

=============================================================================
