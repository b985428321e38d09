----------------------------- MODULE Detection ------------------------------
(***************************************************************************)
(* From a configuration to a compiled graph.  validate_graph looks for     *)
(* errors that refuse it; compile_graph tells the orchestration from the   *)
(* agent graph, and the builder it chooses looks up the tools of the       *)
(* agents it builds.                                                       *)
(*                                                                         *)
(* Tarjan's components find the cycles (a group chat), then the roots are  *)
(* counted, Kahn's algorithm walks the acyclic graph, and out-degrees tell *)
(* a chain from a branching graph, which is a concurrent stage if the name *)
(* of the configuration says so and its shape allows it.  The recursion of *)
(* strongconnect is a stack of frames.                                     *)
(*                                                                         *)
(* The lists the code filters from the edges are sets of positions in the  *)
(* file, walked in their order where it matters; lists of agents whose     *)
(* order is that of the file are sets, and so is Kahn's queue: only what   *)
(* it has visited in the end is ever used.                                 *)
(***************************************************************************)
EXTENDS Integers, Sequences, FiniteSets, SequencesExt

CONSTANTS
  Ids,        \* the ids of nodes and edges
  Configs,    \* the configurations: agents, tools (nodes) and edges in the
              \* order of the file, edgeIds; attached: what each agent attaches;
              \* hint: does the name contain "concurrent"; moderators: the
              \* agents whose label contains "moderator"
  Registered  \* the tool ids in the registry

\* Nothing is assumed of the ids: that is what validate_graph is for.
ASSUME ConfigsAssumption ==
  \A c \in Configs :
    /\ c.agents \in Seq(Ids) /\ c.tools \in Seq(Ids) /\ c.edges \in Seq(Ids \X Ids)
    /\ DOMAIN c.edgeIds = DOMAIN c.edges /\ DOMAIN c.attached = DOMAIN c.agents
    /\ c.hint \in BOOLEAN

VARIABLES
  cfg,      \* the configuration being compiled
  stage,    \* "start", "tarjan", "kahn", "chain", "done"
  frames,   \* the calls of strongconnect under way: agent and edges left
  indices,  \* Tarjan: agents in the order they were entered
  lowlink,
  stack,
  sccs,     \* the components found, in the order they were found
  reach,    \* Kahn: the in-degree left
  ready,    \* Kahn: agents in the queue
  visited,
  order,    \* the walk along the unique successors
  verdict

tarjanVars == << frames, indices, lowlink, stack, sccs >>
kahnVars == << reach, ready, visited >>
vars == << cfg, stage, tarjanVars, kahnVars, order, verdict >>
-----------------------------------------------------------------------------
(* The errors of validate_graph, which make load_graph raise; the warnings do not. *)

NodeIds == cfg.agents \o cfg.tools
AllAttached == UNION ToSet(cfg.attached)
Repeated(ids) == {ids[i] : i \in {j \in DOMAIN ids : \E k \in DOMAIN ids : k # j /\ ids[k] = ids[j]}}

Errors ==
  LET known == ToSet(NodeIds)
      coded(code, ids) == {code} \X ids
  IN coded("node.duplicate_id", Repeated(NodeIds))
       \cup coded("edge.duplicate_id", Repeated(cfg.edgeIds))
       \cup coded("edge.unknown_node", (UNION {ToSet(e) : e \in ToSet(cfg.edges)}) \ known)
       \cup coded("tools.unknown_attachment", AllAttached \ known)
       \cup coded("tools.attachment_not_tool", (AllAttached \cap known) \ ToSet(cfg.tools))
-----------------------------------------------------------------------------
Nodes == ToSet(cfg.agents)

\* An edge is its position; duplicates count, as they do in the code.
From(i) == cfg.edges[i][1]
To(i) == cfg.edges[i][2]
AgentEdges == {i \in DOMAIN cfg.edges : From(i) \in Nodes /\ To(i) \in Nodes}

Out(v) == {i \in AgentEdges : From(i) = v}
In(v) == {i \in AgentEdges : To(i) = v}
Adj(v) == {To(i) : i \in Out(v)}
OutDeg(v) == Cardinality(Out(v))
InDeg(v) == Cardinality(In(v))

\* The first agent of the file that is in a set.
FirstAgent(S) == cfg.agents[Min({i \in DOMAIN cfg.agents : cfg.agents[i] \in S})]
Roots == {v \in Nodes : InDeg(v) = 0}

Refusal(why) == [kind |-> "refused", why |-> why]
Refuse(why) == stage' = "done" /\ verdict' = Refusal(why)

\* The agents a builder makes nodes for; a moderator only picks the speakers.
Built(v) ==
  CASE v.kind = "single" -> {v.only}
    [] v.kind = "sequential" -> ToSet(v.order)
    [] v.kind = "groupchat" -> v.participants \ v.moderator
    [] v.kind = "concurrent" -> v.branches \cup v.next
    [] v.kind = "handoff" -> Nodes

\* The builder looks up what its agents attach, ids of nodes for the
\* validator, among the tool ids of the registry.
Attached(u) == cfg.attached[CHOOSE i \in DOMAIN cfg.agents : cfg.agents[i] = u]

Conclude(v) ==
  /\ stage' = "done"
  /\ verdict' =
       IF Built(v) = {} THEN Refusal("no participants")
       ELSE IF \A u \in Built(v) : Attached(u) \subseteq Registered THEN v
       ELSE Refusal("unknown tool")

Init ==
  /\ cfg \in Configs
  /\ stage = "start" /\ verdict = [kind |-> "none"]
  /\ frames = << >> /\ indices = << >> /\ lowlink = << >> /\ stack = << >> /\ sccs = << >>
  /\ reach = << >> /\ ready = {} /\ visited = {}
  /\ order = << >>

Invalid ==
  /\ stage = "start" /\ Errors # {}
  /\ Refuse("invalid")
  /\ UNCHANGED << cfg, tarjanVars, kahnVars, order >>

\* The graphs that need no analysis.
Begin ==
  /\ stage = "start" /\ Errors = {}
  /\ \/ cfg.agents = << >> /\ Refuse("no agents")
     \/ Len(cfg.agents) = 1 /\ Conclude([kind |-> "single", only |-> Head(cfg.agents)])
     \/ Len(cfg.agents) > 1 /\ AgentEdges = {} /\ Refuse("no edges")
     \/ /\ Len(cfg.agents) > 1 /\ AgentEdges # {}
        /\ stage' = "tarjan" /\ UNCHANGED verdict
  /\ UNCHANGED << cfg, tarjanVars, kahnVars, order >>
-----------------------------------------------------------------------------
(* Tarjan's algorithm, _sccs. *)

Top == frames[Len(frames)]
NextEdge == Min(Top.left)
Advanced == [frames EXCEPT ![Len(frames)] = [v |-> Top.v, left |-> Top.left \ {NextEdge}]]
Least(m, n) == IF m < n THEN m ELSE n

Enter(callers, v) ==
  /\ indices' = Append(indices, v)
  /\ lowlink' = Append(lowlink, Len(indices) + 1)
  /\ stack' = Append(stack, v)
  /\ frames' = Append(callers, [v |-> v, left |-> Out(v)])
  /\ UNCHANGED sccs

IndexOf(v) == CHOOSE i \in DOMAIN indices : indices[i] = v
Lower(v, n) == lowlink' = [lowlink EXCEPT ![IndexOf(v)] = Least(@, n)]

\* The loop over the nodes calls strongconnect on the first one not entered yet.
EnterRoot ==
  /\ frames = << >> /\ ~ Nodes \subseteq ToSet(indices)
  /\ Enter(<< >>, FirstAgent(Nodes \ ToSet(indices)))

\* Variant: an agent already in a component counts like one on the stack.
LookAtFinished(w) ==
  \/ w \notin ToSet(indices) /\ Enter(Advanced, w)
  \/ /\ w \in ToSet(indices)
     /\ frames' = Advanced /\ Lower(Top.v, IndexOf(w))
     /\ UNCHANGED << indices, stack, sccs >>

LookAt(w) ==
  \/ w \notin ToSet(indices) /\ Enter(Advanced, w)
  \/ /\ w \in ToSet(indices)
     /\ frames' = Advanced
     /\ IF w \in ToSet(stack) THEN Lower(Top.v, IndexOf(w)) ELSE UNCHANGED lowlink
     /\ UNCHANGED << indices, stack, sccs >>

\* v is the root of its component: everything above it on the stack belongs to it.
PopComponent(v) ==
  LET k == CHOOSE i \in DOMAIN stack : stack[i] = v
  IN /\ sccs' = Append(sccs, {stack[i] : i \in k .. Len(stack)})
     /\ stack' = SubSeq(stack, 1, k - 1)

ReturnFrom(v) ==
  LET callers == Front(frames)
  IN /\ IF lowlink[IndexOf(v)] = IndexOf(v) THEN PopComponent(v) ELSE UNCHANGED << stack, sccs >>
     /\ frames' = callers
     /\ IF callers = << >> THEN UNCHANGED lowlink
        ELSE Lower(Last(callers).v, lowlink[IndexOf(v)])
     /\ UNCHANGED indices

Tarjan ==
  /\ stage = "tarjan"
  /\ \/ EnterRoot
     \/ frames # << >> /\ Top.left # {} /\ LookAt(To(NextEdge))
     \/ frames # << >> /\ Top.left = {} /\ ReturnFrom(Top.v)
  /\ UNCHANGED << cfg, stage, kahnVars, order, verdict >>

TarjanDone == stage = "tarjan" /\ frames = << >> /\ Nodes \subseteq ToSet(indices)
-----------------------------------------------------------------------------
(* Cycles: the participants and the moderator of a group chat. *)

Big == {i \in DOMAIN sccs : Cardinality(sccs[i]) >= 2}
Loops == {i \in AgentEdges : From(i) = To(i)}

\* Variant: an agent that only talks to itself is not seen.
HasBigCycle == Big # {}

HasCycle == Big # {} \/ Loops # {}
Group == IF Big # {} THEN sccs[Min(Big)] ELSE {From(Min(Loops))}

\* A label wins over the shape; of several labels the first counts.
Moderator ==
  LET labelled == Group \cap cfg.moderators
      isHub(v) == /\ Cardinality({i \in Out(v) : To(i) \in Group}) >= 2
                  /\ Cardinality({i \in In(v) : From(i) \in Group}) >= 2
      hubs == {v \in Group : isHub(v)}
  IN IF labelled # {} THEN {FirstAgent(labelled)}
     ELSE IF Cardinality(hubs) = 1 THEN hubs ELSE {}

DetectGroupChat ==
  /\ TarjanDone /\ HasCycle
  /\ Conclude([kind |-> "groupchat", participants |-> Group, moderator |-> Moderator])
  /\ UNCHANGED << cfg, tarjanVars, kahnVars, order >>

\* Without a cycle there must be exactly one root, from where Kahn's algorithm starts.
CountRoots ==
  /\ TarjanDone /\ ~HasCycle
  /\ IF Cardinality(Roots) # 1
     THEN Refuse("roots") /\ UNCHANGED kahnVars
     ELSE /\ stage' = "kahn"
          /\ reach' = [v \in Nodes |-> InDeg(v)]
          /\ ready' = Roots
          /\ UNCHANGED << visited, verdict >>
  /\ UNCHANGED << cfg, tarjanVars, order >>

Kahn(u) ==
  /\ stage = "kahn" /\ u \in ready
  /\ visited' = visited \cup {u}
  /\ reach' = [v \in Nodes |-> reach[v] - Cardinality({i \in Out(u) : To(i) = v})]
  /\ ready' = (ready \ {u}) \cup {v \in Adj(u) : reach'[v] = 0 /\ v \notin visited'}
  /\ UNCHANGED << cfg, stage, tarjanVars, order, verdict >>
-----------------------------------------------------------------------------
(* _detect_concurrent, asked for branching graphs only. *)

\* Variant: the successors of the branches are not compared.
FanoutOfAnyShape(root) == cfg.hint /\ OutDeg(root) > 1

Fanout(root) ==
  /\ cfg.hint
  /\ OutDeg(root) > 1
  /\ \/ \A b \in Adj(root) : OutDeg(b) = 0
     \/ /\ \A b \in Adj(root) : OutDeg(b) = 1
        /\ \A b, c \in Adj(root) : Adj(b) = Adj(c)

Branching(root) ==
  IF Fanout(root)
  THEN [kind |-> "concurrent", root |-> root, branches |-> Adj(root),
        next |-> UNION {Adj(b) : b \in Adj(root)}]
  ELSE [kind |-> "handoff", root |-> root]

KahnEnds ==
  /\ stage = "kahn" /\ ready = {}
  /\ \/ /\ visited # Nodes
        /\ Refuse(IF \E v \in Nodes : reach[v] > 0 THEN "cycle" ELSE "disconnected")
        /\ UNCHANGED order
     \/ /\ visited = Nodes /\ \A v \in Nodes : OutDeg(v) <= 1
        /\ stage' = "chain" /\ order' = << FirstAgent(Roots) >> /\ UNCHANGED verdict
     \/ /\ visited = Nodes /\ \E v \in Nodes : OutDeg(v) > 1
        /\ Conclude(Branching(FirstAgent(Roots))) /\ UNCHANGED order
  /\ UNCHANGED << cfg, tarjanVars, kahnVars >>

\* From the root along the only successor of each agent, until there is none.
WalkChain ==
  /\ stage = "chain"
  /\ LET outs == Adj(Last(order))
     IN \/ /\ \E w \in outs \ ToSet(order) : order' = Append(order, w)
           /\ UNCHANGED << stage, verdict >>
        \/ /\ outs = {} /\ Len(order) = Len(cfg.agents)
           /\ Conclude([kind |-> "sequential", order |-> order]) /\ UNCHANGED order
        \/ /\ outs = {} => Len(order) # Len(cfg.agents)
           /\ outs \subseteq ToSet(order)
           /\ Refuse("pattern") /\ UNCHANGED order
  /\ UNCHANGED << cfg, tarjanVars, kahnVars >>

Next ==
  \/ Invalid
  \/ Begin
  \/ Tarjan
  \/ DetectGroupChat
  \/ CountRoots
  \/ \E u \in Nodes : Kahn(u)
  \/ KahnEnds
  \/ WalkChain

Spec == Init /\ [][Next]_vars
-----------------------------------------------------------------------------
(* Properties, stated with paths instead of degrees and indices. *)

\* Tarjan's bookkeeping: the frames are on the stack, every agent entered is on the stack or in
\* one component.
TypeOK ==
  /\ stage \in {"start", "tarjan", "kahn", "chain", "done"}
  /\ IsInjective(indices) /\ IsInjective(stack) /\ IsInjective(order)
  /\ \A i \in DOMAIN frames : frames[i].v \in ToSet(stack)
  /\ Len(lowlink) = Len(indices) /\ \A i \in DOMAIN lowlink : lowlink[i] \in 1 .. i
  /\ Len(indices) = Len(stack) + Cardinality(UNION ToSet(sccs))

\* There is a path to v when every set that is closed under the edges and has u has v.
Closed(S) == \A i \in AgentEdges : From(i) \in S => To(i) \in S
Connected(u, v) == \A S \in SUBSET Nodes : u \in S /\ Closed(S) => v \in S
SameCycle(u, v) == Connected(u, v) /\ Connected(v, u)

(***************************************************************************)
(* _sccs returns the components of the graph, whatever the order of agents *)
(* and edges: each is all that lies on a common cycle with its members,    *)
(* and none has an edge to one found later (so "the first" cyclic one is   *)
(* one no other cycle is reached from).  With the state of the search.     *)
(***************************************************************************)
SccsAreComponents ==
  /\ TypeOK
  /\ \A i \in DOMAIN sccs :
       /\ sccs[i] # {}
       /\ \A u \in sccs[i] : sccs[i] = {v \in Nodes : SameCycle(u, v)}
       /\ \A j \in DOMAIN sccs : j > i => \A u \in sccs[i], v \in sccs[j] : ~Connected(u, v)

Cyclic == \E i \in AgentEdges : Connected(To(i), From(i))
Sources == {v \in Nodes : \A u \in Nodes : Connected(u, v) => u = v}
IsChain(p) ==
  /\ ToSet(p) = Nodes /\ Len(p) = Len(cfg.agents) /\ Cardinality(AgentEdges) = Len(p) - 1
  /\ \A k \in 1 .. Len(p) - 1 : p[k + 1] \in Adj(p[k])

(***************************************************************************)
(* The group that talks: a whole cycle of several agents, which leads to   *)
(* no other such cycle, or if there is none the agent of the first edge    *)
(* from an agent to itself.  The moderator, if any, is the first of the    *)
(* group with a label that says so; with no such label the only one that   *)
(* two edges from the group come to and two to the group go from.          *)
(***************************************************************************)
Several(S) == \E x, y \in S : x # y

IsGroup(P) ==
  IF \E u \in Nodes : Several({x \in Nodes : SameCycle(u, x)})
  THEN /\ Several(P) /\ \A u \in P : P = {x \in Nodes : SameCycle(u, x)}
       /\ \A u \in P, x \in Nodes \ P :
            Connected(u, x) => ~Several({y \in Nodes : SameCycle(x, y)})
  ELSE \E i \in Loops : P = {From(i)} /\ \A j \in Loops : i <= j

IsModerator(M, P) ==
  LET labelled == P \cap cfg.moderators
      hubs == {x \in P : /\ Several({i \in Out(x) : To(i) \in P})
                         /\ Several({i \in In(x) : From(i) \in P})}
  IN IF labelled # {}
     THEN \E i \in DOMAIN cfg.agents :
            /\ M = {cfg.agents[i]} /\ cfg.agents[i] \in labelled
            /\ \A j \in DOMAIN cfg.agents : cfg.agents[j] \in labelled => i <= j
     ELSE M = {x \in hubs : hubs = {x}}

\* Several edges from r, to leaves only or to agents whose only edge is to a common one.
FansOut(r) ==
  /\ Several(Out(r))
  /\ \/ \A b \in Adj(r) : Out(b) = {}
     \/ \E n \in Nodes : \A b \in Adj(r) : \E i \in AgentEdges : Out(b) = {i} /\ To(i) = n

(***************************************************************************)
(* The verdict is what the graph asks for, in terms of its paths.  With a  *)
(* cycle it is a group chat of the group above, refused when the only one  *)
(* of the group is its moderator.  Without, there must be one agent that   *)
(* nobody leads to; then a path through all agents is a chain, and any     *)
(* other graph a concurrent stage, if it fans out at the root and its name *)
(* has the hint, or else a handoff.  The refusals for cycles, disconnected *)
(* graphs and unknown patterns cannot happen.                              *)
(***************************************************************************)
Right(v) ==
  Len(cfg.agents) > 1 /\ v \notin {Refusal("invalid"), Refusal("unknown tool")} =>
    CASE Cyclic ->
           \E P, M \in SUBSET Nodes :
             /\ IsGroup(P) /\ IsModerator(M, P)
             /\ v = IF M = P THEN Refusal("no participants")
                    ELSE [kind |-> "groupchat", participants |-> P, moderator |-> M]
      [] ~Cyclic /\ AgentEdges = {} -> v = Refusal("no edges")
      [] ~Cyclic /\ AgentEdges # {} /\ Cardinality(Sources) # 1 -> v = Refusal("roots")
      [] OTHER ->
           IF \E p \in [1 .. Len(cfg.agents) -> Nodes] : IsChain(p)
           THEN v.kind = "sequential" /\ IsChain(v.order)
           ELSE /\ {v.root} = Sources
                /\ v.kind = IF cfg.hint /\ FansOut(v.root) THEN "concurrent" ELSE "handoff"

\* The verdict the detection ends with is the right one for the configuration.
VerdictIsRight == stage = "done" => Right(verdict)

\* A group chat and a concurrent stage as their builders need them.
ChatMet(v) ==
  v.kind = "groupchat" =>
    /\ v.moderator \subseteq v.participants
    /\ \A x, y \in v.participants : SameCycle(x, y)
    /\ \A x \in v.participants : v.participants = {x} => x \in Adj(x)

StageMet(v) ==
  v.kind = "concurrent" =>
    /\ v.branches # {} /\ Cardinality(v.next) <= 1
    /\ {v.root} \cap v.branches = {}
    /\ v.next \cap (v.branches \cup {v.root}) = {}
    /\ \A w \in v.branches, x \in Nodes :
         Connected(w, x) /\ w # x => \E n \in v.next : Connected(n, x)
    /\ v.next = {} => Nodes = v.branches \cup {v.root}

(***************************************************************************)
(* What the builders rely on.  They find every agent and every tool under  *)
(* the id they ask for, and one only.  The participants of a group chat    *)
(* reach each other, one alone talks to itself, and the moderator is one   *)
(* of them but not the only one.  Around a concurrent stage no branch      *)
(* leads anywhere but to the next agent, and the root, the branches and    *)
(* the next agent are distinct.                                            *)
(***************************************************************************)
BuildersGetWhatTheyNeed ==
  verdict.kind \notin {"none", "refused"} =>
    /\ IsInjective(NodeIds) /\ Built(verdict) # {} /\ Built(verdict) \subseteq Nodes
    /\ \A u \in Built(verdict) : Attached(u) \subseteq Registered \cap ToSet(cfg.tools)
    /\ \A i \in DOMAIN cfg.edges : ToSet(cfg.edges[i]) \subseteq ToSet(NodeIds)
    /\ ChatMet(verdict) /\ StageMet(verdict)

=============================================================================
