---------------------------- MODULE MCDetection -----------------------------
(***************************************************************************)
(* Three agents with every list of up to three edges, duplicates, self     *)
(* loops included (the last agent is labelled a moderator in some); four   *)
(* agents with every set of up to five edges, in one order, under a name   *)
(* that hints at concurrency; a concurrent stage with agents behind its    *)
(* next agent; one hub or two in a cycle, and several labels; graphs too   *)
(* small to have a shape, with an edge to a tool.                          *)
(* Each kind of graph with a tool attached to one or all of its agents,    *)
(* some of it unknown to the registry, and every kind of invalid ids.      *)
(***************************************************************************)
EXTENDS Detection, FiniteSetsExt

CONSTANTS a, b, c, d, e, t, u

MCIds == {a, b, c, d, e, t, u} \cup 1 .. 5

Pairs(S) == S \X S

\* Valid ids, no tools attached.
Graph(agents, edges, h, m) ==
  [agents |-> agents, tools |-> << t >>, edges |-> edges,
   edgeIds |-> [i \in DOMAIN edges |-> i], attached |-> [i \in DOMAIN agents |-> {}],
   hint |-> h, moderators |-> m]

MCThree ==
  {Graph(<< a, b, c >>, es, h, m) : es \in SeqOf(Pairs({a, b, c}), 3), h \in BOOLEAN, m \in {{}, {c}}}

MCFour ==
  {Graph(<< b, a, d, c >>, SetToSeq(es), TRUE, {}) :
     es \in UNION {kSubset(k, {p \in Pairs({a, b, c, d}) : p[1] # p[2]}) : k \in 0 .. 5}}

MCSmall ==
  {Graph(s, << << t, t >> >>, FALSE, {}) : s \in {<< >>, << a >>, << a, b >>}}
    \cup {Graph(s, << << a, t >>, << a, a >> >>, FALSE, {}) : s \in {<< a >>, << a, b >>}}

\* One hub, or two, which make no moderator; labels of two agents.
MCHubs ==
  {Graph(<< a, b, c >>, es, FALSE, m) :
     es \in {<< << a, b >>, << b, a >>, << a, c >>, << c, a >> >>,
             << << a, b >>, << a, b >>, << b, a >>, << b, a >> >>},
     m \in {{}, {c, b}}}

MCBehindJoin ==
  {Graph(<< a, b, c, d, e >>, << << a, b >>, << a, c >>, << b, d >>, << c, d >>, last >>, h, {}) :
     h \in BOOLEAN, last \in {<< d, e >>, << b, e >>, << a, e >>, << e, d >>}}

\* A chain, a chat with an agent behind it, a branching graph.
MCShapes ==
  {Graph(<< a, b, c >>, es, TRUE, {b}) :
     es \in {<< << a, b >>, << b, c >> >>, << << a, b >>, << b, a >>, << b, c >> >>,
             << << a, b >>, << a, c >> >>}}

MCAttached ==
  {[g EXCEPT !.tools = << t, u >>, !.attached = atts] :
     g \in MCShapes,
     atts \in {[i \in 1 .. 3 |-> IF i \in who THEN what ELSE {}] :
                 who \in SUBSET (1 .. 3), what \in SUBSET {t, u}}}

MCInvalid ==
  UNION {{[g EXCEPT !.agents[2] = a], [g EXCEPT !.tools = << t, t >>], [g EXCEPT !.tools = << t, a >>],
          [g EXCEPT !.edgeIds[2] = 1], [g EXCEPT !.edges[2] = << a, d >>], [g EXCEPT !.edges[1] = << e, b >>],
          [g EXCEPT !.attached[1] = {u}], [g EXCEPT !.attached[3] = {t, a}]} : g \in MCShapes}

MCConfigs ==
  MCThree \cup MCFour \cup MCSmall \cup MCHubs \cup MCBehindJoin \cup MCAttached \cup MCInvalid

MCRegistered == {t}

=============================================================================
