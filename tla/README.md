# Verification of the chat orchestration engine

This directory holds TLA+ models of the engine in `src/src/codeless_orchestrator`,
the TLC configurations that check them on small instances, and proofs that TLAPS
checks for every instance. `PROJECT.json` lists components, runs, mutants, the
source lines behind each definition, hazards, findings and theorems.

## 1. Inventory

The program compiles a JSON graph of agents and tools into a LangGraph state
graph and runs it. Five shapes of graph exist; all of them are built from two
kinds of node, an *agent node* (one assistant turn of a model) and a *tools node*
(the execution of the tool calls of that turn), around one state dictionary.

| Component | State it keeps | Operations | Interacts with | What makes it correct |
|---|---|---|---|---|
| Engine state (`engine/state.py`) | `messages`, `tool_calls`, `steps`, `metadata`, `concurrent`, `group` | read and written by every node | all builders | every tool message answers a call; pending calls belong to the last message |
| Single-agent builder (`engine/compiler.py`) | none of its own | `agent_fn`, `should_continue`, `tools_fn` | provider, filters, structured output, `execute_tool_call`, telemetry | as above; telemetry agrees with the transcript |
| Sequential builder | none of its own | the same two nodes per agent, a chain of edges | the same | the chain is walked in order, nobody skipped |
| Handoff builder, router | none of its own | two nodes per agent, `_should_continue` with `choose_next_agent` | the router's model | control follows the edges whatever the model answers |
| Group chat builder, policies | `group` bucket (`speaker`, `turn`, `end`) | `select_next`, `_edge_from_select`, speak and tools nodes | the moderator's model, `execute_many` | ends by its turn count or its moderator; balanced turns |
| Concurrent builder, `run_branches` | `concurrent` bucket; futures and worker threads | `fanout_fn`, `join_fn`, next agent | thread pool, `execute_many` | all or nothing; order of merged messages; bounded parallelism |
| Tool execution (`tools/execution.py`) | threads and futures of a call | `execute_tool_call`, `run_with_timeout`, `execute_many` | tools, telemetry | ordered, bounded, nothing outlives the call, timeouts |
| Telemetry | turns, tool statistics, errors | `record_turn`, `record_tool_call`, `record_error`, `snapshot` | nodes, endpoint, sink | counts match what happened |
| Executor | none | `execute`, `stream_execute` | compiled graph | finish reason and steps belong to the run |
| `POST /execute`, `/execute/stream` | request-scoped telemetry | one handler each | engine, telemetry | every request answered, what is reported is consistent |
| Structured output | attempts, repair messages | `ensure_structured_output` | provider | attempts bounded and charged |
| Safety filters | none | `pre_provider_filter`, `post_provider_filter` | agent nodes | a blocked turn is an answer like any other for who speaks next, and its finish reason ends with it |
| Orchestration detection | none | `_sccs`, `_detect_orchestration`, `_detect_concurrent` | builders | every graph goes to the builder whose assumptions it meets |
| Prompt assembly | none | `assemble_prompt`, `window_messages` | agent nodes | calls and results stay together |
| Providers and transforms | `started`, `tool_ids`, `tool_names` of a stream; HTTP clients | `chat`, `stream`, `to_*_request` | network | results keep their calls, fragments their call |
| Dependencies, registry | engine, registry and preamble of the process, two locks, an `lru_cache` | `get_engine`, `get_registry`, `get_org_preamble`, `register_default_tools` | every request | made once, filled before anybody sees it |
| Threads and event loop | the pool of the server library, the loop | endpoints run on either | every request | everybody is answered |
| Loader and validator | none | `load_graph`, `validate_graph` | all endpoints | what is admitted can be looked up by the builders |
| Server plumbing | none | routing, schemas, `to_http_error`, logging | clients | |

What is hard here: threads of two pools interleave with `as_completed`
(branches, tool calls), and requests interleave on the threads and the loop of the
server; a failure may come in the middle of a batch; timeouts
race late answers; fragments of several tool calls come mixed; an agent and its tools may call each other for ever; the
super-step limit of LangGraph cuts runs off at any point; the models answer
routing questions with anything; several counters (`steps`, `turn`, telemetry)
are kept by hand next to the events they count. Nothing is persisted, so there
is no crash recovery. The full list with source lines is under `hazards`.

## 2. Modules

```
Transcript  <-- EngineRun (contract)            Routing      FuturePool (external)
    ^                ^ refined by                  ^              ^
    |                |                             |              |
 AgentRun -----------+                             |              |
    ^-- Sequential                                 |              |
    ^-- Handoff -----------------------------------+              |
    ^-- GroupChat ---------------------------------+              |
    ^-- SingleAgent (telemetry, /execute) <-- Prompt              |
    ^-- Concurrent -----------------------------------------------+
 ToolBatch (contract) <-- ToolPool -------------------------------+
 StructuredOutput, ProviderStream <-- Streaming (/execute/stream)
 Detection (loading and compiling)               Server (requests side by side)

 AgentRunProofs   <- ChainProofs (Sequential, SingleAgent),
                     GroupChatProofs (GroupChat, Handoff), ConcurrentProofs
 FuturePoolProofs <- ToolPoolProofs, ConcurrentProofs
 ServerProofs (Server, Streaming)                DetectionProofs
```

**Transcript.** Messages as records: `kind` (input, reply, refusal, tool), `by`
(a ghost: the agent whose node appended it) and `calls` (the calls asked for, or
the one call a tool message answers). Text is abstracted; the fixed refusal text
is told apart because its injection score is known: of the patterns of
`runtime/safety.py` only the imperative "override" occurs in it, which scores 0.2
against a lowest threshold of 0.7, so a turn is never blocked because of a refusal before
it. That is in a guard (`MayBlock`) and no property is about it. Ids of calls, which the
code copies from call to result, are represented by position.

The input is one element, whatever the caller gave: a text that becomes one user message
(`executor.py:41`), or any list of messages (`executor.py:44`), of any roles, with calls
and results of earlier runs, or empty. The engine neither reads nor changes it,
but for two things. The filter scores its last message: `MayBlock` allows any score. A model
is shown as much of it as the window has room for: it is in a request exactly when the
window reaches further back than the messages of the run. What the properties say of
messages, calls and results is about those of the run.

**AgentRun.** The state and the two nodes every builder shares, translated from
`compiler.py`; `sequential.py`, `handoff.py`, `groupchat.py` and `concurrent.py`
repeat the same code and their `Speak`/`CallTools` are mapped to their copies.
One action is one LangGraph super-step with the conditional edge that follows it,
since both run on the calling thread before anything else can. `Goto` and `Raise`
stand for LangGraph: `Goto` counts super-steps and fails the run when the limit is
reached, also on the way to END, as the loop does; `Raise` ends the run with the
exception of the node. Every action's alternatives are the code's: a blocked turn,
a structured turn of 1..`MaxAttempts` model calls, a chat turn with any of the
`Replies`, an exception; a batch answered, or one that fails at any call with the
earlier results already appended. A model may give any finish reason,
content_filter included: Gemini's `SAFETY`, `BLOCKED` and `RECITATION` become that
(`transform_gemini.py:230`), so a caller cannot tell a refusal of the filter from one of the model.

| variable | code |
|---|---|
| `messages`, `toolCalls`, `steps` | `state["messages"]`, `["tool_calls"]` (`<< >>` for None), `["steps"]` |
| `finish` | `metadata["_last_finish_reason"]` as `reason` (none, content_filter or another), with the ghost `of`, the place of the message it came with |
| `node`, `ran`, `outcome` | LangGraph's position, its super-step count, how `invoke` ended |

**EngineRun.** What the engine promises whatever the orchestration: a turn
appends one assistant message and charges `steps`; pending calls may only be
followed by their results, in order; the run ends normally only with nothing
pending; a run that ended stays as it is. The sequential, handoff and group chat
modules implement it under `pending <- toolCalls` and the status of `outcome`.
`Concurrent` does not: its fan-out appends results without the message that
asked for them (section 3).

**Sequential, Handoff, GroupChat** route the nodes. `Routing` has the router,
the moderator and the round robin as operators over what the parsers look for in
an answer: failed, JSON, the id named, `end`, ids mentioned. `GroupChat` adds
`mode`, `speaker`, `turn`, `over` and the batch semantics of `execute_many`
(all results or none). The group chat node of the code goes from `tools` back to
the same speaker, not to `select_next` as the diagram of `docs/orchestrations.md:29` says;
the model follows the code.

**FuturePool** is Python's `concurrent.futures` as the engine uses it: FIFO
queue, bounded workers, `as_completed` (futures done when it is called come first
in any order, the others as they complete), the with block joining its workers.
**ToolPool** is `execute_many` over it, with `run_with_timeout`'s own thread per
call: an expired call keeps its worker until its tool ends. **ToolBatch** is what
it promises. **Concurrent** is the fan-out over the same pool: submission, worker
starts and ends, collection, the exits of the with block, `fanout_fn`'s writes, the
join and the next agent. Inside a branch the model turn and its batch are one
step: nothing outside the branch sees it before the future completes, and the
batch itself is checked in `ToolPool`.

**SingleAgent** is one `POST /execute` with one agent: the nodes of `AgentRun`
with what they send to the model and what they record, and the response.
`execute_tool_call` records a raised call in its `except` and again in its `finally`
clause; the model has both. The usage a reply came with goes into the metadata
(`usage`) and the telemetry (`tokens`) under different conditions; a usage is
represented by the position of its reply. In a structured turn the providers tell the
telemetry of every attempt (`openai.py:124`, `gemini.py:110`), also of those thrown away
(`Rejected`) and when the turn fails; such a usage is 0, the position of no reply. The
agent of the configuration is a variable (`agent`) that is never changed, so that runs
and proofs are about an agent of any kind.

**Prompt** is what a provider is sent of the transcript: the window
(`window_messages`) and the two wire formats, as far as they keep, name or lose
calls and results. A request is a function of the positions it covers. OpenAI's
ids of calls are pairs of positions; calls of Gemini have none. The calls themselves are sent to
Gemini only (`asks`), all that were asked for, also those `max_calls_per_turn` cut off. The
system message and all text are left out.

**Detection** is the way from a configuration to a compiled graph: the errors of
`validate_graph` with which `load_graph` refuses it, `_detect_orchestration` and
`_detect_concurrent`, and what the chosen builder looks up. Tarjan's
algorithm with the recursion of `strongconnect` as a stack of frames, one step per
frame action; the first cycle and its moderator; Kahn's algorithm with its queue as a
set (only the set visited is used); the walk along the unique successors; the test
for a concurrent stage; the agents the builder makes nodes for (`Built`) and the
registry entries of their tools. An edge is its position in the file, since duplicates
count in the degrees: what the code filters from the list of edges is a set of positions,
whose least one comes first. The state says where the computation stands, `verdict` is
the builder chosen or the reason to refuse. The properties speak of paths:
`Connected(u, v)` says that every set of agents with u that is closed under the edges has v.

**StructuredOutput** is `ensure_structured_output`: attempts, the instructions
appended on a violation, and how it returns or raises. `AgentRun` uses what it
promises for non-negative `max_repair_attempts`: 1..`MaxAttempts` calls.
**Streaming** is `POST /execute/stream`: the generator of the engine inside the
generator of the endpoint, with its three ways to produce a turn (`path`), the
telemetry's turns and the snapshots handed to the sink, and both transports (`manual`
is the fallback without `sse-starlette`). `Leave` and `Cancel` are the client and the
server library. **ProviderStream** has the parsers of both model APIs: each is a
function from the calls started so far and one event to the chunks of that event. A
fragment carries a ghost, the call it really is of, so that the model can compare it
with the call the client is told.

**Server** is the process around all this: requests for the three endpoints, the pool
of threads, the event loop, the double-checked locking of `get_engine` and
`get_registry`, the cached preamble. `at` says in which function a request is and
before which of its statements; everything between two accesses to shared state is
one step. What a request does with the model is one call per chunk (`ModelEnds`);
the other modules are the inside of it. `Dispatched` and `LoopFree` are the server
library: dependencies and plain endpoints are handed to a free thread by the loop;
the events of a stream are produced on a thread with `sse-starlette` and on the
loop itself in the fallback of `execute.py:168`.

Where two specifications share a module of proofs, the names of one of them have a
prefix: `HandoffSpec`, `ExecuteSpec` (SingleAgent), `StreamSpec` (Streaming).

Operators whose comment starts with "Variant" are plausible bugs of the definition
after them. They are not used by any specification; substituted for that
definition they must break the property that `PROJECT.json` names under `mutants`.

## 3. Runs

| Run | Instance | States | Shows |
|---|---|---|---|
| `sequential` | 3 agents (defended, structured, call limit 2, missing tool), limit 9, three finish reasons | 2967 | order, answering, finish reason, contract |
| `handoff` | 4 agents, branching and a straight hand-over, every router answer | 265 | edges, no return |
| `groupchat` | 3 participants, in turn and with a moderator that answers anything, 4 turns, limit 14 | 196741 | turn count, no silent end, balance, whole batches, contract |
| `concurrent` | 3 jobs of 2 agents (one listed twice), 2 workers, with and without a next agent | 59790 | all or nothing, order, blocks, bounds, pending calls, termination |
| `tool_pool` | 3 calls; max_workers -1, 1, 2, 3, 5; timeouts | 7071 | bound, order, effects of failed batches, timed-out calls, termination |
| `single_agent` | 1 agent, both providers, windows of 1, 3 and 20, batches of up to 3 calls cut to 2, limit 8 | 42024 | telemetry and usage against transcript, response, requests |
| `detection` | 3 agents with every list of up to 3 edges, 4 agents with every set of up to 5, stages with agents behind the join, attached tools, invalid ids, four agents around a hub | 62006 | components, exact verdict, what the builders rely on |
| `streaming` | streams of both providers up to 5 chunks, every policy, `max_repair_attempts` -1, 0, 2 | 512892 | framing, fragments, all or nothing, turns and snapshots |
| `server` | 3 requests on 2 threads: one per endpoint with a stuck stream; two streams and an execution without `sse-starlette` | 239291 | shared singletons, filled registry, settled preamble, answers |

Bounds. Every run is finite in the code too, because LangGraph limits the
super-steps; `RecursionLimit` is that limit, chosen so that whole runs with
several tool rounds fit and longer ones are cut off at each kind of node.
`Replies` are lists of tool names: none, one, several with a repetition, and a
tool that is not attached. Three calls (or branch jobs) are the least with which
a pool smaller than the batch has a queue, a failure can be first, in the middle
or last, and early and late futures mix. `max_workers` covers nonsense values
(the serial path), smaller, equal and larger than the batch. In
`Detection` the lists of three edges include duplicates and self loops in every
order (degrees count duplicates, Tarjan depends on the order); four agents and five
edges are the least with a diamond, two separate cycles, or a cycle off a branch. An
edge to a tool and agents behind the next agent of a concurrent stage have a graph of
their own. `Streaming` needs a stream long enough for a `message.end`
in the middle and repeated, two repairs for one that is neither first nor last, and
two tool calls with a name late and fragments of either in between: five chunks.
`SingleAgent`'s windows are smaller than a batch, cut one in the middle, and larger
than the run. In `Server` three requests are the least of which one makes a
singleton, one waits for its lock and one comes later; with two threads they also
wait for threads, and two streams compete for the loop. One edit of the preamble's
source and two chunks show the two versions and a request between two chunks.
Counters need no other cap. No symmetry is used: the agents differ.
Deadlock checking is off because every run ends.

Fairness. `ToolPool` and `Concurrent` have weak fairness of the
caller and of each worker thread; "every tool ends" is a separate assumption of
`ToolPool!FairSpec`, not of `EngineFairSpec`, and of `Concurrent!FairSpec` for the
branch turns (model calls have timeouts in the clients). Nothing is assumed about
timers: a timeout may or may not fire before its tool ends. `Server!FairSpec` says that
a request takes a step sooner or later if it could take one all the time (threads,
locks and the loop are handed to whoever waits for them), and that model calls end, but for those of the requests
in `stuck`: `EveryoneIsAnswered` claims nothing for them, nor for requests held up by
as many stuck calls as there are threads, or by one on the loop (`HeldUp`). So of a stuck
model the property says something with `sse-starlette` only; without it one stuck stream holds
up everybody, as the code has it, and what is shown for that transport is that nothing but a stuck
call does. The other modules
state safety only and have no fairness; that their runs end is the work of the super-step
limit, whose bound `TypeOK` states.

### Disagreements between code and documentation

Each of these is a run that must find a violation, with the quotation in `findings`.

| Run | What the code does |
|---|---|
| `groupchat_limit` | `execute` passes no limit, so LangGraph's default of 25 super-steps holds: a chat of six turns takes 13 of them and two more for each round of tools. With seven rounds, more than one in some turn, it is cut off with an error before its turns are over, which is the violation. With one round in each turn the 25th step does end the chat, and the caller gets the same error |
| `tool_timeout` | a timeout does not release its caller while the tool runs |
| `gemini_names` | calls of Gemini have no id, so no result sent to it has the name of its tool, which `docs/providers.md` says is resolved by id |

Others, seen in the source and without a run:

- the fan-out appends the tool messages of its branches, but no assistant message
  that asked for them (`concurrent.py:280`), so a provider that pairs the two
  would find results without calls;
- the turns of the branches of a fan-out are not counted in `steps`
  (`engine/state.py:23` calls it the number of turns completed);
- a branch agent with instructions gets its system message twice
  (`concurrent.py:219` and `assemble_prompt`, against the comment at `:271`);
- a tool call that raises is recorded by the `except` and again by the `finally`
  clause of `execute_tool_call`: two calls, one of them without an error;
- recorded errors of a failed request never reach the telemetry sink, since only a
  successful one takes a snapshot (`execute.py:98`);
- concurrency is only looked for when the name of the configuration contains
  "concurrent" (`compiler.py:540`), and only at the root: without the name a fan-out is a
  handoff, where `docs/orchestrations.md:12-13` tell the two apart by their shape, that of
  any node. `VerdictIsRight` states the code's rule, name and root included;
- an agent behind the next agent of a concurrent stage, and agents outside the first cycle
  of a group chat, are left out without a message;
- the fallback of `structured_output.py:201`, "should not reach", is reached with a
  negative `max_repair_attempts`, which the configuration schema allows;
- the metrics of a stream and the snapshot for the sink never include the
  stream's own turn, which is recorded after the last chunk was sent
  (`docs/telemetry.md:17` promises metrics on the final event);
- a blocked turn does not stop a chain (`sequential.py:68`): the next agent answers the
  refusal, where `docs/architecture.md:39` says that the filter "emits a refusal
  message and stops"; and what the filter scores is the last message of any role, a
  tool's result or another agent's answer, not "recent user inputs";
- branches that are done before `as_completed` is called are yielded in any order
  (`concurrency.py:174`), so `first_finish` may pick another than the earliest, against
  `docs/orchestrations.md:41` and the comment at `concurrency.py:152`;
- a fan-out whose branches are refused leaves the finish reason unset;
- `get_org_preamble` is "read once" by its docstring, but `lru_cache` keeps no lock
  while the function runs (`deps.py:61`): first requests may each read it, and
  get different versions; `PreambleSettles` says what does hold;
- the validator checks attached ids against the ids of nodes (`validator.py:70`), the
  builders look them up as tool ids in the registry (`compiler.py:86`), and overrides
  are matched by `tool_id` (`compiler.py:100`): a valid configuration may be refused by
  the compiler, and an attached tool whose node has another id is invalid;
- the agent of a self loop that is labelled a moderator, or has two self loops, makes
  a group chat without participants, which the builder refuses
  (`groupchat.py:185`), where `docs/orchestrations.md:14` and `docs/architecture.md:63` have
  a self-loop make a group chat; `VerdictIsRight` has the refusal;
- with several labels that say moderator the first agent wins, and a label wins over the one
  hub, which `docs/orchestrations.md:15` leaves open;
- requests to OpenAI have the results of tools but not the calls of the assistant
  message before them (`transform_openai.py:24`); `RequestsKeepPairs` therefore claims of them
  only that an assistant message is before the results;
- calls beyond `max_calls_per_turn` are never executed but stay in their message
  (`compiler.py:269`), so Gemini is sent calls without results;
- of OpenAI's stream a finish reason that comes along with content is lost
  (`openai.py:252`); a stream of Gemini without one is not closed
  (`gemini.py:264`, `docs/decisions/0003`); two calls of a stream of Gemini are merged
  under index 0, and an event with its text in both places yields it twice;
- the requests of a stream have the raw messages: no window, no system message, no tools
  (`executor.py`);
- `record_turn` of a stream is not conditional on having seen its end, as the
  comment at `executor.py:218` says;
- a stream that asks for tools ends there: nothing goes on with them without
  streaming, as `docs/architecture.md:47` and `docs/orchestrations.md:60` say.

The refusals after the roots are counted cannot happen: with one root and no cycle
Kahn's algorithm visits everything, and a walk without branching reaches every agent.
`VerdictIsRight` says so, and `VerdictCorrect` proves it for every graph.

## 4. Proofs

Proved by TLAPS for every value of the constants that meets the assumptions named in
the modules (`UserIsNoAgent`, `AgentRunAssumption`, `OrderAssumption`,
`HandoffAssumption`, `GroupChatAssumption`, `ConcurrentAssumption`,
`FuturePoolAssumption`, `ToolPoolAssumption`, `ServerAssumption`,
`SingleAgentAssumption`, `StreamingAssumption`, `RepairsAssumption`, `EventsAssumption`,
`NumberedAssumption`, `ConfigsAssumption`). Those that are more
than types: no agent is the user; a chain has two agents or more and nobody twice; the
graph of a handoff has a topological numbering `Depth` (it has no cycle, or the
detection had made it a group chat, which `VerdictCorrect` proves); a group chat has a
participant and nobody twice; a batch or fan-out has a job; at most one agent is next
after a fan-out; the requests are finitely many; OpenAI numbers the calls of a message, so
that what has one number is of one call (`NumberedAssumption`, about the model API, which is
outside of the code). Limits, parallelism, windows, the calls a model asks for and the
events of a stream may be anything, and of a configuration only its types are assumed: ids
may be unknown or repeated, edges may come in any order and any number of times.

| Builder or part | Proved |
|---|---|
| `Sequential`, `SingleAgent`, `Handoff`, `GroupChat` | every run is a run of the contract `EngineRun` (`Refinement`, `ExecuteRefinement`, `HandoffRefinement`) |
| `Sequential` | types and the super-step bound, pending calls, answered calls, `FinishIsLastTurns`, `CallerResumes`, `ChainInOrder` |
| `SingleAgent` | `TurnsAreAnswers`, `CountsMatchTranscript`, `SnapshotIsConsistent`, `RequestsKeepPairs` |
| `Handoff` | types, answered calls, the router picks a candidate, `FollowsEdges` |
| `GroupChat` | the moderator picks a participant, `WholeBatches`, `EndsWhenDue`, `Balanced` |
| `Concurrent` | pending calls, `BoundedBranches`, `FanoutIsAtomic`, `OrderFaithfulOnceAwaited`, `ToolBlocksStayTogether` |
| `ToolPool` | `BoundedParallelism`, `NothingOutlivesTheCall`, `FailedBatchEffects`, `LateCallDoomsBatch`, and that it implements `ToolBatch` |
| `Server` | `SingletonsAreShared`, `RegistryIsFilledFirst`, `PreambleSettles` |
| `Streaming` | `StreamIsFramed`, `DeltasNameTheirCall`, `StructuredIsAllOrNothing`, `TurnsAreServed` |
| `Detection` | `SccsAreComponents`, `VerdictIsRight`, `BuildersGetWhatTheyNeed` |

### The two nodes (`AgentRunProofs`)

`ToolsAnswerCalls` is not inductive: to see that `tools_fn` appends
results that answer the last message, one must know that the last message is the
assistant message whose calls are pending, that it is by the agent whose tools
node runs, and that an agent node never runs with calls pending. That is
`PendingMatchesNode`, and `RunInv`, its conjunction with the types and
`ToolsAnswerCalls`, is inductive. `AgentFnInv` and `ToolsFnInv`
prove that the two nodes keep it for every set of onward edges that avoids tools
nodes (`PlainNodes`), whoever the builder is; a builder's own proof is only that
its edges do (`Edges`). For `Handoff` that is where the router comes in: its
answer must be an agent. The refinement is split the same way: `AgentFnRefines` and
`ToolsFnRefines` map each step to `Turn`, `Answer` or `Fail`.

`TurnEffect` and `ToolsFnEffect` say what a step does in the words of the properties: one message
more and an edge taken (`Turned`), results for the first calls (`Answered`), or
nothing but an exception (`Raised`). The proofs about whole transcripts rest on them.
`OrderInv` adds to `RunInv` that after every turn with calls its results, as many as the
limit lets through, and then its author again follow (`CallsResumed`), that while the
results are the end of the transcript it is the author's node that is next (`CallerIsNext`),
and `FinishIsLastTurns`, which the same case analysis gives: a turn leaves the place of
its message with its reason, and tools leave both. `CallsResumed` alone is not inductive: who speaks
next is decided in a step before the one that appends the message.

### The order of a run

- **`ChainInv`** (`Sequential`). `InPlace` is the order seen from one message: the agents
  before its author have answered earlier, those after it have not.
  `AnswersSoFar` ties it to the state: when a node of place j runs, exactly the agents
  before j have answered, and it is what makes the rest inductive.
- **`EdgeInv`** (`Handoff`). `SuccessorIsNext` says that the node that runs is a successor
  of who handed over last. That nobody speaks again needs an argument over the whole
  graph: `BeyondAll`, everybody who handed over lies less deep in the graph than the
  node that runs. `Depth` has no other use, and no action reads it.
- **`ChatInv`, `CountInv`, `RoundInv`** (`GroupChat`). `ChatInv` says who has the floor at
  which node. `CountInv`: the counter, kept by hand in the code, is the number of
  answers in the transcript (`Said` collects them; appending a message changes its
  cardinality by one or not at all). `RoundInv`: for some R and c everybody has spoken R times,
  those in the first c seats once more, and the next to have the floor is at seat c + 1. `Balanced`
  follows, and is not inductive without c. `WholeBatches` needs no
  counter, only that a batch is appended in the step after its call, up to the limit or not at all.

### The pool and its users

`PoolInv` is about `as_completed`: a future handed out is done, none is handed out
twice, the early ones come first and the others as they were notified. That none comes twice needs that
no future is both early and notified, and none notified twice. Every operation of the pool
keeps it (`SubmitInv` to `YieldNextInv`), and `EarlyFirst` and `AllHandedOut` give the
users what they need at the end: N futures without repetition are all of them.

**`ToolPoolInv`** ties each future to the tool its worker runs (`ThreadOf`; a running
tool has a worker, a future is done only when its tool was settled) and splits by
path: on the serial one everything before a call was answered. The workers are as
many as `PoolSize`, hence the bound; the with block is left only when all
futures are done, hence nothing is left running. `InOrderSorts` shows that results
collected in any order come back in the order of the calls, which is what `Refinement`
maps to the one `Answer` of the contract. For `LateCallDoomsBatch`
an expired call is expired or failed from then on (`Doomed`), and `ToolPoolInv` has no such
call once `execute_many` returned: every future was collected, and none had failed.

**`ConcurrentInv`** is `TypeOK`, `PendingMatchesNode` and `PoolInv` with five parts:
which exits of the fan-out go with which states of the pool (`PhaseInv`); that an answer is kept for
the agent of every future handed out until the first failure (`CollectedInv`); that
`keys` and `order` name those (`NamesInv`); that there is a point in `completed`
after which everything was notified in order and before which everything early lies (`CompletionInv`, with
the point as a witness); and the bound on the workers. `ToolsAnswerCalls` is not among
them: a fan-out appends results without the message that asked for them, and so the lemmas about
a turn and a batch are also there without it (`TurnedCore`, `ToolsCore`).
`BlocksTogether` is by a second invariant: the results of a fan-out are one block per
agent when they are appended (`AllToolMessagesTogether`), and from then on they are the head of a transcript
that only grows (`BlocksInv`). An agent listed twice has one key, hence one block.

The lemmas by induction, about the concatenation of the blocks, the branch of least parallelism and `FirstIn`,
are by the least element of the set of counterexamples (`LeastElement`):
the induction theorems of the library take an operator as a parameter, which no
prover here can instantiate. The same way the recursive function
that concatenates the blocks is first shown to have a solution (`ConcatenationExists`).

### The server

That each singleton is made once is not inductive either. `ServerInv` adds what a
request may rely on where it stands: inside the lock it is alone (`Locked`); before it
makes the singleton nobody has made it, and one made but not kept yet is still held by
its maker (`MadeOnce`); a request past `get_registry` has its registry (`Handed`), whose
tools were there before it was kept (`Filled`); what was cached when a request asked is
cached still (`Settled`). There is one lemma per action, and general ones for what a
step inside and outside of the two functions leaves alone. The bound on the threads
needs finitely many requests (`FS_Subset`, `FS_AddElement`).

### One request (`ExecuteInv`, in `ChainProofs`)

The counts of the telemetry agree with the transcript exactly as long as no call has
failed; after that only as `CountsMatchTranscript` says, and it is the exact form that the
next batch needs (`CountsInv`). `TurnsInv` finds the telemetry's turn of a reply by its
place among the replies, which appending messages does not change. A response fixes what
it was made of: nothing runs after the end (`ResponseInv`), and the usage kept is that of
the last reply (`UsageInv`), whatever attempts were thrown away before it. A request is the one of a prefix of the transcript
(`RequestInv`), whatever was appended since; that its results are behind the messages and
calls it has for them is then a matter of `ToolsAnswerCalls` on that prefix, of where the window cuts it, and of the
two wire formats (`RequestFacts`).

### A stream (`StreamInv`, in `ServerProofs`)

The generator yields its chunks one by one, so what was sent must be looked at together
with what is yet to be sent: `CallsInv` says of both in a row that each start opens a new
index and each delta names the call started there (`Assembled`), and of the calls
remembered that an index is still that of the call it was opened for (`Numbered`). An event
of a model API makes a list of chunks by a fold over its fragments; that the fold keeps
`Assembled` is by the least step that does not (`RecursionKeeps`). `RepairInv` ties the
attempts of a structured turn to the instructions appended, `YieldInv` an answer to every
chunk of one. `FrameInv` has the place of the errors and of the end.

### The detection (`DetectionProofs`)

`SearchInv` is the invariant of Tarjan's algorithm. `Bookkeeping`: everybody entered is on
the stack or in a component, and the stack and the frames are in the order of the indices.
`StackPaths`: who is on the stack reaches everybody above, and a call under way that is
not above. `LowlinksMean`: a lowlink is the index of somebody on the stack that the caller
reaches, and of every edge followed from above a caller to the stack, that
call or one inside of it has seen an end at least as low. `ComponentsFound`: the members of
a component reach each other and the components so far are closed under the edges. When the
lowlink of a call is its index, no edge leads from above it to below (`PoppedComponent`), so
what is popped is closed, too; with that a component is all that lies on a common cycle
(`ComponentsComplete`). No step of the algorithm needs an induction along a path, because a
path is a set that is closed under the edges.

`DetectionInv` adds what each stage rests on (`Progress`). The search over, a component
with two members or a self loop is there if and only if there is a cycle (`CyclesSeen`),
and without one the agents of in-degree zero are those nobody else reaches
(`RootsAreSources`). `KahnInv` has the in-degrees left as the number of edges from agents not
visited; that everybody is visited in the end is by the agent left out that has the
fewest before it (`KahnVisitsAll`). The verdict is stated without the code's counts: `Group`
and `Moderator` are shown to be what `IsGroup` and `IsModerator` say in terms of cycles and edges
(`GroupMeans`, `ModeratorMeans`), and the degrees of `Fanout` what `FansOut` says (`FanoutMeans`). `WalkInv`: the walk is a path without repetition, so
when it ends it has used every edge once and has met everybody the root reaches
(`WalkOver`); a graph with a branch has no such path (`ChainsDoNotBranch`, by counting edges).

### Why modules of proofs are shared

`ChainProofs`, `GroupChatProofs` and `ServerProofs` each prove two specifications. The first
two share the engine's state and the lemmas about its two nodes, in `ServerProofs` the parts
have nothing but the module in common.

### Only model-checked

All liveness (`Termination` of both pools, `EveryoneIsAnswered`): fairness and ENABLED
are beyond the prover. The variants under `mutants` and the runs that find violations are
TLC's by nature. The types of `Concurrent`, `GroupChat` and `ToolPool` have no theorem of their
own; they are conjuncts of the invariants above. Beyond the theorems of the library,
nothing is proved by an induction principle: every induction is by a least counterexample.

## 5. Not modelled, and the plan

Not modelled because it is text or I/O: prompt wording, templates and the system
message, redaction and injection patterns, generation parameters, tool schemas and
finish reasons in the wire formats, HTTP and error translation, logging, durations and
percentiles. The schema fallback of the providers repeats one request
without the schema inside one model call. What the configuration schema checks of a
value (`config/schema.py`) is in the ranges the constants may have, unless it checks
nothing: `max_repair_attempts` and `parallelism` are any integers here, too.
`agent_cursor` and `vote(length)` nothing reads or selects. `/validate` and `/healthz`
touch no shared state. A tool node that runs without pending calls returns at once in
the code; `PendingMatchesNode` shows that this never happens. A branch of a fan-out is one
step, since nothing outside sees its inside. The graphs
are compiled without a checkpointer, so nothing survives a crash and there is no
restart to model.

What is left: every safety property the runs check is a theorem. `StructuredOutput` and
`ProviderStream` are proved as parts of `Streaming`, `Prompt` as part of `SingleAgent`;
that the structured turns of `AgentRun` (1..`MaxAttempts` calls) are those of
`StructuredOutput` is not stated as a refinement, nor that a branch of `Concurrent` is a
run of `ToolPool`.
