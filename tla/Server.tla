------------------------------- MODULE Server --------------------------------
(***************************************************************************)
(* Requests side by side in one server process: an event loop, a pool of   *)
(* threads for everything that is not async, and what all requests share,  *)
(* the engine and the registry (created on first use under a lock that is  *)
(* looked for twice) and the organization's preamble (an lru_cache).       *)
(*                                                                         *)
(* The dependencies of an endpoint are solved one after the other, each on *)
(* a thread of its own choice; "/execute" and "/compile" then run on a     *)
(* thread, "/execute/stream" on the loop, up to its first event.           *)
(***************************************************************************)
EXTENDS Integers, FiniteSets

CONSTANTS
  Requests,  \* the requests
  Nobody,    \* no request: a free lock, a free loop, nothing created yet
  Threads,   \* size of the thread pool
  Settings,  \* what a run may find: the variables of that name below
  Chunks,    \* chunks of every stream
  MaxEdits   \* bound on the changes of the preamble's source

Singletons == {"engine", "registry"}
Tools == {"tool:web-search"}  \* the builtin tools

ASSUME ServerAssumption ==
  /\ Nobody \notin Requests /\ IsFiniteSet(Requests)
  /\ Threads \in Nat \ {0}
  /\ Settings \subseteq
       [kind : [Requests -> {"execute", "stream", "compile"}],
        sse : BOOLEAN, builtin : SUBSET Tools, stuck : SUBSET Requests]
  /\ Chunks \in Nat \ {0}
  /\ MaxEdits \in Nat

VARIABLES
  setting,   \* kind: the endpoint each request calls; sse: is sse-starlette
             \* installed; builtin: the builtin tools that can be imported;
             \* stuck: the requests whose model calls need not end
  at,        \* what each request is in, and the step it stands at
  holder,    \* _engine_lock and _registry_lock: who holds them
  single,    \* _engine_singleton and _registry_singleton, named after their maker
  made,      \* history: how often each was made
  tools,     \* the tools in the default registry
  got,       \* what each request was handed
  saw,       \* the set of tools each request was compiled with, in a set
  source,    \* version of the environment or file the preamble is read from
  cached,    \* lru_cache of get_org_preamble, -1 when empty
  preamble,  \* the preamble of each request, -1 before
  behind,    \* history: requests that asked for it once it was cached
  loop,      \* the request that keeps the event loop
  served     \* chunks each request has been sent

sharedVars == << holder, single, made, tools >>
handedVars == << got, saw >>
preambleVars == << source, cached, preamble, behind >>
transportVars == << loop, served >>

vars == << setting, at, sharedVars, handedVars, preambleVars, transportVars >>

Init ==
  /\ setting \in Settings
  /\ at = [r \in Requests |-> [in |-> "engine", step |-> "queued"]]
  /\ holder = [s \in Singletons |-> Nobody]
  /\ single = [s \in Singletons |-> Nobody]
  /\ made = [s \in Singletons |-> 0]
  /\ tools = {}
  /\ got = [r \in Requests |-> [s \in Singletons |-> Nobody]]
  /\ saw = [r \in Requests |-> {}]
  /\ source = 0
  /\ cached = -1
  /\ preamble = [r \in Requests |-> -1]
  /\ behind = {}
  /\ loop = Nobody
  /\ served = [r \in Requests |-> 0]

Stands(r, where, step) == at[r] = [in |-> where, step |-> step]
Step(r, step) == at' = [at EXCEPT ![r].step = step]
Move(r, where, step) == at' = [at EXCEPT ![r] = [in |-> where, step |-> step]]

\* A request without a thread waits for one, is between two chunks, keeps the
\* loop itself, or is through.
OnThread == {r \in Requests : at[r].step \notin {"queued", "between", "onloop", "answered"}}

LoopFree == loop = Nobody

\* External, run_in_threadpool: the loop hands what a request waits to have
\* called to a free thread.
Dispatched(r) ==
  /\ at[r].step = "queued"
  /\ LoopFree
  /\ Cardinality(OnThread) < Threads
-----------------------------------------------------------------------------
(***************************************************************************)
(* get_engine and get_registry, from their first look at the singleton.    *)
(***************************************************************************)
Look(r, s) ==
  /\ at[r].in = s /\ Dispatched(r)
  /\ Step(r, IF single[s] = Nobody THEN "acquire" ELSE "return")
  /\ UNCHANGED << setting, sharedVars, handedVars, preambleVars, transportVars >>

Acquire(r, s) ==
  /\ Stands(r, s, "acquire")
  /\ holder[s] = Nobody
  /\ holder' = [holder EXCEPT ![s] = r]
  /\ Step(r, "again")
  /\ UNCHANGED << setting, single, made, tools, handedVars, preambleVars, transportVars >>

\* Variant: the second look is left out.
LookOnce(r, s) ==
  /\ Stands(r, s, "again")
  /\ Step(r, "make")
  /\ UNCHANGED << setting, sharedVars, handedVars, preambleVars, transportVars >>

LookAgain(r, s) ==
  /\ Stands(r, s, "again")
  /\ Step(r, IF single[s] = Nobody THEN "make" ELSE "return")
  /\ UNCHANGED << setting, sharedVars, handedVars, preambleVars, transportVars >>

\* Variant: the singleton is handed out first, then its tools are registered.
KeepThenMake(r, s) ==
  /\ Stands(r, s, "make")
  /\ IF single[s] = Nobody
     THEN single' = [single EXCEPT ![s] = r] /\ UNCHANGED << at, made, tools >>
     ELSE /\ made' = [made EXCEPT ![s] = @ + 1]
          /\ tools' = IF s = "registry" THEN tools \cup setting.builtin ELSE tools
          /\ Step(r, "keep") /\ UNCHANGED single
  /\ UNCHANGED << setting, holder, handedVars, preambleVars, transportVars >>

\* The engine is constructed; the registry exists, its tools are registered,
\* but for those whose import fails, which nobody is told.
Make(r, s) ==
  /\ Stands(r, s, "make")
  /\ made' = [made EXCEPT ![s] = @ + 1]
  /\ tools' = IF s = "registry" THEN tools \cup setting.builtin ELSE tools
  /\ Step(r, "keep")
  /\ UNCHANGED << setting, holder, single, handedVars, preambleVars, transportVars >>

Keep(r, s) ==
  /\ Stands(r, s, "keep")
  /\ single' = [single EXCEPT ![s] = r]
  /\ Step(r, "return")
  /\ UNCHANGED << setting, holder, made, tools, handedVars, preambleVars, transportVars >>

\* "/compile" does not ask for the preamble.
Dependent(r, s) ==
  CASE s = "engine" -> "registry"
    [] s = "registry" -> IF setting.kind[r] = "compile" THEN "endpoint" ELSE "preamble"

\* The lock, if it was taken, is released, and the singleton returned.
Return(r, s) ==
  /\ Stands(r, s, "return")
  /\ holder' = IF holder[s] = r THEN [holder EXCEPT ![s] = Nobody] ELSE holder
  /\ got' = [got EXCEPT ![r][s] = single[s]]
  /\ Move(r, Dependent(r, s), "queued")
  /\ UNCHANGED << setting, single, made, tools, saw, preambleVars, transportVars >>
-----------------------------------------------------------------------------
(***************************************************************************)
(* get_org_preamble under lru_cache(maxsize=1), which holds no lock while  *)
(* the function runs; a value that was cached meanwhile stays, and the     *)
(* caller is returned its own.                                             *)
(***************************************************************************)
LookUp(r) ==
  /\ at[r].in = "preamble" /\ Dispatched(r)
  /\ IF cached = -1
     THEN Step(r, "read") /\ UNCHANGED << preamble, behind >>
     ELSE /\ preamble' = [preamble EXCEPT ![r] = cached]
          /\ behind' = behind \cup {r}
          /\ Move(r, "endpoint", "queued")
  /\ UNCHANGED << setting, sharedVars, handedVars, source, cached, transportVars >>

Read(r) ==
  /\ Stands(r, "preamble", "read")
  /\ preamble' = [preamble EXCEPT ![r] = source]
  /\ Step(r, "cache")
  /\ UNCHANGED << setting, sharedVars, handedVars, source, cached, behind, transportVars >>

\* Variant: the last value read is kept.
StoreLast(r) ==
  /\ Stands(r, "preamble", "cache")
  /\ cached' = preamble[r]
  /\ Move(r, "endpoint", "queued")
  /\ UNCHANGED << setting, sharedVars, handedVars, source, preamble, behind, transportVars >>

Store(r) ==
  /\ Stands(r, "preamble", "cache")
  /\ cached' = IF cached = -1 THEN preamble[r] ELSE cached
  /\ Move(r, "endpoint", "queued")
  /\ UNCHANGED << setting, sharedVars, handedVars, source, preamble, behind, transportVars >>

\* External: somebody edits the file or the environment.
Edit ==
  /\ source < MaxEdits
  /\ source' = source + 1
  /\ UNCHANGED << setting, at, sharedVars, handedVars, cached, preamble, behind, transportVars >>
-----------------------------------------------------------------------------
(***************************************************************************)
(* The endpoints.  The configuration may be refused at any of them.        *)
(***************************************************************************)
Compile(r, onward) ==
  \/ saw' = [saw EXCEPT ![r] = {tools}] /\ Step(r, onward)
  \/ UNCHANGED saw /\ Step(r, "answered")

OnAThread(r) ==
  /\ at[r].in = "endpoint" /\ setting.kind[r] # "stream" /\ Dispatched(r)
  /\ Compile(r, IF setting.kind[r] = "execute" THEN "model" ELSE "answered")
  /\ UNCHANGED << setting, sharedVars, got, preambleVars, transportVars >>

\* execute_stream is async: what comes before its first event runs on the loop.
OnTheLoop(r) ==
  /\ Stands(r, "endpoint", "queued") /\ setting.kind[r] = "stream"
  /\ LoopFree
  /\ Compile(r, "between")
  /\ UNCHANGED << setting, sharedVars, got, preambleVars, transportVars >>

\* Variant: with sse-starlette, too, the events are produced on the loop.
NextChunkOnLoop(r) ==
  /\ Stands(r, "endpoint", "between")
  /\ LoopFree
  /\ loop' = r /\ Step(r, "onloop")
  /\ UNCHANGED << setting, sharedVars, handedVars, preambleVars, served >>

\* The next event is asked for: with sse-starlette on a thread, without it from
\* the async generator of the fallback, which runs the engine on the loop.
NextChunk(r) ==
  /\ Stands(r, "endpoint", "between")
  /\ LoopFree
  /\ \/ setting.sse /\ Cardinality(OnThread) < Threads /\ Step(r, "model") /\ UNCHANGED loop
     \/ ~setting.sse /\ loop' = r /\ Step(r, "onloop")
  /\ UNCHANGED << setting, sharedVars, handedVars, preambleVars, served >>

\* External: the model has answered, or failed, with the next chunk or the run.
ModelEnds(r) ==
  /\ at[r].step \in {"model", "onloop"}
  /\ loop' = IF loop = r THEN Nobody ELSE loop
  /\ served' = [served EXCEPT ![r] = @ + 1]
  /\ \/ setting.kind[r] = "stream" /\ served'[r] < Chunks /\ Step(r, "between")
     \/ Step(r, "answered")
  /\ UNCHANGED << setting, sharedVars, handedVars, preambleVars >>

Proceed(r) ==
  \/ \E s \in Singletons :
       Look(r, s) \/ Acquire(r, s) \/ LookAgain(r, s)
         \/ Make(r, s) \/ Keep(r, s) \/ Return(r, s)
  \/ LookUp(r) \/ Read(r) \/ Store(r)
  \/ OnAThread(r) \/ OnTheLoop(r) \/ NextChunk(r)

Next == Edit \/ \E r \in Requests : Proceed(r) \/ ModelEnds(r)

Spec == Init /\ [][Next]_vars

\* Threads, locks and the loop are not withheld for ever from a request that
\* can have them, and model calls end, but for the stuck ones.
FairSpec ==
  /\ Spec
  /\ \A r \in Requests : WF_vars(Proceed(r)) /\ WF_vars(r \notin setting.stuck /\ ModelEnds(r))
-----------------------------------------------------------------------------
Steps ==
  {"queued", "acquire", "again", "make", "keep", "return",
   "read", "cache", "between", "model", "onloop", "answered"}

\* With the discipline of the locks, the loop and the threads.
TypeOK ==
  /\ at \in [Requests -> [in : Singletons \cup {"preamble", "endpoint"}, step : Steps]]
  /\ made \in [Singletons -> Nat] /\ tools \subseteq Tools
  /\ single \in [Singletons -> Requests \cup {Nobody}]
  /\ \A s \in Singletons, r \in Requests :
       /\ at[r].in = s /\ at[r].step \in {"again", "make", "keep"} => holder[s] = r
       /\ holder[s] = r => at[r].in = s /\ at[r].step \in {"again", "make", "keep", "return"}
  /\ \A r \in Requests : loop = r <=> at[r].step = "onloop"
  /\ Cardinality(OnThread) <= Threads

(***************************************************************************)
(* Requests that arrive together share one engine and one registry: each   *)
(* is made once, and what a request was handed is what all the others get, *)
(* then and later.  With the types and the discipline of locks and loop.    *)
(***************************************************************************)
SingletonsAreShared ==
  TypeOK /\ \A s \in Singletons :
    /\ made[s] <= 1
    /\ \A r \in Requests : got[r][s] # Nobody => got[r][s] = single[s]

(***************************************************************************)
(* No request is compiled against a registry that is still being filled,   *)
(* and the tools are the same for all requests: those that can be imported *)
(* when the first request asks.                                            *)
(***************************************************************************)
RegistryIsFilledFirst ==
  \A r \in Requests :
    (got[r]["registry"] # Nobody => tools = setting.builtin)
      /\ saw[r] \subseteq {setting.builtin}

(***************************************************************************)
(* The preamble settles.  First requests may each read it, and get what    *)
(* they read; but every request that asks once a value is cached gets the  *)
(* same one, however the source changes and whoever is still reading.      *)
(***************************************************************************)
PreambleSettles ==
  \A q, r \in behind :
    preamble[q] # -1 => preamble[q] = cached /\ preamble[r] \in {-1, preamble[q]}

(***************************************************************************)
(* Every request is answered that is not held up for ever: by a model that *)
(* does not answer it, by such calls on every thread, or, without          *)
(* sse-starlette, by such a stream on the event loop.  Requests that wait  *)
(* for a lock or for the loop never wait for each other in a circle.       *)
(***************************************************************************)
HeldUp(r) ==
  \/ r \in setting.stuck
  \/ Cardinality({q \in setting.stuck : setting.kind[q] = "execute" \/ (setting.kind[q] = "stream" /\ setting.sse)}) >= Threads
  \/ ~setting.sse /\ \E q \in setting.stuck : setting.kind[q] = "stream"

EveryoneIsAnswered == \A r \in Requests : <>(HeldUp(r) \/ at[r].step = "answered")

=============================================================================
