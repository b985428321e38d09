--------------------------- MODULE ProviderStream ---------------------------
(***************************************************************************)
(* What the providers make of the events of a model API: chunks, in a      *)
(* generator that remembers of every index which tool call was started     *)
(* there, to tell the client whose arguments a fragment belongs to.        *)
(*                                                                         *)
(* A fragment of a tool call is [of, index, named, args]: the call it is   *)
(* part of, its number or NoIndex, and whether it carries the name (and    *)
(* id) and a piece of the arguments.                                       *)
(***************************************************************************)
EXTENDS Integers, SequencesExt

CONSTANTS
  Calls,        \* the tool calls a model makes
  NoCall,       \* what a chunk tells that names no tool call
  OpenAIEvents, \* [delta, role, text, calls, finish]
  GeminiEvents  \* [role, text, calls, inner, parts, finish]; inner: a role in
                \* the candidate, and its parts

NoIndex == -1
Fragments == [of : Calls, index : Nat \cup {NoIndex}, named : BOOLEAN, args : BOOLEAN]
Parts == [text : BOOLEAN, calls : Seq(Fragments)]

ASSUME EventsAssumption ==
  /\ OpenAIEvents \subseteq [delta : BOOLEAN, role : BOOLEAN, text : BOOLEAN,
                              calls : Seq(Fragments), finish : BOOLEAN]
  /\ GeminiEvents \subseteq [role : BOOLEAN, text : BOOLEAN, calls : Seq(Fragments),
                              inner : BOOLEAN, parts : Seq(Parts), finish : BOOLEAN]

\* In a chunk, told is the call the client is told of, of the call it is about.
Chunk(type) == [type |-> type, index |-> NoIndex, told |-> NoCall, of |-> NoCall]
OfCall(type, index, told, of) == [type |-> type, index |-> index, told |-> told, of |-> of]

ChunkIf(condition, type) == IF condition THEN << Chunk(type) >> ELSE << >>

Index(f) == IF f.index = NoIndex THEN 0 ELSE f.index

\* External: OpenAI numbers the calls of a message, what has one number is of one call.
OpenAIFragments == UNION {Range(ev.calls) : ev \in OpenAIEvents}

ASSUME NumberedAssumption ==
  \A f, g \in OpenAIFragments : Index(f) = Index(g) => f.of = g.of

\* A call is started when something of its index first has a name.
Starts(started, f) == f.named /\ Index(f) \notin DOMAIN started

\* Variant: the fragment is attributed to the call that was started last.
ToldLatest(started, f) ==
  IF DOMAIN started = {} THEN NoCall
  ELSE started[CHOOSE k \in DOMAIN started : \A l \in DOMAIN started : l <= k]

Told(started, f) == IF Index(f) \in DOMAIN started THEN started[Index(f)] ELSE NoCall

WithCall(started, k, call) ==
  [l \in DOMAIN started \cup {k} |-> IF l = k THEN call ELSE started[l]]

\* acc: the calls started so far and the chunks yielded.
TakeFragment(acc, f) ==
  LET new == Starts(acc.started, f)
      started == IF new THEN WithCall(acc.started, Index(f), f.of) ELSE acc.started
  IN [started |-> started,
      chunks |-> acc.chunks
        \o (IF new THEN << OfCall("tool_call.start", Index(f), f.of, f.of) >> ELSE << >>)
        \o (IF f.args
            THEN << OfCall("tool_call.delta", Index(f), Told(started, f), f.of) >> ELSE << >>)]

TakeFragments(acc, calls) ==
  LET taken[n \in 0 .. Len(calls)] ==
        IF n = 0 THEN acc ELSE TakeFragment(taken[n - 1], calls[n])
  IN taken[Len(calls)]

TakeChunks(acc, chunks) == [started |-> acc.started, chunks |-> acc.chunks \o chunks]

\* A part of a candidate: [text, calls], with one call at most.
TakePart(acc, p) ==
  TakeFragments(TakeChunks(acc, ChunkIf(p.text, "content.delta")), p.calls)

TakeParts(acc, parts) ==
  LET taken[n \in 0 .. Len(parts)] ==
        IF n = 0 THEN acc ELSE TakePart(taken[n - 1], parts[n])
  IN taken[Len(parts)]

(***************************************************************************)
(* OpenAI: the end of the message is told of an event with a finish reason *)
(* and nothing else.  An event without choices is in Streaming, it raises. *)
(***************************************************************************)
OpenAIStream(started, ev) ==
  LET opened == [started |-> started,
                 chunks |-> ChunkIf(ev.role, "role") \o ChunkIf(ev.text, "content.delta")]
      bare == ~ev.role /\ ~ev.text /\ ev.calls = << >>
  IN IF ~ev.delta
     THEN [started |-> started, chunks |-> ChunkIf(ev.finish, "message.end")]
     ELSE TakeChunks(TakeFragments(opened, ev.calls),
                     ChunkIf(ev.finish /\ bare, "message.end"))

(***************************************************************************)
(* Gemini: what an event has itself, then what its candidate has, then the *)
(* end.  The calls of a candidate have no number.                          *)
(***************************************************************************)
GeminiStream(started, ev) ==
  LET opened == [started |-> started,
                 chunks |-> ChunkIf(ev.role, "role") \o ChunkIf(ev.text, "content.delta")]
      outer == TakeChunks(TakeFragments(opened, ev.calls),
                          ChunkIf(ev.inner /\ ~ev.role, "role"))
  IN TakeChunks(TakeParts(outer, ev.parts), ChunkIf(ev.finish, "message.end"))

=============================================================================
