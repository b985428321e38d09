----------------------------- MODULE Streaming ------------------------------
(***************************************************************************)
(* POST /execute/stream: the generator of stream_execute, the generator of *)
(* the endpoint around it that turns chunks into events and closes the     *)
(* stream, the telemetry both write to, and a client that may go away.     *)
(* Both generators run only when the next event is asked for, so what the  *)
(* engine does after its last chunk happens after the client was sent it.  *)
(***************************************************************************)
EXTENDS StructuredOutput, ProviderStream, FiniteSets

CONSTANTS
  EmitUsage,  \* telemetry.emitUsage of the first agent
  MaxChunks   \* no event of a provider is awaited once so many were sent

ASSUME StreamingAssumption == EmitUsage \in BOOLEAN /\ MaxChunks \in Nat

VARIABLES
  path,    \* "refused", "structured", "openai" or "gemini": what yields the turn
  manual,  \* the fallback used when sse-starlette is not installed
  pc,      \* where the two generators stand
  script,  \* chunks the engine, or the provider, will yield before it goes on
  started, \* started, tool_ids, tool_names: the call started at each index
  sent,    \* the events sent
  turns,   \* turns recorded by the telemetry
  sink,    \* the snapshots: the number of turns each of them tells of
  here     \* the client is connected

streamVars == << path, manual, pc, script, started, sent, turns, sink, here >>
streamingVars == << structuredVars, streamVars >>

ChunkTypes == {"role", "content.delta", "tool_call.start", "tool_call.delta", "message.end"}
RefusalScript == << Chunk("role"), Chunk("content.delta"), Chunk("message.end") >>

\* A policy for structured output is looked at in a structured turn only.
StreamInit ==
  /\ StructuredInit
  /\ path \in {"refused", "structured", "openai", "gemini"}
  /\ path # "structured" => policy = "Ignore" /\ ~hasSchema /\ maxAttempts = Max(Repairs) + 1
  /\ manual \in BOOLEAN
  /\ pc = CASE path = "refused" -> "script"
            [] path = "structured" -> "ask"
            [] OTHER -> "chunks"
  /\ script = IF path = "refused" THEN RefusalScript ELSE << >>
  /\ started = << >>
  /\ sent = << >> /\ turns = 0 /\ sink = << >> /\ here = TRUE
-----------------------------------------------------------------------------
(* The endpoint: every chunk becomes an event, the last one with metrics.  *)

Send(chunk) ==
  /\ sent' = Append(sent, chunk)
  /\ sink' = IF chunk.type = "message.end" /\ EmitUsage THEN Append(sink, turns) ELSE sink

Sent(type) == {i \in DOMAIN sent : sent[i].type = type}

\* The fallback looks at the connection after each chunk and breaks off.
After(next) == IF manual /\ ~here THEN "end" ELSE next

\* Variant: the turn is recorded in a finally clause.
SendErrorThenRecord ==
  /\ pc = "error"
  /\ sent' = Append(sent, Chunk("error"))
  /\ pc' = "record"
  /\ UNCHANGED << structuredVars, path, manual, script, started, turns, sink, here >>

\* An exception of the engine's generator becomes an error event.
SendError ==
  /\ pc = "error"
  /\ sent' = Append(sent, Chunk("error"))
  /\ pc' = "end"
  /\ UNCHANGED << structuredVars, path, manual, script, started, turns, sink, here >>

\* Variant: the end event is sent where the loop ends, not in a finally clause.
SendEndIfWell ==
  /\ pc = "end"
  /\ sent' = IF Sent("error") # {} THEN sent ELSE Append(sent, Chunk("end"))
  /\ pc' = "closed"
  /\ UNCHANGED << structuredVars, path, manual, script, started, turns, sink, here >>

SendEnd ==
  /\ pc = "end"
  /\ sent' = Append(sent, Chunk("end"))
  /\ pc' = "closed"
  /\ UNCHANGED << structuredVars, path, manual, script, started, turns, sink, here >>
-----------------------------------------------------------------------------
(* The engine. *)

\* The structured turn asks the model before it yields anything; the text
\* kept after a violation may be empty, and then has no chunk.
Ask ==
  /\ pc = "ask"
  /\ EnsureStructuredOutput
  /\ \/ answer' = "none" /\ UNCHANGED << pc, script >>
     \/ answer' \in {"refused", "raised"} /\ pc' = "error" /\ UNCHANGED script
     \/ /\ answer' \in {"json", "text", "empty"} /\ pc' = "script"
        /\ \/ answer' # "empty" /\ script' = RefusalScript
           \/ answer' # "json" /\ script' = << Chunk("role"), Chunk("message.end") >>
  /\ UNCHANGED << path, manual, started, sent, turns, sink, here >>

\* Chunks are passed on as they come, those of a provider, too.
YieldNextChunk ==
  /\ pc \in {"script", "chunks"} /\ script # << >>
  /\ Send(Head(script))
  /\ script' = Tail(script)
  /\ pc' = After(pc)
  /\ UNCHANGED << structuredVars, path, manual, started, turns, here >>

\* A refusal returns without a turn; a structured turn is recorded.
ScriptEnds ==
  /\ pc = "script" /\ script = << >>
  /\ pc' = IF path = "structured" THEN "record" ELSE "end"
  /\ UNCHANGED << structuredVars, path, manual, script, started, sent, turns, sink, here >>

\* An event of the model API may come in any order, and may yield no chunk.
NextEvent ==
  /\ pc = "chunks" /\ script = << >> /\ Len(sent) < MaxChunks
  /\ \/ path = "openai" /\ \E ev \in OpenAIEvents :
          LET read == OpenAIStream(started, ev)
          IN script' = read.chunks /\ started' = read.started
     \/ path = "gemini" /\ \E ev \in GeminiEvents :
          LET read == GeminiStream(started, ev)
          IN script' = read.chunks /\ started' = read.started
  /\ UNCHANGED << structuredVars, path, manual, pc, sent, turns, sink, here >>

\* The events are exhausted, with or without a message.end, or there is an
\* exception: of the network, or at an event of OpenAI without choices.
StreamEnds ==
  /\ pc = "chunks" /\ script = << >>
  /\ pc' \in {"record", "error"}
  /\ UNCHANGED << structuredVars, path, manual, script, started, sent, turns, sink, here >>

RecordTurn ==
  /\ pc = "record"
  /\ turns' = turns + 1
  /\ pc' = "end"
  /\ UNCHANGED << structuredVars, path, manual, script, started, sent, sink, here >>
-----------------------------------------------------------------------------
\* External: the client disconnects, and the server cancels a response that nobody reads.
Leave ==
  /\ here /\ pc # "closed"
  /\ here' = FALSE
  /\ UNCHANGED << structuredVars, path, manual, pc, script, started, sent, turns, sink >>

Cancel ==
  /\ ~here /\ pc \notin {"ask", "closed"}
  /\ pc' = "closed"
  /\ UNCHANGED << structuredVars, path, manual, script, started, sent, turns, sink, here >>

StreamNext ==
  \/ Ask \/ YieldNextChunk \/ ScriptEnds
  \/ NextEvent \/ StreamEnds \/ RecordTurn
  \/ SendError \/ SendEnd
  \/ Leave \/ Cancel

StreamSpec == StreamInit /\ [][StreamNext]_streamingVars
-----------------------------------------------------------------------------
StreamTypeOK ==
  /\ attempts \in Nat /\ attempts > 0 => attempts <= maxAttempts
  /\ instructions \in Seq(Outputs)
  /\ instructions # << >> => Len(instructions) < maxAttempts
  /\ answer \in {"none", "json", "text", "refused", "raised", "empty"}
  /\ pc \in {"ask", "script", "chunks", "record", "error", "end", "closed"}
  /\ \A i \in DOMAIN sent : sent[i].type \in ChunkTypes \cup {"error", "end"}
  /\ \A i \in DOMAIN script : script[i].type \in ChunkTypes
  /\ turns \in {0, 1}

(***************************************************************************)
(* Whatever the provider does, the event stream is framed: one end event   *)
(* closes it, an error is reported right before, and a client that stayed  *)
(* has received the end when the endpoint is through.  With the types.     *)
(***************************************************************************)
StreamIsFramed ==
  /\ StreamTypeOK
  /\ \A i \in Sent("end") : i = Len(sent)
  /\ \A i \in Sent("error") : i = Len(sent) \/ sent[i + 1].type = "end"
  /\ (pc = "closed" /\ here) => Sent("end") # {}

(***************************************************************************)
(* However the fragments of several tool calls are mixed, the client can   *)
(* put them together: a call is started once, from then on all that has    *)
(* its index is told to be of the call that was started there, and where   *)
(* the API numbers its calls, as OpenAI does, this is the right one.       *)
(***************************************************************************)
DeltasNameTheirCall ==
  \A i \in Sent("tool_call.start"), j \in Sent("tool_call.start") \cup Sent("tool_call.delta") :
    i < j /\ sent[i].index = sent[j].index =>
      /\ j \in Sent("tool_call.delta")
      /\ sent[j].told = sent[i].told
      /\ path = "openai" => sent[j].told = sent[j].of

(***************************************************************************)
(* A structured stream is all or nothing: the model has answered before    *)
(* the first event, so a failure leaves no half message behind, and under  *)
(* Refuse the client gets validated JSON or an error.  Refuse and best     *)
(* effort come only after the last attempt, each failure before it having  *)
(* been quoted; the fallback needs a negative max_repair_attempts.         *)
(***************************************************************************)
StructuredIsAllOrNothing ==
  path = "structured" =>
    /\ Sent("error") # {} => sent[1].type = "error"
    /\ Sent("role") # {} => answer \in {"json", "text", "empty"}
    /\ policy = "Refuse" /\ Sent("content.delta") # {} => answer = "json"
    /\ policy # "Ignore" /\ answer \in {"text", "refused"} =>
         attempts = maxAttempts /\ Len(instructions) = attempts - 1
    /\ answer = "empty" => maxAttempts <= 0

(***************************************************************************)
(* The telemetry knows a turn only of a stream the engine brought to its   *)
(* end: none for a refusal, none for a stream that failed, and for a       *)
(* structured turn only after its message.end was sent.  Every snapshot    *)
(* belongs to a message.end, and is older than the turn.                   *)
(***************************************************************************)
TurnsAreServed ==
  /\ turns > 0 =>
       /\ path # "refused" /\ Sent("error") = {}
       /\ path = "structured" => script = << >> /\ Sent("message.end") # {}
  /\ Len(sink) = IF EmitUsage THEN Cardinality(Sent("message.end")) ELSE 0
  /\ \A i \in DOMAIN sink : sink[i] = 0

=============================================================================
