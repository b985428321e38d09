----------------------------- MODULE SingleAgent -----------------------------
(***************************************************************************)
(* POST /execute with a one-agent configuration: the agent's tool loop,    *)
(* what the provider sends of the transcript, the request's telemetry      *)
(* aggregator that its nodes write to, and the endpoint that turns the     *)
(* result, or the exception, into the response.                            *)
(* Only this builder's nodes write to the telemetry.                       *)
(***************************************************************************)
EXTENDS AgentRun, Prompt

CONSTANTS
  EmitUsage, \* telemetry.emitUsage
  Providers, \* model.provider: what it may be
  Windows    \* history_window.n: what it may be

ASSUME SingleAgentAssumption ==
  /\ EmitUsage \in BOOLEAN
  /\ Providers \subseteq {"openai", "gemini"}
  /\ Windows \subseteq Nat \ {0}

VARIABLES
  agent,     \* the only agent of the configuration,
  provider,  \* its provider and
  window,    \* its history window
  request,   \* what the model was sent last
  usage,     \* metadata["_last_usage"]: the reply it came with, in a set
  tokens,    \* token usage in the telemetry: likewise, 0 for a reply not kept
  turns,     \* had_tool_calls of the recorded turns
  calls,     \* tool -> "calls" of the tool's statistics
  errors,    \* tool -> "errors" of the tool's statistics
  errorLog,  \* kinds of the recorded errors
  response,  \* "none", "result" or "error"
  sink       \* the snapshots handed to the sink

settingVars == << agent, provider, window >>
metricVars == << tokens, turns, calls, errors, errorLog >>

executeVars == << runVars, settingVars, request, usage, metricVars, response, sink >>

ExecuteInit ==
  /\ agent \in Agents
  /\ StartAt(AgentNode(agent))
  /\ provider \in Providers
  /\ window \in Windows
  /\ request = << >>
  /\ usage = {}
  /\ tokens = {}
  /\ turns = << >>
  /\ calls = [t \in Tools |-> 0]
  /\ errors = [t \in Tools |-> 0]
  /\ errorLog = << >>
  /\ response = "none"
  /\ sink = << >>
-----------------------------------------------------------------------------
\* Variant: a blocked turn is recorded like any other.
RecordEveryTurn ==
  IF messages' = messages THEN turns ELSE Append(turns, toolCalls' # << >>)

\* A turn is recorded when the model answered; the blocked path returns before.
RecordModelTurn ==
  IF messages' # messages /\ messages'[Len(messages')].kind = "reply"
  THEN Append(turns, toolCalls' # << >>) ELSE turns

\* A blocked turn asks no model, and leaves the usage of the last reply.
Blocked == messages' # messages /\ messages'[Len(messages')].kind = "refusal"
Replied == messages' # messages /\ ~Blocked

\* A structured turn threw replies of the model away: it went on to another
\* attempt, or it failed after the last.
Rejected ==
  \/ Replied /\ steps' > steps + 1
  \/ outcome' = "model" /\ agent \in Structured /\ MaxAttempts > 1
  \/ outcome' = "structured"

\* The provider tells the telemetry of the usage of every reply that came with
\* one, also of those thrown away, and each overwrites the one before.
ToldBefore == {tokens} \cup {t \in {{0}} : Rejected}

\* Variant: a usage of None does not overwrite an older one.
RecordUsageIfAny(reported) ==
  /\ usage' = IF reported = {} THEN usage ELSE reported
  /\ tokens' \in IF reported = {} THEN ToldBefore ELSE {reported}

\* The telemetry is told of a usage that is not None; the metadata are overwritten
\* in any case, with that of the reply that is kept.
RecordUsage(reported) ==
  /\ usage' = reported
  /\ tokens' \in IF reported = {} THEN ToldBefore ELSE {reported}

\* provider.chat's exception is recorded, one of the structured pipeline is not.
AgentStep ==
  /\ AgentFn(agent, {End})
  /\ turns' = RecordModelTurn
  /\ errorLog' = IF outcome' = "model" /\ agent \notin Structured
                 THEN Append(errorLog, "provider") ELSE errorLog
  /\ request' = IF Blocked THEN request ELSE AssemblePrompt(provider, messages, window)
  /\ \/ Replied /\ \E reported \in {{}, {Len(messages')}} : RecordUsage(reported)
     \/ Blocked /\ UNCHANGED << usage, tokens >>
     \/ ~Replied /\ ~Blocked /\ UNCHANGED usage /\ tokens' \in ToldBefore
  /\ UNCHANGED << settingVars, calls, errors, response, sink >>

\* Variant: a tool called twice in one turn is counted once.
RecordedPerName(n) ==
  [t \in Tools |-> calls[t] + (IF \E i \in 1 .. n : toolCalls[i] = t THEN 1 ELSE 0)]

\* The statistics after the first n pending calls were executed successfully.
Recorded(n) ==
  [t \in Tools |-> calls[t] + Cardinality({i \in 1 .. n : toolCalls[i] = t})]

\* execute_tool_call records a tool that raised (or timed out) in its except
\* clause, and once more, as a call without error, in its finally clause.
RecordFailed(t, n) ==
  /\ calls' = [Recorded(n) EXCEPT ![t] = @ + 2]
  /\ errors' = [errors EXCEPT ![t] = @ + 1]
  /\ errorLog' = Append(errorLog, "tool")

\* The call after the first n failed: the tool raised; or nothing was recorded,
\* as the call is not attached or its arguments were rejected; or the tool
\* returned something that is not JSON, and counts as a success.
RecordFailure(t, n) ==
  \/ outcome' = "tool" /\ RecordFailed(t, n)
  \/ calls' = Recorded(n) /\ UNCHANGED << errors, errorLog >>
  \/ outcome' = "tool" /\ calls' = Recorded(n + 1) /\ UNCHANGED << errors, errorLog >>

ToolsStep ==
  /\ ToolsFn(agent, AgentNode(agent))
  /\ LET n == Len(messages') - Len(messages)
     IN IF outcome' \in {"tool", "detached"} THEN RecordFailure(toolCalls[n + 1], n)
        ELSE calls' = Recorded(n) /\ UNCHANGED << errors, errorLog >>
  /\ UNCHANGED << settingVars, request, usage, tokens, turns, response, sink >>

Snapshot ==
  [tokens |-> tokens, turns |-> turns, calls |-> calls, errors |-> errors,
   errorLog |-> errorLog]

\* The snapshot is taken, and the sink told, for a result only.
Respond ==
  /\ ~Running
  /\ response = "none"
  /\ response' = IF outcome = "done" THEN "result" ELSE "error"
  /\ sink' = IF outcome = "done" /\ EmitUsage THEN Append(sink, Snapshot) ELSE sink
  /\ UNCHANGED << runVars, settingVars, request, usage, metricVars >>

ExecuteNext == AgentStep \/ ToolsStep \/ Respond

ExecuteSpec == ExecuteInit /\ [][ExecuteNext]_executeVars

-----------------------------------------------------------------------------
ExecuteTypeOK ==
  /\ TypeOKRun
  /\ usage \subseteq 1 .. Len(messages) /\ tokens \subseteq 0 .. Len(messages)
  /\ turns \in Seq(BOOLEAN)
  /\ calls \in [Tools -> Nat]
  /\ errors \in [Tools -> Nat]
  /\ errorLog \in Seq({"provider", "tool"})
  /\ response \in {"none", "result", "error"}
  /\ Len(sink) <= 1

Positions(kind) == {p \in 1 .. Len(messages) : messages[p].kind = kind}

(***************************************************************************)
(* The recorded turns are the model's answers in the transcript, one by    *)
(* one and in order, each marked by whether it asked for tools; a refusal  *)
(* is charged to steps and recorded nowhere.  With the types.              *)
(***************************************************************************)
TurnsAreAnswers ==
  /\ ExecuteTypeOK
  /\ Len(turns) = Cardinality(Positions("reply"))
  /\ \A p \in Positions("reply") :
       turns[Cardinality({q \in Positions("reply") : q <= p})] <=> messages[p].calls # << >>
  /\ steps >= Len(turns) + Cardinality(Positions("refusal"))

(***************************************************************************)
(* Wherever a batch of calls fails, what the telemetry counted of a tool   *)
(* and the transcript agree: every result was counted once, and what was   *)
(* counted beyond that belongs to the one call that ended the run.         *)
(***************************************************************************)
ResultsOf(t) == {p \in Positions("tool") : messages[p].calls = << t >>}

CountsMatchTranscript ==
  \A t \in Tools :
    /\ calls[t] >= Cardinality(ResultsOf(t)) + errors[t]
    /\ calls[t] # Cardinality(ResultsOf(t)) =>
         /\ outcome = "tool"
         /\ \A u \in Tools \ {t} : calls[u] = Cardinality(ResultsOf(u))

(***************************************************************************)
(* What the caller is shown adds up: a snapshot is taken of a run that     *)
(* ended normally, so it counts no errors, every tool call it counts has   *)
(* its result in the transcript, and its last turn asked for no tools      *)
(* unless a refusal, which is no recorded turn, came after it.  The usage  *)
(* of the result is that of the last reply or none, and if there is one    *)
(* the metrics have the same.                                              *)
(***************************************************************************)
SnapshotIsConsistent ==
  \A i \in 1 .. Len(sink) :
    /\ response = "result"
    /\ sink[i].errorLog = << >>
    /\ sink[i].turns # << >> /\ sink[i].turns[Len(sink[i].turns)] =>
         messages[Len(messages)].kind = "refusal"
    /\ \A t \in Tools :
         sink[i].errors[t] = 0 /\ sink[i].calls[t] = Cardinality(ResultsOf(t))
    /\ usage # {} => usage = {Max(Positions("reply"))} /\ sink[i].tokens = usage

(***************************************************************************)
(* The results of tools in a request stand where a model expects them.     *)
(* Each is behind an assistant message of the request, with only results   *)
(* in between, and to Gemini that message goes with a call for this tool   *)
(* at the place of the result; or its message fell out of the window, and  *)
(* then it comes first, with only such results before it.  The results a   *)
(* turn is about are not among those if the window is larger than the      *)
(* batch.  To OpenAI no calls are sent, so there is no claim about them.   *)
(***************************************************************************)
CutOff(first) ==
  {p \in DOMAIN request : request[p].kind = "tool" /\ AskedAt(messages, p) < first}

BehindItsCall(p) ==
  \E q \in DOMAIN request :
    /\ q < p /\ IsAssistant(request[q])
    /\ \A r \in q + 1 .. p : request[r].kind = "tool"
    /\ provider = "gemini" =>
         /\ p - q <= Len(request[q].asks)
         /\ messages[p].calls = << request[q].asks[p - q] >>

RequestsKeepPairs ==
  request # << >> =>
    LET first == Min(DOMAIN request)
        last == Max(DOMAIN request)
    IN /\ DOMAIN request = first .. last
       /\ \A p \in DOMAIN request : request[p].kind = "tool" =>
            IF p \in CutOff(first) THEN \A q \in first .. p : request[q].kind = "tool"
            ELSE BehindItsCall(p)
       /\ request[last].kind = "tool" /\ window > last - AskedAt(messages, last) =>
            last \notin CutOff(first)

(***************************************************************************)
(* docs/providers.md of a tool result in a request to Gemini: "The name is *)
(* resolved by linking the tool message's tool_call_id to the prior        *)
(* assistant tool call id".                                                *)
(***************************************************************************)
ResultsAreNamed ==
  \A p \in DOMAIN request :
    provider = "gemini" /\ request[p].kind = "tool" /\ p \notin CutOff(Min(DOMAIN request)) =>
      request[p].answers = {messages[p].calls[1]}

=============================================================================
