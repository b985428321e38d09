-------------------------- MODULE StructuredOutput --------------------------
(***************************************************************************)
(* ensure_structured_output: the model is asked, its text is parsed and    *)
(* validated, and on a violation it is asked again with an instruction     *)
(* that quotes what was wrong, until the attempts are used up.             *)
(***************************************************************************)
EXTENDS Integers, Sequences

CONSTANT
  Repairs  \* the values of max_repair_attempts: the schema allows any integer

ASSUME RepairsAssumption == Repairs \subseteq Int

VARIABLES
  policy,       \* on_violation
  hasSchema,    \* is there a schema to validate against
  maxAttempts,
  attempts,     \* calls of the model
  instructions, \* the outputs quoted by the instructions appended to the request
  answer        \* how ensure_structured_output returned or raised, or "none"

policyVars == << policy, hasSchema, maxAttempts >>
loopVars == << attempts, instructions, answer >>
structuredVars == << policyVars, loopVars >>

(***************************************************************************)
(* What the model may answer: JSON that fits the schema, JSON that does    *)
(* not, the JSON text null, which the code cannot tell from a parse        *)
(* failure, or text that is no JSON.                                       *)
(***************************************************************************)
Outputs == {"fit", "misfit", "null", "prose"}
Accepted(out) == out = "fit" \/ (out = "misfit" /\ ~hasSchema)

StructuredInit ==
  /\ policy \in {"RetryAndRepair", "Refuse", "Ignore"}
  /\ hasSchema \in BOOLEAN
  /\ maxAttempts \in {r + 1 : r \in Repairs}
  /\ attempts = 0 /\ instructions = << >> /\ answer = "none"

OutOfAttempts == attempts' >= maxAttempts

\* Variant: best effort even where the policy is to refuse.
ViolationKept(out) ==
  IF policy = "Ignore" \/ OutOfAttempts
  THEN answer' = "text" /\ UNCHANGED instructions
  ELSE instructions' = Append(instructions, out) /\ UNCHANGED answer

\* An output that is not accepted: it is kept as text, refused, or repaired.
Violation(out) ==
  IF policy = "Ignore" \/ (OutOfAttempts /\ policy # "Refuse")
  THEN answer' = "text" /\ UNCHANGED instructions
  ELSE IF OutOfAttempts
       THEN answer' = "refused" /\ UNCHANGED instructions
       ELSE instructions' = Append(instructions, out) /\ UNCHANGED answer

Attempt ==
  /\ answer = "none" /\ attempts < maxAttempts
  /\ attempts' = attempts + 1
  /\ \/ \E out \in Outputs :
          IF Accepted(out) THEN answer' = "json" /\ UNCHANGED instructions
                           ELSE Violation(out)
     \/ answer' = "raised" /\ UNCHANGED instructions
  /\ UNCHANGED policyVars

\* The loop is left without an answer: with a negative max_repair_attempts.
Fallback ==
  /\ answer = "none" /\ attempts >= maxAttempts
  /\ answer' = "empty"
  /\ UNCHANGED << policyVars, attempts, instructions >>

EnsureStructuredOutput == Attempt \/ Fallback

=============================================================================
