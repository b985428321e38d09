CONSTANTS
  a = a
  s = s
  t1 = t1
  t2 = t2
  Agents = {a, s}
  Tools = {t1, t2}
  User = User
  Attached <- MCAttached
  MaxCalls <- MCMaxCalls
  Replies <- MCReplies
  Structured = {s}
  MaxAttempts = 2
  Defended = {a}
  RecursionLimit = 8
  EmitUsage = TRUE
  Providers = {"openai", "gemini"}
  Windows = {1, 3, 20}
SPECIFICATION ExecuteSpec
INVARIANTS
  TurnsAreAnswers
  CountsMatchTranscript
  SnapshotIsConsistent
  RequestsKeepPairs
CHECK_DEADLOCK FALSE
