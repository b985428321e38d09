CONSTANTS
  a = a
  s = s
  t1 = t1
  t2 = t2
  Agents = {a}
  Tools = {t1, t2}
  User = User
  Attached <- MCAttached
  MaxCalls <- MCMaxCalls
  Replies <- MCReplies
  Structured = {}
  MaxAttempts = 2
  Defended = {a}
  RecursionLimit = 8
  EmitUsage = TRUE
  Providers = {"gemini"}
  Windows = {20}
SPECIFICATION ExecuteSpec
INVARIANT
  ResultsAreNamed
CHECK_DEADLOCK FALSE
