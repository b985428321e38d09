CONSTANTS
  a1 = a1
  a2 = a2
  a3 = a3
  t1 = t1
  t2 = t2
  Agents = {a1, a2, a3}
  Tools = {t1, t2}
  User = User
  Order <- MCOrder
  Attached <- MCAttached
  MaxCalls <- MCMaxCalls
  Replies <- MCReplies
  Structured = {a2}
  MaxAttempts = 2
  Defended = {a1, a2}
  RecursionLimit = 9
SPECIFICATION Spec
INVARIANTS
  TypeOK
  PendingMatchesNode
  ToolsAnswerCalls
  FinishIsLastTurns
  ChainInOrder
  CallerResumes
PROPERTY
  ImplementsEngine
CHECK_DEADLOCK FALSE
