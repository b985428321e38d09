CONSTANTS
  b1 = b1
  b2 = b2
  c = c
  t1 = t1
  t2 = t2
  Agents = {b1, b2, c}
  Tools = {t1, t2}
  User = User
  Attached <- MCAttached
  MaxCalls <- MCMaxCalls
  Replies <- MCReplies
  Structured = {c}
  MaxAttempts = 1
  Defended = {b1, c}
  RecursionLimit = 6
  N = 3
  Branches <- MCBranchesTwice
  NextChoices = {{}, {c}}
  Parallelism <- MCParallelism
SPECIFICATION FairSpec
INVARIANTS
  PendingMatchesNode
  FanoutIsAtomic
  BoundedBranches
  ToolBlocksStayTogether
  OrderFaithfulOnceAwaited
PROPERTY
  Termination
CHECK_DEADLOCK FALSE
