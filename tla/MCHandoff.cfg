CONSTANTS
  triage = triage
  left = left
  right = right
  closer = closer
  t1 = t1
  t2 = t2
  Agents = {triage, left, right, closer}
  Tools = {t1, t2}
  User = User
  Attached <- MCAttached
  MaxCalls <- MCMaxCalls
  Replies <- MCReplies
  Structured = {closer}
  MaxAttempts = 2
  Defended = {triage, left}
  RecursionLimit = 8
  Adjacency <- MCAdjacency
  Root = triage
  Depth <- MCDepth
  RouterReplies <- MCRouterReplies
SPECIFICATION HandoffSpec
INVARIANTS
  FollowsEdges
CHECK_DEADLOCK FALSE
