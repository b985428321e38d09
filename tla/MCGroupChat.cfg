CONSTANTS
  p1 = p1
  p2 = p2
  p3 = p3
  mod = mod
  t1 = t1
  t2 = t2
  Agents = {p1, p2, p3, mod}
  Tools = {t1, t2}
  User = User
  Attached <- MCAttached
  MaxCalls <- MCMaxCalls
  Replies <- MCReplies
  Structured = {}
  MaxAttempts = 2
  Defended = {p2}
  RecursionLimit = 14
  Participants <- MCParticipants
  Modes = {"round_robin", "moderator"}
  MaxTurns = 4
  ModeratorReplies <- MCModeratorReplies
SPECIFICATION Spec
INVARIANTS
  EndsWhenDue
  Balanced
  WholeBatches
PROPERTY
  ImplementsEngine
CHECK_DEADLOCK FALSE
