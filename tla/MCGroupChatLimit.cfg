CONSTANTS
  p1 = p1
  p2 = p2
  p3 = p3
  mod = mod
  t1 = t1
  t2 = t2
  Agents = {p1, p2, p3, mod}
  Tools = {t1, t2}
  User = User
  Attached <- MCAttached
  MaxCalls <- MCMaxCalls
  Replies <- MCOneCall
  Structured = {}
  MaxAttempts = 2
  Defended = {}
  RecursionLimit = 25
  Participants <- MCTwoParticipants
  Modes = {"round_robin"}
  MaxTurns = 6
  ModeratorReplies <- MCModeratorReplies
SPECIFICATION Spec
INVARIANT
  EndsAsDocumented
CHECK_DEADLOCK FALSE
