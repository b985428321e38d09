CONSTANTS
  a = a
  b = b
  c = c
  d = d
  e = e
  t = t
  u = u
  Ids <- MCIds
  Configs <- MCConfigs
  Registered <- MCRegistered
SPECIFICATION Spec
INVARIANTS
  SccsAreComponents
  VerdictIsRight
  BuildersGetWhatTheyNeed
CHECK_DEADLOCK FALSE
