CONSTANTS
  r1 = r1
  r2 = r2
  r3 = r3
  Requests = {r1, r2, r3}
  Nobody = Nobody
  Threads = 2
  Settings <- MCSettings
  Chunks = 2
  MaxEdits = 1
SPECIFICATION FairSpec
INVARIANTS
  SingletonsAreShared
  RegistryIsFilledFirst
  PreambleSettles
PROPERTY
  EveryoneIsAnswered
CHECK_DEADLOCK FALSE
