CONSTANTS
  N = 3
  Parallelisms <- MCParallelisms
  HasTimeout = TRUE
SPECIFICATION EngineFairSpec
PROPERTY
  TimeoutReleasesCaller
CHECK_DEADLOCK FALSE
