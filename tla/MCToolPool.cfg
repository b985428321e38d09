CONSTANTS
  N = 3
  Parallelisms <- MCParallelisms
  HasTimeout = TRUE
SPECIFICATION FairSpec
INVARIANTS
  BoundedParallelism
  NothingOutlivesTheCall
  FailedBatchEffects
PROPERTIES
  LateCallDoomsBatch
  ImplementsBatch
  Termination
CHECK_DEADLOCK FALSE
