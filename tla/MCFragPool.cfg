CONSTANTS
  MaxBlocks = 3
  MaxThreads = 3
  Errors <- OneError
  Verdicts <- AnyVerdict
  CreateMayFail = TRUE
  StrayJoin <- Either
SPECIFICATION FairSpec
INVARIANTS
  TypeOK
  OneOwner
  NoWorkerOutlivesJob
  OkMeansComplete
  CursorBounded
PROPERTIES
  FailureSticksWorkIsOnce
  Termination
