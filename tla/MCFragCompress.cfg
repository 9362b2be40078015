CONSTANTS
  MaxBlocks = 3
  MaxThreads = 3
  Errors <- OneError
  Verdicts <- GoodOrOneError
  CreateMayFail = TRUE
  StrayJoin <- Either
SPECIFICATION CFairSpec
INVARIANTS
  CTypeOK
  WritesLiveBuffer
  NothingLeaks
PROPERTIES
  CTermination
  CompressKeepsPromise
