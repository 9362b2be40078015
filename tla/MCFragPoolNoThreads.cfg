CONSTANTS
  MaxBlocks = 3
  MaxThreads = 3
  Errors <- OneError
  Verdicts <- AlwaysGood
  CreateMayFail = TRUE
  StrayJoin <- OnlyReturn
SPECIFICATION Spec
INVARIANTS
  OkMeansDone
