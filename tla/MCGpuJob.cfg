CONSTANTS
  MinBlock = 4
  MaxBlock = 8
  AlignBytes = 2
  OccFactor = 2
  Sizes <- SomeSizes
  Units <- SomeUnits
  Word = 256
  Shapes <- SomeShapes
  StreamLengths = {3, 70}
SPECIFICATION MCSpec
INVARIANTS
  ReleasesHeld
  LossesNamed
  OkMeansDone
  FailureKeepsOutput
  BlocksFit
  Restores
