CONSTANTS
  MinBlock = 2
  MaxBlock = 3
  Sizes <- SomeSizes
  MaxInput = 5
  MaxThreads = 3
  CompSizes <- SomeCompSizes
  Faults <- AllFaults
SPECIFICATION Spec
INVARIANTS
  TypeOK
  RoundTrip
  TruncationDetected
PROPERTIES
  PreviousOutputSurvives
