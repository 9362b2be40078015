CONSTANTS
  MinBlock = 2
  MaxBlock = 3
  Sizes <- SomeSizes
  MaxInput = 5
  MaxThreads = 3
  CompSizes <- SomeCompSizes
  Faults <- OnlyRead
SPECIFICATION Spec
INVARIANTS
  RoundTripAlways
