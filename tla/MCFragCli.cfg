CONSTANTS
  Arguments <- SomeArguments
  MaxArgs = 4
SPECIFICATION Spec
INVARIANTS
  TypeOK
  LabelOnlyCompresses
  DefaultOutputSane
