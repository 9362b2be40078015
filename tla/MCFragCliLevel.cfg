CONSTANTS
  Arguments <- TestArguments
  MaxArgs = 5
SPECIFICATION Spec
INVARIANTS
  TestInvocationAccepted
