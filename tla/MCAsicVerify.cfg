SPECIFICATION Spec
CONSTANTS
  Containers <- MCContainers
CHECK_DEADLOCK FALSE
INVARIANTS
  EverySignatureIsReported
  BoundToFirstMatch
  FailureIsItsOwn
