SPECIFICATION Spec
CONSTANTS
  Certs <- MCCerts
  NoKeyId = "none"
  KeyAlgorithm <- MCKeyAlgorithm
  Documents <- DocDocuments
  AnchorCalls <- MCAnchorCalls
  IntermediateCalls <- MCIntermediateCalls
  Policies <- MCPolicies
  Modes <- MCModes
  AlgorithmIds <- MCAlgorithmIds
  End2028 = 1
  NoSunset = NoSunset
  MaxDepth = 3
  MaxNow = 1
  MaxBuilderCalls = 2
  MaxCalls = 1
CHECK_DEADLOCK FALSE
INVARIANT DocProfilePasses
