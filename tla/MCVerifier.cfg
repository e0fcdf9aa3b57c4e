SPECIFICATION Spec
CONSTANTS
  Certs <- MCCerts
  NoKeyId = "none"
  KeyAlgorithm <- MCKeyAlgorithm
  Documents <- MCDocuments
  AnchorCalls <- MCAnchorCalls
  IntermediateCalls <- MCIntermediateCalls
  Policies <- MCPolicies
  Modes <- MCModes
  AlgorithmIds <- MCAlgorithmIds
  End2028 = 1
  NoSunset = NoSunset
  MaxDepth = 3
  MaxNow = 1
  MaxBuilderCalls = 3
  MaxCalls = 2
CHECK_DEADLOCK FALSE
INVARIANTS
  TypeOK
  PassIsJustified
  GenuinePasses
  FormatsAgree
PROPERTY
  EveryCallReturns
