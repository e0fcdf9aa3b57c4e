SPECIFICATION Spec
CONSTANTS
  Name <- MCNames
  Key <- MCKeys
  KeyId <- MCKeyIds
  NoKeyId = "none"
  AnchorPool <- MCAnchors
  IntermediatePool <- MCIntermediates
  SignerPool <- MCSigners
  EvaluationTime = {1, 2, 3}
  MaxAnchors = 2
  MaxIntermediates = 3
  MaxDepth = 3
INVARIANTS
  ChainIsLinked
  EndsAtAnchor
  WalkIsBounded
  CaOddityIsReported
  CompleteWhenUnambiguous
PROPERTY
  BuildReturns
