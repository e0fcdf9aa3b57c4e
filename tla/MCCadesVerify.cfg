SPECIFICATION Spec
CONSTANTS
  Envelopes <- MCEnvelopes
  Modes <- AllModes
  TrustLists <- WithdrawnLater
  MaxNow = 2
  NoTime = NoTime
  NoUpdate = NoUpdate
CHECK_DEADLOCK FALSE
INVARIANTS
  TypeOK
  LevelIsEarned
  EvidenceIsAccountedFor
  ChecksShareReferenceTime
  BestTimeIsLatest
PROPERTIES
  ImplementsVerdicts
  CallReturns
