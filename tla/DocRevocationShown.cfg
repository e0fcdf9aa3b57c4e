SPECIFICATION Spec
CONSTANTS
  Envelopes <- DocCases
  Modes <- AllModes
  TrustLists <- NoLists
  MaxNow = 1
  NoTime = NoTime
  NoUpdate = NoUpdate
CHECK_DEADLOCK FALSE
INVARIANT
  DocNoEvidenceShowsRevocation
