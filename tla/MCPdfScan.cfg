SPECIFICATION Spec
CONSTANTS
  Files <- MCFiles
  KeywordLen = 2
  MaxUsize = 17
CHECK_DEADLOCK FALSE
INVARIANTS
  SlicesAreInBounds
  AcceptedDoNotOverlap
  PlaceholderIsNotSigned
  MissedOnlyBehindAccepted
  EveryLocationIsReported
  TotalPassIsHonest
  TrimsOnlyZeros
PROPERTIES
  CursorAdvances
