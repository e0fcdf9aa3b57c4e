SPECIFICATION ReadingSpec
CONSTANTS
  NoTime = NoTime
  FirstEdition <- MCFirstEdition
  Statuses <- MCStatuses
  Keys <- MCKeys
  Chains <- MCChains
  Terms <- MCTerms
  MaxTime = 3
  MaxChanges = 2
  MaxLoaded = 1
  Layouts <- MCLayouts
CHECK_DEADLOCK FALSE
INVARIANTS
  StatusFollowsLog
  QualifiedByAnActiveService
  PublishedIsRead
  TruncationIsConfined
PROPERTIES
  PastIsStable
  ParseReturns
