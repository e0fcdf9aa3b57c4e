SPECIFICATION PolicySpec
CONSTANTS
  AlgorithmIds <- MCAlgorithmIds
  Instant = {1, 2, 3}
  NoSunset = NoSunset
  Floors <- MCFloors
INVARIANTS
  EvaluateFollowsRules
PROPERTIES
  ImplementsRules
