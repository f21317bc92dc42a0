SPECIFICATION Spec
CONSTANTS
  Lines <- SingleLines
  MaxLines = 4
  Weights <- SignedWeights
INVARIANTS
  ValidCanBeAnalyzed
CHECK_DEADLOCK FALSE
