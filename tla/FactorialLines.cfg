SPECIFICATION Spec
CONSTANTS
  Lines <- SomeLines
  MaxLines = 4
  Weights <- SignedWeights
INVARIANTS
  LinesComplete
CHECK_DEADLOCK FALSE
