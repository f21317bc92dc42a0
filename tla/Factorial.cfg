SPECIFICATION Spec
CONSTANTS
  Lines <- SomeLines
  MaxLines = 4
  Weights <- SignedWeights
INVARIANTS
  EffectsExplainResponses
  LettersNameFactors
  SsyIsSumOfSquares
  ResidualsComplete
CHECK_DEADLOCK FALSE
