SPECIFICATION FairSpec
CONSTANTS
  Settings <- RandomSettings
  Samples = {0, 1, 2}
  MaxPlanes = 4
INVARIANTS
  TypeOK
  RunwayExclusive
  QueuedWhenServed
  OneRight
  OneRequest
  CancelsLanding
  AirplanesConserved
PROPERTIES
  ImplementsPriority
  EveryoneLeaves
CHECK_DEADLOCK FALSE
