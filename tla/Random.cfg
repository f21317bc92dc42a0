SPECIFICATION Spec
CONSTANTS
  Configs <- RandomOrAccounting
  Samples = {0, 1, 2}
  MaxPlanes = 5
INVARIANTS
  TypeOK
  RunwayExclusive
  NoIdleWaiting
  QueuesOrdered
  PlanesConserved
  ParkedCountExact
  QueueSizesSampled
  OneSamplePerPlane
  EnoughSamples
  UtilizationAtMostOne
  ResponseTimeAccounting
CHECK_DEADLOCK FALSE
