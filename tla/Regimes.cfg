SPECIFICATION Spec
CONSTANTS
  Configs <- RegimeConfigs
  Samples = {1, 2}
  MaxPlanes = 100
INVARIANTS
  StableWaitsBounded
  UnstableSaturates
  LightTrafficNeverWaits
PROPERTIES
  SimulationEnds
CHECK_DEADLOCK FALSE
