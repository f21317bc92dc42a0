SPECIFICATION ExperimentSpec
CONSTANTS
  Configs <- DeterministicConfigs
  Samples = {1}
  MaxPlanes = 30
INVARIANTS
  FirstDeparture
  FirstTakeoffNext
CHECK_DEADLOCK FALSE
