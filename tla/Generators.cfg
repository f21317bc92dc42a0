SPECIFICATION ExperimentSpec
CONSTANTS
  Configs <- ExponentialConfigs
  Samples = {1, 2}
  MaxPlanes = 6
INVARIANTS
  OneKindPerGenerator
CHECK_DEADLOCK FALSE
