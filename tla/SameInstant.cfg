SPECIFICATION Spec
CONSTANTS
  Configs <- StableConfigs
  Samples = {0}
  MaxPlanes = 40
PROPERTIES
  SimultaneousRequestsLandFirst
CHECK_DEADLOCK FALSE
