SPECIFICATION Spec
CONSTANTS
  Configs <- LongerConfigs
  Samples = {0, 1}
  MaxPlanes = 7
PROPERTIES
  ServesOldestProperty
  ImplementsTower
CHECK_DEADLOCK FALSE
