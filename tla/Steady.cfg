SPECIFICATION Spec
CONSTANTS
  Settings <- PunctualSettings
  Samples = {1}
  MaxPlanes = 100
PROPERTIES
  TakeoffsPunctual
  LandingsPunctual
CHECK_DEADLOCK FALSE
