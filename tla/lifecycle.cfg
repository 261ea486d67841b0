SPECIFICATION Spec
CONSTANTS
  CONFIGS <- AnyConfig
  MAX_STARTS = 2
INVARIANTS
  CrewSafe
  ReturnsWhenAsked
PROPERTIES
  StopTerminates
