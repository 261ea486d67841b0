SPECIFICATION Spec
CONSTANTS
  CONFIGS <- GpsAutoquit
  MAX_STARTS = 1
PROPERTIES
  ExitTerminates
