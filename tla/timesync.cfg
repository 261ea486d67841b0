SPECIFICATION Spec
CONSTANTS
  BUFF_SIZE = 8
  LGW_GPS_MIN_MSG_SIZE = 2
  SECOND = 2
  COUNTER_RANGE = 7
  GPS_REF_MAX_AGE = 1
  XERR_INIT_AVG = 1
  VALID_LAG = 1
  START_TIME = 5
  WORLDS <- SomeWorlds
CHECK_DEADLOCK FALSE
INVARIANTS
  ConcentTime
  ReferenceSound
  CorrectionEarned
  BufferBounded
  FramesOnce
