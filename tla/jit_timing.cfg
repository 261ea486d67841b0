CONSTANTS
  COUNTER_RANGE = 512
  UINT8_RANGE = 8
  JIT_QUEUE_MAX = 5
  JIT_NUM_BEACON_IN_QUEUE = 3
  TX_START_DELAY = 1
  TX_MARGIN_DELAY = 1
  TX_JIT_DELAY = 5
  TX_MAX_ADVANCE_DELAY = 140
  BEACON_GUARD = 6
  BEACON_RESERVED = 3
  ASAP_DELAY = 9
  START_TIME = 44
  HORIZON = 62
  COUNTER_ORIGIN = 458
  BEACON_PERIOD = 18
  GPS_AGE = 1
  GPS_FAILS = FALSE
  JIT_LAG = 1
  DOWN_LAG = 1
  DOWN_TYPES = {"B"}
  OFFSETS <- PlannedOffsets
  AIRTIMES = {2}
  MAX_REQUESTS = 3
  MAX_RETRY = 3
SPECIFICATION Spec
INVARIANTS
  ConcentratorFree
  NextFirst
  NeverMissed
  ProgrammedInTime
