CONSTANTS
  COUNTER_RANGE = 64
  UINT8_RANGE = 8
  JIT_QUEUE_MAX = 2
  JIT_NUM_BEACON_IN_QUEUE = 2
  TX_START_DELAY = 1
  TX_MARGIN_DELAY = 1
  TX_JIT_DELAY = 2
  TX_MAX_ADVANCE_DELAY = 28
  BEACON_GUARD = 3
  BEACON_RESERVED = 1
  ASAP_DELAY = 3
  START_TIME = 11
  HORIZON = 21
  COUNTER_ORIGIN = 49
  BEACON_PERIOD = 10
  GPS_AGE = 0
  GPS_FAILS = TRUE
  JIT_LAG = 22
  DOWN_LAG = 22
  DOWN_TYPES = {"A", "B"}
  OFFSETS <- OneOffset
  AIRTIMES = {1}
  MAX_REQUESTS = 1
  MAX_RETRY = 2
SPECIFICATION Spec
INVARIANTS
  TypeOK
  QueueWithinBounds
  BeaconsCounted
  NoOverlap
  IndexInRange
  GuardKept
