SPECIFICATION Spec
CONSTANTS
  keepalive_time = 1
  autoquit_threshold = 2
  gps_enabled = TRUE
  REQUESTS <- SomeRequests
  PAYLOAD_SIZE = 3
  TOKENS = {1, 2}
  MAX_PULLS = 3
  MAX_MESSAGES = 2
  MAX_REPORTS = 1
INVARIANTS
  AnsweredInOrder
  RatesBounded
  PayloadOwn
PROPERTIES
  AutoquitJustified
  AutoquitHappens
CHECK_DEADLOCK FALSE
