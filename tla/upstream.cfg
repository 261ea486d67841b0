SPECIFICATION Spec
CONSTANTS
  NB_PKT_MAX = 2
  FORWARDED = {"OK"}
  PAYLOAD <- SomePayloads
  TOKENS = {1, 2}
  MAX_PACKETS = 2
  MAX_REPORTS = 2
  MAX_ACKS = 2
INVARIANTS
  StatsExact
  SentOnce
  PayloadEncoded
PROPERTIES
  ReportSent
CHECK_DEADLOCK FALSE
