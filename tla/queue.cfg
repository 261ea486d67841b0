SPECIFICATION Spec
CONSTANTS
  Senders = {s1, s2}
  Receivers = {r1}
  SEND_BUFLEN = 2
  LENS = {1, 3}
  RECV_LENS = {1}
  HWMS <- Marks
  MAX_SENDS = 2
  FREED_SIZES = {}
INVARIANTS
  SizeIsSum
  NoLostWakeup
  ClosedIsEmpty
PROPERTIES
  ChannelSpec
  MarkKept
  CloseReleases
