SPECIFICATION LogSpec
CONSTANTS
  Senders = {s1, s2}
  Receivers = {r1, r2}
  SEND_BUFLEN = 2
  LENS = {1}
  RECV_LENS = {2}
  HWMS <- LogMarks
  MAX_SENDS = 1
  FREED_SIZES = {}
  CLOSES = {FALSE}
PROPERTIES
  DeferredCloseKeeps
  PendingCloses
