SPECIFICATION BeaconSpec
CONSTANTS
  TX_GAIN_LUT_SIZE_MAX = 3
  RADIOS <- TwoRadios
  CHANNELS <- TwoChannels
  DIRECTORIES <- SomeDirectories
  MAX_STARTS = 3
  JUNK = {0, 255}
  SLOTS = {10156249, 10156250}
  BEACON_STARTS = 2
INVARIANTS
  LocalWins
  AgreesWithHal
  Repeatable
  BeaconReadable
CHECK_DEADLOCK FALSE
