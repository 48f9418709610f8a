SPECIFICATION SplitSpec
CONSTANTS
  SPLIT_SIZE = 1391
  MAX_ROUTEABLE_PACKET = 1400
  MAX_UDP_PACKET = 4010
  MAX_SPLIT_FRAGMENTS = 5
  Length <- MCLength
  MaxDatagrams = 3
  Window = 3
INVARIANTS
  SplitTypeOK
  Whole
  NothingWithheld
  NoSplitError
CHECK_DEADLOCK FALSE
