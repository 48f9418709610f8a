SPECIFICATION Spec
CONSTANTS
  a = a
  b = b
  Client = {a, b}
  Msec <- MCMsec
  MaxSeq <- MCMaxSeq
  MAX_DROPPED_CMDS = 3
  CMD_MAXBACKUP = 5
  MaxTicks = 2
  BurstLow = 3
  BurstHigh = 4
  MaxNew = 2
  NumBackups = {1, 2}
CHECK_DEADLOCK FALSE
INVARIANTS
  MovesInv
  EveryLossMadeUp
PROPERTIES
  OnceInOrder
  CountCoversRuns
