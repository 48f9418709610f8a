SPECIFICATION MCSpec
CONSTANTS
  s1 = s1
  s2 = s2
  Gone = Gone
  Ent = {1, 2}
  State = {s1, s2}
  Baseline = s1
  Worlds <- MCWorlds
  SV_UPDATE_BACKUP = 4
  SeqNrs = 8
  BufferLength = 2
  FailureTime = 3
  MaxFrames = 6
  MaxPackets = 3
CHECK_DEADLOCK FALSE
INVARIANT FramesInv
PROPERTY PingOfAcknowledged
