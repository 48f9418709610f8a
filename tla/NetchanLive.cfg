SPECIFICATION LiveSpec
CONSTANTS
  server = server
  client = client
  file1 = file1
  file2 = file2
  NoFile = NoFile
  End <- MCEnd
  Writer <- MCWriter
  File <- MCFile
  FileChunks = 2
  BlockSize = 1
  MAX_RELIABLE_PAYLOAD = 2
  MAX_MSGLEN = 3
  MessageSize = 4
  MaxFragments = 4
  MayCompress <- MCPlain
  WriteSizes <- MCOne
  MaxUnits = 2
  MaxSeq = 16
  MaxClears = 1
  MaxLead = 1
  Window = 1
  MaxLost = 1
  LastWrite = 3
PROPERTIES
  EverythingArrives
  PhaseHeals
CHECK_DEADLOCK FALSE
