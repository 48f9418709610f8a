SPECIFICATION MCSpec
CONSTANTS
  server = server
  client = client
  file1 = file1
  file2 = file2
  NoFile = NoFile
  End <- MCEnd
  Writer <- MCWriter
  File <- MCFiles
  FileChunks = 2
  BlockSize = 1
  MAX_RELIABLE_PAYLOAD = 2
  MAX_MSGLEN = 3
  MessageSize = 4
  MaxFragments = 4
  MayCompress <- MCBoth
  WriteSizes <- MCTwoThree
  MaxUnits = 4
  MaxSeq = 4
  MaxClears = 1
  MaxLead = 1
  Window = 2
INVARIANTS
  TypeOK
  ExactlyOnce
  NothingMissing
  ReassemblyClean
  FilesInOrder
  NeverBackwards
  RepeatsBounded
PROPERTY IsReliableStream
CHECK_DEADLOCK FALSE
