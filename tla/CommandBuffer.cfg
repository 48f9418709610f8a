CONSTANTS
    Plain = {"plain"}
    Alias <- MCAlias
    File <- MCFile
    Added <- MCAdded
    MAX_CMD_BUFFER = 8
    MaxInputs = 4
SPECIFICATION Spec
INVARIANT BufferInv
PROPERTY EverythingRuns
