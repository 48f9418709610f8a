CONSTANTS
    Lumps <- MCLumps
    MAX_FILE_ENTRIES = 4
    hpk_maxsize = 3
    MaxUploads = 5
    MaxStarts = 2
SPECIFICATION Spec
INVARIANTS PacksInv NothingLost
