CONSTANTS
    Stats = {jpg, dir}
    NoStat = NoStat
    BackRanges = 3
    BackBlocks = 100
    ForgetKeep = 1
    Blocks = 3
    Marked = TRUE
    IgnoreHeaders = TRUE
    WriteErrors = {"EFBIG", "ENOSPC"}
    CreateMayFail = TRUE
    Unsaved = {dir}
    Ext2 = TRUE
    IndirectAfter = 1
    MaxFileSize = 3
    LargestFile = 2
    Lowmem = TRUE
    MaxBack = 1
SPECIFICATION FairSpec
INVARIANTS Conservation EveryBlockLookedAt KeptIsWritten AbortUndone
PROPERTIES OwnershipSpec Termination
CHECK_DEADLOCK FALSE
