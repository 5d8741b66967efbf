CONSTANTS
    Stats = {jpg}
    NoStat = NoStat
    BackRanges = 3
    BackBlocks = 100
    ForgetKeep = 100
    Blocks = 3
    Marked = FALSE
    IgnoreHeaders = FALSE
    WriteErrors = {}
    CreateMayFail = FALSE
    Unsaved = {}
    Ext2 = FALSE
    IndirectAfter = 1
    MaxFileSize = 0
    LargestFile = 3
    Lowmem = FALSE
    MaxBack = 1
SPECIFICATION Spec
INVARIANTS StopKeepsBlocks
CHECK_DEADLOCK FALSE
