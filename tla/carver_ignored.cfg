CONSTANTS
    Stats = {jpg}
    NoStat = NoStat
    BackRanges = 3
    BackBlocks = 100
    ForgetKeep = 100
    Blocks = 4
    Marked = FALSE
    IgnoreHeaders = TRUE
    WriteErrors = {}
    CreateMayFail = FALSE
    Unsaved = {}
    Ext2 = FALSE
    IndirectAfter = 1
    MaxFileSize = 0
    LargestFile = 4
    Lowmem = FALSE
    MaxBack = 5
SPECIFICATION Spec
INVARIANTS OffsetInCurrent
CHECK_DEADLOCK FALSE
