SPECIFICATION Spec
CHECK_DEADLOCK FALSE
CONSTANTS
    Stats = {jpg}
    NoStat = NoStat
    BackRanges = 3
    BackBlocks = 4
    ForgetKeep = 2
    Sector = 2
    Piece = 2
    MaxBlock = 8
    DiskSize = 12
    PartStarts = {0, 2}
    PartSizes = {6, 12}
    UserBlocksizes = {4}
    FileSystems <- FilledFileSystems
    Ext2s <- SmallExt2s
    MaxInodes = 2
    MaxFiles = 3
INVARIANTS
    OnlyUsedLeaves
    PreparedInBlocks
    RoundingKeepsBlocks
