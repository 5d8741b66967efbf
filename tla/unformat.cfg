SPECIFICATION Spec
CHECK_DEADLOCK FALSE
CONSTANTS
    Stats = {jpg}
    NoStat = NoStat
    BackRanges = 3
    BackBlocks = 4
    ForgetKeep = 2
    Sector = 2
    DiskSize = 40
    Contents <- Disks
    PartStarts = {0, 2, 4, 8}
    Holes <- Missing
    MaxSubdirs = 3
    Fat12Clusters = 4085
    Fat16Clusters = 65525
    Look = 4
    Buffer = 12
INVARIANTS
    SpaceKeepsTheRest
    CopiedIsWhole
    EveryListingRead
