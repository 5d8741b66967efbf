SPECIFICATION AdvSpec
CHECK_DEADLOCK FALSE
CONSTANTS
    MaxDirClusters = 3
    Seeds <- MCSeeds
    VolumeOf <- MCVolume
    Commands <- MCCommands
    Rooms = {3, 20}
    MaxDirNbr = 3
    MaxPath = 20
    LongName = 6
    Needles = {"a", "."}
    MaxKeys = 4
    Sessions <- MCSessions
    Orders <- MCOrders
    Space = {5, 6, 40}
    ClusterSize = 2
    PerRead = 4
    PerSection = 4
    Filters = {40, 90}
    Sizes = {2}
    MaxPressed = 2
INVARIANTS
    CopiedFileIsWhole
    WholeTreeCopied
    KnownIsThePath
    UndeletedIsWhole
    EveryDeletedFileCopied
