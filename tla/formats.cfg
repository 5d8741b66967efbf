SPECIFICATION Spec
CONSTANTS
    BlockSize = 512
    Wrap = 0
    Files <- AllFiles
    MaxSpan = 56
INVARIANTS
    WholeFileKept
    TornFile
    StopsInTime
    ChainNeverLost
CHECK_DEADLOCK FALSE
