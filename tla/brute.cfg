SPECIFICATION Spec
CHECK_DEADLOCK FALSE
CONSTANTS
    Stats = {jpg, sig}
    NoStat = NoStat
    BackRanges = 3
    BackBlocks = 6
    ForgetKeep = 2
    Extras = {1}
    MaxFrag = 0
    PatienceFirst = 1
    PatienceSecond = 2
    Unsaved = {sig}
    PadChecked = 2
    Window = 1
    Blocks = 6
    AnyBlocks = 3
    MaxWhole = 5
    ScanFaults = 2
    MaxSkip = 5
    PadPlain = 6
INVARIANTS
    Conservation
    MarksKept
    GapsAreBridged
PROPERTIES
    WalkEnds
