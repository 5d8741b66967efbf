SPECIFICATION Spec
CHECK_DEADLOCK FALSE
CONSTANTS
    Disks <- DisksOf
    RealSize = 17
    HeadSize = 5
    Heads = 3
    Mega = 7
    MacBlock = 3
    XboxStart = 2
    GptStart = 3
    FatBack = 1
    ExBack = 3
    ExtBack = 4
    NearStart = 2
    Guesses = {5, 15}
    MaxHints = 6
    Word = 100
INVARIANTS
    OneSource
    NothingMissed
    ConfirmedByCheck
