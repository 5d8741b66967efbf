SPECIFICATION Spec
CHECK_DEADLOCK FALSE
CONSTANTS
    Cases <- AllCases
    Additions <- AdditionsTo
    Backups <- BackupsOf
    NewTypes = {"swap"}
    XboxStarts <- Starts
    DiskSize = 67
    HeadsPerCyl = 2
    SectorsPerHead = 3
    Mega = 16
    MacAlign = 8
    MaxCylinder = 8
    MaxCount = 56
    MaxLogical = 9
    GptEntries = 4
    GptSectors = 3
    Word = 40
    MaxEdits = 2
INVARIANTS
    ProposalIsValid
    TablesBesidePartitions
    RoundTrip
    TornTable
