SPECIFICATION Spec
CONSTANTS
    Sector = 2
    Sectors = 4
    Buffers = 2
    ReadAhead = 6
    MaxCount = 4
    MaxWrites = 1
    MaxChanges = 1
INVARIANTS
    ReadsAreFresh
PROPERTIES
    ReadAheadIsHarmless
