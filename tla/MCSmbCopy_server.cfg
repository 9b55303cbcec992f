CONSTANTS
    ChunkBytes = 3
    MaxLen = 5
SPECIFICATION FairSpec
INVARIANTS
    TypeOK
PROPERTIES
    KeepsContract
    CopyEnds
