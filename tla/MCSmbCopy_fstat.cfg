CONSTANTS
    ChunkBytes = 2
    MaxLen = 3
SPECIFICATION Spec
INVARIANTS
    SuccessIsWhole
