CONSTANTS
    Depth = 4
    Chunk = 2
    MaxStream = 14
SPECIFICATION Spec
INVARIANTS
    ChunkIsThere
    NoStaleSamples
    GapsAreNoticed
CHECK_DEADLOCK FALSE
