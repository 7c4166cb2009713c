SPECIFICATION FairSpec
CONSTANTS
    Sessions = {s1}
    Capacity = 2
    MaxChildren = 2
    MaxChunks = 2
INVARIANTS
    TypeOK
    ChunksInOrder
    ConnectionsCounted
PROPERTIES
    PumpEnds
    GoneIsRemoved
CHECK_DEADLOCK FALSE
