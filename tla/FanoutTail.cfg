SPECIFICATION Spec
CONSTANTS
    Sessions = {s1}
    Capacity = 1
    MaxChildren = 1
    MaxChunks = 1
INVARIANTS
    AllOutputRead
CHECK_DEADLOCK FALSE
