CONSTANTS
    Items = {1, 2}
    N = 2
    Chunks = {c1, c2, c3, c4}
    MaxLen = 3
SYMMETRY ChunkSymmetry
SPECIFICATION Spec
INVARIANTS
    PointersLive
    NoLostWakeup
PROPERTY ImplementsQueue
