CONSTANTS
    Tasks = {p, q}
    Blocks = {k1, k2, k3}
    NBuffers = 2
    MaxWrites = 3
    NoTask = NoTask
    NoBlock = NoBlock
SYMMETRY Symmetry
SPECIFICATION Spec
INVARIANT ChangesReachDisk
CHECK_DEADLOCK FALSE
