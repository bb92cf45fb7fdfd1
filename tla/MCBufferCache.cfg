CONSTANTS
    Tasks = {p, q, r}
    Blocks = {k1, k2, k3, k4}
    NBuffers = 2
    MaxWrites = 3
    NoTask = NoTask
    NoBlock = NoBlock
SYMMETRY Symmetry
SPECIFICATION Spec
INVARIANTS TypeOK RefCountExact OneBufferPerBlock ReadsLatest NoDirtyReuse
CHECK_DEADLOCK FALSE
