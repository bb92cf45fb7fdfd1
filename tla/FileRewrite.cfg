CONSTANTS
    Tasks = {p}
    NInodes = 4
    NZones = 10
    FirstZone = 6
    BLOCK_BITS = 16
    BLOCK_CELLS = 2
    DIRECT_BLOCK = 2
    Names = {"a", "b"}
    Workloads <- Rewrite
SPECIFICATION Spec
INVARIANT AssertionsHold
CHECK_DEADLOCK FALSE
