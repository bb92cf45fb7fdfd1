CONSTANTS
    Tasks = {p, q}
    NInodes = 4
    NZones = 10
    FirstZone = 6
    BLOCK_BITS = 16
    BLOCK_CELLS = 2
    DIRECT_BLOCK = 2
    Names = {"a", "b"}
    Workloads <- SomeWorkloads
SYMMETRY Symmetry
SPECIFICATION Spec
INVARIANTS ZonesExact ReadsBack LinksExact PwdExact
CHECK_DEADLOCK FALSE
