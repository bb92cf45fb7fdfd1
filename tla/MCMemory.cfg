CONSTANTS
    Tasks = {p, q}
    First = p
    NHeap = 2
    NMap = 1
    NStack = 1
    NFrames = 6
    NKernel = 1
    MmapAddrs = {0, 3}
    MmapFlags <- Writable
    MaxWrites = 2
    NKPages = 4
    PAGE_SIZE = 7
    HEADER = 1
    MinBlock = 2
    DESC_COUNT = 2
    KSizes = {1, 2, 3, 4, 5, 9}
    KCounts = {1, 2}
    MaxLive = 5
SPECIFICATION MemorySpec
INVARIANTS RefsExact Isolation MapAreaExact HeapExact
CHECK_DEADLOCK FALSE
