CONSTANTS
    Tasks = {idle, a, b, c}
    Idle = idle
    NoTask = NoTask
    MaxRepeat = 2
    Parts = {"lock", "ide", "char", "console"}
    Disks <- ThreeDisks
    MaxLba = 5
    PartTable <- OnePartition
    Counts = {1, 2}
    MaxWritten = 2
    Length = 3
    Bytes = {"a", "A", "/", "?", "cr", "lf"}
    NoByte = NoByte
    Keys <- SomeKeys
    ShiftKeys = {"shift"}
    LockKeys = {"caps"}
    CapsLock = "caps"
    Slash = "slash"
    INV = "inv"
    CR = "cr"
    LF = "lf"
    ReadCounts = {1, 2}
    MaxEvents = 3
    WIDTH = 2
    HEIGHT = 2
    MEM_SIZE = 9
    Chars = {"A"}
    Erase = "erase"
    Null = "null"
SYMMETRY Symmetry
SPECIFICATION DriversSpec
INVARIANTS WaitersExact LockExact NoLostWakeup InterruptWillCome TransferIntact
PROPERTIES ImplementsScreen
CHECK_DEADLOCK FALSE
