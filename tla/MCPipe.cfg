CONSTANTS
    r1 = r1
    r2 = r2
    w1 = w1
    w2 = w2
    Tasks = {idle, r1, r2, w1, w2}
    Idle = idle
    Ends <- SomeEnds
    Length = 4
    Bytes <- SentBytes
    NoByte = NoByte
    Counts = {1, 2, 5}
    MaxBytes = 9
    NoTask = NoTask
SPECIFICATION Spec
INVARIANTS NothingLost WaitersJustified AssertionsHold
PROPERTY ImplementsQueue
CHECK_DEADLOCK FALSE
