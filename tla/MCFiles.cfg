CONSTANTS
    Tasks = {p, q}
    First = p
    NFds = 3
    NFiles = 3
    NInodes = 5
    Numbers = {1, 3, 4, 5, 6}
    Dirs = {1, 3, 5, 6}
    Regular = {4}
    Mountable = {5, 6}
    MountRoot = 5
    Held <- PwdAndExec
    Workloads <- SomeWorkloads
SPECIFICATION Spec
INVARIANTS FileCountExact InodeCountExact OneInodePerNumber
CHECK_DEADLOCK FALSE
