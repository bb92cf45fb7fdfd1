CONSTANTS
    NTasks = 4
    Priority <- PriorityOf
    SleepTicks = {0, 1, 3}
    MaxJiffies = 5
    Sleepers = {1, 2}
SPECIFICATION Spec
INVARIANTS TypeOK SleepListExact SliceRespected
PROPERTIES SleepsLongEnough ImplementsTasks
