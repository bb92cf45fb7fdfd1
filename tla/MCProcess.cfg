CONSTANTS
    NTasks = 5
    Users = {1, 3, 4}
SPECIFICATION Spec
INVARIANTS ParentAlive WaiterHasLiveChild CleanExitIsFinal
PROPERTIES ReapedByParent ImplementsTasks
CHECK_DEADLOCK FALSE
