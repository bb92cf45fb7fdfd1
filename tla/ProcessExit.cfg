CONSTANTS
    NTasks = 5
    Users = {1, 3, 4}
SPECIFICATION Spec
INVARIANT ExitedStaysDead
CHECK_DEADLOCK FALSE
