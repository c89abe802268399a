SPECIFICATION SysFairSpec
CONSTANTS
    MaxRequests = 3
    MaxLines = 2
    Calls = {0, 2, 4, 6, 35, 36, 37, 39, 42, 48, 49, 50, 53}
INVARIANTS
    WorkDataOwned
    LogInOrder
PROPERTIES
    WorkDataFreed
CHECK_DEADLOCK FALSE
