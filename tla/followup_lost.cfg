SPECIFICATION Spec
CONSTANTS
    Count = 4
    Route <- MCOneRoute4
    Id <- MCOwnIds4
    Settings <- MCCollect
    MaxQueues = 2
    MaxClears = 0
    MaxThrows = 0
INVARIANT QueuedIsKept
CHECK_DEADLOCK FALSE
