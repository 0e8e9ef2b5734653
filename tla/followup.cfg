SPECIFICATION FairSpec
CONSTANTS
    Count = 5
    Route <- MCRoute
    Id <- MCId
    Settings <- MCSettings
    MaxQueues = 2
    MaxClears = 1
    MaxThrows = 1
INVARIANTS TypeOK LossNeedsRace OneRunPerKey
PROPERTIES AnsweredOnce OnlyQueuedIsRun DrainedIsServed
CHECK_DEADLOCK FALSE
