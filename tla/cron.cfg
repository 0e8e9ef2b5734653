SPECIFICATION Spec
CONSTANTS
    a = a
    b = b
    NoJob = NoJob
    Ids = {a, b}
    Initial <- MCInitial
    Drafts <- MCDrafts
    Patches <- MCPatches
    Backoff <- MCBackoff
    Outcomes = {"ok", "error"}
    Period = 2
    RefireGap = 1
    StuckAfter = 1
    MaxScheduleErrors = 2
    Concurrency = 1
    MaxTime = 3
    MaxOps = 3
    MaxCrashes = 1
INVARIANTS TypeOK OneAtATime MarkerMeansClaim TimerIsArmed
PROPERTIES DueRunsAreKept OneShotsRunOnce
CHECK_DEADLOCK FALSE
