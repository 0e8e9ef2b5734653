SPECIFICATION Spec
CONSTANTS
    Web = web
    Subs = {sub}
    MaxRuns = 3
    MaxChildren = 4
    MaxEvents = 4
    MaxInputs = 3
    MaxBoth = 6
INVARIANTS TypeOK EventsOnce OneLiveChild FinishedIsSaved ActiveIsFound QuietIsFinished
CHECK_DEADLOCK FALSE
