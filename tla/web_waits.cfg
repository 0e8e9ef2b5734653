SPECIFICATION Spec
CONSTANTS
    Web = web
    Subs = {sub}
    MaxRuns = 3
    MaxChildren = 5
    MaxEvents = 4
    MaxInputs = 1
    MaxBoth = 6
INVARIANTS NobodyWaitsInVain
CHECK_DEADLOCK FALSE
