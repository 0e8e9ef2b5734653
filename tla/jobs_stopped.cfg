SPECIFICATION Spec
CONSTANTS
  j1 = j1
  Jobs = {j1}
  NoJob = NoJob
  MaxParallelJobs = 1
  MaxRepairAttempts = 3
  MaxIterations = 1
  UsePlanning = FALSE
  HasStore = TRUE
INVARIANT
  StoppedIsNotCompleted
CHECK_DEADLOCK FALSE
