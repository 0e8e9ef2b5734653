SPECIFICATION FairSpec
CONSTANTS
  j1 = j1
  Jobs = {j1}
  NoJob = NoJob
  MaxParallelJobs = 1
  MaxRepairAttempts = 3
  MaxIterations = 1
  UsePlanning = FALSE
  HasStore = TRUE
PROPERTY
  RecoveredJobIsRetried
CHECK_DEADLOCK FALSE
