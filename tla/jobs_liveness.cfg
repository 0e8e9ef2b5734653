SPECIFICATION FairSpec
CONSTANTS
  j1 = j1
  j2 = j2
  Jobs = {j1, j2}
  NoJob = NoJob
  MaxParallelJobs = 1
  MaxRepairAttempts = 1
  MaxIterations = 1
  UsePlanning = TRUE
  HasStore = FALSE
PROPERTIES
  SlotIsFreed
  StuckIsAnswered
CHECK_DEADLOCK FALSE
