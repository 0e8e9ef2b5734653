SPECIFICATION Spec
CONSTANTS
  j1 = j1
  j2 = j2
  Jobs = {j1, j2}
  NoJob = NoJob
  MaxParallelJobs = 1
  MaxRepairAttempts = 1
  MaxIterations = 1
  UsePlanning = FALSE
  HasStore = TRUE
SYMMETRY JobSymmetry
INVARIANTS
  IInv
  WorkersBounded
  InProgressIsWorkedOn
  PersistedOutcomeIsReal
PROPERTIES
  BoardSpec
  NoSecondWorker
CHECK_DEADLOCK FALSE
