SPECIFICATION Spec
CONSTANTS
  Jobs <- WorkloadJobs
  Plan <- WorkloadStages
  Endings <- WorkloadEndings
  MaxStages = 13
  MaxAttempts = 3
INVARIANT RefusalFailsTheStage
CHECK_DEADLOCK FALSE
