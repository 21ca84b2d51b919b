SPECIFICATION Spec
CONSTANTS
  Jobs <- WorkloadJobs
  Plan <- WorkloadStages
  Endings <- WorkloadEndings
  MaxStages = 13
  MaxAttempts = 3
INVARIANT TypeOK
INVARIANT InputsReady
INVARIANT RefusalStands
PROPERTY ProgressNeverGoesBack
PROPERTY RunSpec
CHECK_DEADLOCK FALSE
