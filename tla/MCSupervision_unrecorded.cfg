CONSTANTS
  HysteresisN = 2
  MaxRestarts = 2
  Window = 4
  BackoffBase = 1
  BackoffCap = 2
  RecycleEvery = 2
  CrashThreshold = 2
  CrashWindow = 4
  StallTimeout = 2
  LongPrompts = FALSE
  LaunchFails = FALSE
  OperatorStarted = TRUE
  MaxFaults = 2
  MaxJobs = 3
  MaxResumes = 1
SPECIFICATION Spec
CHECK_DEADLOCK FALSE
PROPERTIES RestartIsRecorded
