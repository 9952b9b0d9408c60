CONSTANTS
  HysteresisN = 2
  MaxRestarts = 2
  Window = 4
  BackoffBase = 1
  BackoffCap = 2
  RecycleEvery = 2
  CrashThreshold = 2
  CrashWindow = 4
  StallTimeout = 2
  LongPrompts = TRUE
  LaunchFails = TRUE
  OperatorStarted = FALSE
  MaxFaults = 2
  MaxJobs = 3
  MaxResumes = 0
SPECIFICATION FairSpec
PROPERTIES ComfyComesBack
CHECK_DEADLOCK FALSE
