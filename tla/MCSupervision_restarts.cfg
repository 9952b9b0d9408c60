CONSTANTS
  HysteresisN = 2
  MaxRestarts = 2
  Window = 9
  BackoffBase = 1
  BackoffCap = 2
  RecycleEvery = 2
  CrashThreshold = 2
  CrashWindow = 4
  StallTimeout = 2
  LongPrompts = TRUE
  LaunchFails = TRUE
  OperatorStarted = TRUE
  MaxFaults = 1
  MaxJobs = 2
  MaxResumes = 1
SPECIFICATION FairSpec
INVARIANTS RestartIntensity NeverOnOneSample
PROPERTIES TrickleIsForgiven HeldEndsTheRun ComfyRecovers
CHECK_DEADLOCK FALSE
