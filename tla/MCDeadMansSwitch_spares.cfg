CONSTANTS
  Ceiling = 14
  Stale = 7
  Grace = 5
  TimerEvery = 2
  Interval = 2
  RestartSec = 1
  BootDelay = 2
  StartTime = 2
  MaxSilence = 2
  MaxCrashes = 2
  MaxReboots = 1
  MaxStops = 1
SPECIFICATION FairSpec
INVARIANTS HealthyIsSpared
PROPERTIES DeadIsTerminated
CHECK_DEADLOCK FALSE
