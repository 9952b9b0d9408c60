CONSTANTS
  Titles = {"failure", "restarted"}
  Threads = 1
  MaxAlerts = 4
  MayBeKilled = TRUE
SPECIFICATION FairSpec
INVARIANTS EveryAlertIsInOnePlace BufferedIsSentBeforeExit
PROPERTIES AlertsGoOut
CHECK_DEADLOCK FALSE
