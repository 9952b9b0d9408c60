CONSTANTS
  NoPrompt = NoPrompt
  NoAsset = NoAsset
  QcMaxRetries <- MCQcMaxRetries
  Workers = {w1, w2}
  Assets = {1}
  PromptIds = {p1, p2}
  TemporaryRetries = 0
  UnknownRetries = 0
  CrashLimit = 0
  PostTries = 2
  Faults = {"refused", "bad_graph", "await_error"}
  ApproveWhileRunning = TRUE
  MaxKills = 0
  MaxHalts = 1
  MaxComfyRestarts = 0
  MaxApprovals = 1
SPECIFICATION FairSpec
INVARIANTS InFlightHasWorker
PROPERTIES HaltEndsTheRun
