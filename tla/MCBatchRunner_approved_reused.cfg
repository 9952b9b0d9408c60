CONSTANTS
  NoPrompt = NoPrompt
  NoAsset = NoAsset
  QcMaxRetries <- MCQcMaxRetries
  Workers = {w1, w2}
  Assets = {1}
  PromptIds = {p1, p2, p3}
  TemporaryRetries = 0
  UnknownRetries = 0
  CrashLimit = 1
  PostTries = 2
  Faults = {}
  ApproveWhileRunning = FALSE
  MaxKills = 1
  MaxHalts = 0
  MaxComfyRestarts = 0
  MaxApprovals = 1
SPECIFICATION Spec
INVARIANTS ApprovedIsRegenerated
