CONSTANTS
  NoPrompt = NoPrompt
  NoAsset = NoAsset
  QcMaxRetries <- MCQcMaxRetries
  Workers = {w1, w2}
  Assets = {1, 2}
  PromptIds = {p1, p2}
  TemporaryRetries = 1
  UnknownRetries = 0
  CrashLimit = 1
  PostTries = 2
  Faults = {"timeout", "refused"}
  ApproveWhileRunning = FALSE
  MaxKills = 1
  MaxHalts = 0
  MaxComfyRestarts = 0
  MaxApprovals = 0
SPECIFICATION Spec
SYMMETRY MCSymmetry
INVARIANTS SoleOwner RecordedPromptIsAwaited FinishedMeansDone
PROPERTIES FinishedIsFinal
