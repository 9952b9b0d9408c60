CONSTANTS
  NoPrompt = NoPrompt
  NoAsset = NoAsset
  QcMaxRetries <- MCQcMaxRetries
  Workers = {w1, w2}
  Assets = {1}
  PromptIds = {p1, p2}
  TemporaryRetries = 1
  UnknownRetries = 1
  CrashLimit = 1
  PostTries = 2
  Faults = {"timeout", "refused", "reply_lost", "bad_output", "judge_down"}
  ApproveWhileRunning = FALSE
  MaxKills = 2
  MaxHalts = 1
  MaxComfyRestarts = 1
  MaxApprovals = 0
SPECIFICATION Spec
SYMMETRY MCSymmetry
INVARIANTS CleanExitLeavesNothingInFlight AttemptsBounded CrashCountHonest SavedHasItsImage OneGenerationAtATime
PROPERTIES ImplementsLifecycle
