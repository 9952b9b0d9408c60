CONSTANTS
  TemporaryRetries = 2
  UnknownRetries = 1
  QcMaxRetries <- MCQcMaxRetries
  FrameCount = 3
  WithConsistency = TRUE
  PostTries = 2
  GpuBudget = 1
SPECIFICATION FairSpec
INVARIANTS SavedIsSound OneCallPerKey SubmissionsBounded
PROPERTIES ClaimEnds
CHECK_DEADLOCK FALSE
