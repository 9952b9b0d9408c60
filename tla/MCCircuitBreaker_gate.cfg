CONSTANTS
  MCBad = bad
  MCGood = good
  Workers = {w1, w2}
  Partitions = {bad, good}
  NoPartition = NoPartition
  ErrorClasses = {oom, missing}
  Threshold = 2
  BaseCooldown = 1
  Claims <- MCClaimsTwo
  MaxRounds = 1
SPECIFICATION FairSpec
INVARIANTS ClosedBelowThreshold HalfOpenIsWatched
PROPERTIES HalfOpenAdmitsOne EveryClaimEnds
CHECK_DEADLOCK FALSE
