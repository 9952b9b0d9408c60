CONSTANTS
  MCBad = bad
  MCGood = good
  Workers = {w1, w2}
  Partitions = {bad, good}
  NoPartition = NoPartition
  ErrorClasses = {oom}
  Threshold = 1
  BaseCooldown = 1
  Claims <- MCClaimsTwo
  MaxRounds = 1
SPECIFICATION FairSpec
PROPERTIES HealthyPartitionFinishes
CHECK_DEADLOCK FALSE
