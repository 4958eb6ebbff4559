SPECIFICATION FairSpec
CONSTANTS
  Events = {1}
  Aggregate <- OneAggregate
  Workers = {w1}
  Nobody = Nobody
  MaxRetries = 2
  MaxAttempts = 2
  RecoverEachCycle = FALSE
  PublishCovers = FALSE
  LeaseCovers = TRUE
  MaxFaults = 1
PROPERTY BacklogDrains
CHECK_DEADLOCK FALSE
