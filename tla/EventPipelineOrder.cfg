SPECIFICATION FairSpec
CONSTANTS
  Events = {1, 2}
  Aggregate <- OneAggregate
  Workers = {w1, w2}
  Nobody = Nobody
  MaxRetries = 2
  MaxAttempts = 3
  RecoverEachCycle = TRUE
  PublishCovers = FALSE
  LeaseCovers = TRUE
  MaxFaults = 2
INVARIANTS TypeOK ClaimedInOrder EffectsInOrder GivenUpOnlyAtLimit NothingLost RepeatedOnlyAfterFault
PROPERTIES DeliversInOrder BacklogDrains
CHECK_DEADLOCK FALSE
