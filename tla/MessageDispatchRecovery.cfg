SPECIFICATION FairSpec
CONSTANTS
  Dispatches = {d1}
  Workers = {w1}
  NoDispatch = NoDispatch
  MaxAttempts = 2
  BatchLimit = 1
  MaxRetries = 0
  MaxFaults = 1
PROPERTY EveryMessageSettles
CHECK_DEADLOCK FALSE
