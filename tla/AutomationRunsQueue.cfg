SPECIFICATION Spec
CONSTANTS
  Runs = {r1, r2}
  Workers = {w1, w2}
  NoRun = NoRun
  MaxAttempts = 1
  BatchLimit = 2
  LeaseCovers = "single"
  MaxFaults = 0
INVARIANT DuplicateOnlyInGap
CHECK_DEADLOCK FALSE
