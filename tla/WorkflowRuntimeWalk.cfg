SPECIFICATION FairSpec
CONSTANTS
  Execs = {x1}
  Workers = {w1, w2}
  Nobody = Nobody
  Nodes = {1, 2, 3, 4}
  Kind <- BranchKind
  Follows <- BranchFollows
  MaxAttempts = 2
  MaxRetries = 2
  MaxControls = 0
  MaxFlips = 1
  MaxFaults = 1
INVARIANTS TypeOK NothingSkipped
PROPERTY EveryExecutionEnds
CHECK_DEADLOCK FALSE
