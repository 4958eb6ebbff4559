SPECIFICATION Spec
CONSTANTS
  Execs = {x1}
  Workers = {w1}
  Nobody = Nobody
  Nodes = {1}
  Kind <- OneKind
  Follows <- OneFollows
  MaxAttempts = 2
  MaxRetries = 2
  MaxControls = 1
  MaxFlips = 1
  MaxFaults = 0
PROPERTY OwnerDecides
CHECK_DEADLOCK FALSE
