SPECIFICATION Spec
CONSTANTS
  Execs = {x1}
  Workers = {w1, w2}
  Nobody = Nobody
  Nodes = {1, 2, 3, 4}
  Kind <- PauseKind
  Follows <- PauseFollows
  MaxAttempts = 2
  MaxRetries = 2
  MaxControls = 2
  MaxFlips = 0
  MaxFaults = 0
SYMMETRY Symmetry
INVARIANT NotStranded
PROPERTIES ProgressIsMonotone OwnerDecides
CHECK_DEADLOCK FALSE
