CONSTANTS
  NoTxn = NoTxn
  Txns <- TwoTxns
  Links = {l1, l2}
  Refunders = {r1, r2}
  Total = 2
  Unit = 1
  MaxRefunds = 2
  MaxFaults = 1
CHECK_DEADLOCK FALSE
SPECIFICATION Spec
INVARIANT OneOpenSession
