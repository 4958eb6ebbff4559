CONSTANTS
  NoTxn = NoTxn
  Txns <- TwoTxns
  Links = {l1, l2}
  Refunders = {r1, r2}
  Total = 3
  Unit = 2
  MaxRefunds = 2
  MaxFaults = 1
CHECK_DEADLOCK FALSE
SPECIFICATION FairSpec
INVARIANTS TypeOK SettledIsCaptured StatusMatchesRefunds BookedRefundsWereAccepted
PROPERTY CaptureIsRecorded
