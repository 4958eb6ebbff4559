SPECIFICATION FairSpec
CONSTANTS
  Runs = {r1}
  Workers = {w1, w2}
  NoRun = NoRun
  MaxAttempts = 3
  BatchLimit = 1
  LeaseCovers = "batch"
  MaxFaults = 2
INVARIANTS TypeOK HeldExclusively OutcomeIsRecorded DuplicateOnlyInGap UnfinishedHasAttempts
PROPERTIES TerminalIsFinal KeepsFate EveryRunSettles
CHECK_DEADLOCK FALSE
