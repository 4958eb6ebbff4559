SPECIFICATION FairSpec
CONSTANTS
  Dispatches = {d1, d2}
  Workers = {w1, w2}
  NoDispatch = NoDispatch
  MaxAttempts = 2
  BatchLimit = 2
  MaxRetries = 1
  MaxFaults = 1
INVARIANTS TypeOK DuplicateOnlyAfterLoss MessageAgrees QueuedHasAttempts StrandedHasCause
PROPERTIES KeepsFate SettlesUnlessStranded
CHECK_DEADLOCK FALSE
