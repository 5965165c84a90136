CONSTANTS
  root = root
  Task <- MCTask
  Worker = {w1, w2}
  Parent <- MCParent
  NoTask = NoTask
  NoLease = NoLease
  MaxAttempts = 1
  MaxClaims = 4
  OutboxMaxAttempts = 2
  MaxDefers = 1
  MaxFaults = 2
SPECIFICATION PipelineSpec
INVARIANTS
  PipelineTypeOK
  OnlyKnownLosses
  DuplicatesAreFaults
PROPERTIES
  ImplementsLease
  EventuallySettled
CHECK_DEADLOCK FALSE
