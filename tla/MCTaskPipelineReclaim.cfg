CONSTANTS
  root = root
  Task <- MCTask
  Worker = {w1, w2}
  Parent <- MCParent
  NoTask = NoTask
  NoLease = NoLease
  MaxAttempts = 2
  MaxClaims = 5
  OutboxMaxAttempts = 2
  MaxDefers = 1
  MaxFaults = 2
SPECIFICATION PipelineSpec
INVARIANTS
  TimedOutIsReclaimable
CHECK_DEADLOCK FALSE
