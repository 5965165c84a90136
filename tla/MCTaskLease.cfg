CONSTANTS
  root = root
  dependent = dependent
  Task <- MCTask
  Worker = {w1, w2}
  Parent <- MCParent
  NoTask = NoTask
  NoLease = NoLease
  MaxAttempts = 2
  MaxClaims = 3
SPECIFICATION Spec
INVARIANTS
  TypeOK
  AttemptLedger
  FailureBudget
  SingleOwner
PROPERTIES
  SettledForGood
  AttemptsWriteOnce
  ImplementsQueue
SYMMETRY MCSymmetry
CHECK_DEADLOCK FALSE
