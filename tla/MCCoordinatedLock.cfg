CONSTANTS
  p1 = p1
  p2 = p2
  p3 = p3
  Process = {p1, p2, p3}
  Nobody = Nobody
  MaxTokens = 4
  MaxFaults = 2
SPECIFICATION Spec
INVARIANTS
  TypeOK
  OverlapIsDegraded
PROPERTIES
  KeyIsOwn
  WaitEnds
CHECK_DEADLOCK FALSE
