CONSTANTS
  p1 = p1
  p2 = p2
  Process = {p1, p2}
  Nobody = Nobody
  MaxTokens = 4
  MaxFaults = 0
SPECIFICATION Spec
INVARIANTS
  MutualExclusion
CHECK_DEADLOCK FALSE
