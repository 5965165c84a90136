CONSTANTS
  MaxSeq = 3
  Arrivals <- MCArrivals
  NoFlight = NoFlight
SPECIFICATION Spec
INVARIANTS
  CompletionReleasesNext
CHECK_DEADLOCK FALSE
