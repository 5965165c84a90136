CONSTANTS
  MaxSeq = 4
  Arrivals <- MCArrivals
  NoFlight = NoFlight
SPECIFICATION Spec
INVARIANTS
  TypeOK
  WatermarkSound
  NoOvertake
  WatermarkExact
  OnlyKnownStrandings
CHECK_DEADLOCK FALSE
