CONSTANTS
  w1 = w1
  w2 = w2
  Worker = {w1, w2}
  Nobody = Nobody
  DELIVERY_MAX_ATTEMPTS = 3
  WORKER_MAX_ATTEMPTS = 5
  MaxFaults = 3
SPECIFICATION Spec
PROPERTIES
  SentNeverResent
CHECK_DEADLOCK FALSE
