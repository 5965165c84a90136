SPECIFICATION FairSpec
CONSTANTS
  m1 = m1
  m2 = m2
  Message = {m1, m2}
  Sensitive <- MCSensitive
  Handler = {h1, h2}
  Backend = {"local", "redis_streams"}
  MaxEvents = 2
  None = None
  Query = {q1}
  SLOTS = 2
  PENDING_DRAIN_BATCH_SIZE = 1
  ENRICHMENT_MAX_ATTEMPTS = 2
INVARIANTS
  TypeOK
  NothingLost
CHECK_DEADLOCK FALSE
PROPERTY EventuallyArchived
