SPECIFICATION FairSpec
CONSTANTS
  Worker = {w1, w2}
  a = a
  k1 = k1
  k2 = k2
  m0 = m0
  Candidate = {a}
  Key = {k1, k2}
  KeyOf <- Keys
  Memory = {m0, m1, m2}
  Known = {m0}
  KnownKey <- KnownKeys
  MaxEvents = 2
  None = None
INVARIANTS
  TypeOK
  AppliedOnce
  CompletedMeansSettled
PROPERTIES
  MutatesLiveTargets
  ExtractionSettles
