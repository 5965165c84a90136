SPECIFICATION Spec
CONSTANTS
  Note = {n1}
  n1 = n1
  q1 = q1
  Question = {q1}
  Card = {c1, c2, c3}
  Run = {r1, r2}
  Worker = {w1, w2}
  FACT_MEMORY_BATCH_SIZE = 1
  a = a
  b = b
  c = c
  Statement = {a, b, c}
  Overlap <- Contained
  Fact <- Facts
  Ingested <- FirstFacts
  Organised <- FirstCards
  c1 = c1
  MaxEvents = 4
  NoRun = NoRun
  NoTx = NoTx
SYMMETRY Symmetry
INVARIANTS
  TypeOK
  DerivedRestsOnActiveFacts
  EditedEvidenceExclusive
PROPERTIES
  ForgottenStaysForgotten
  OneConsumer
CHECK_DEADLOCK FALSE
