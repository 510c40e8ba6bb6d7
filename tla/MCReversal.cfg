SPECIFICATION MCSpec
CONSTANTS
  h1 = h1
  h2 = h2
  m1 = m1
  m2 = m2
  r1 = r1
  r2 = r2
  None = None
  Mandates = {m1, m2}
  TotalCount = 2
  CycleLen = 2
  Troubles = {"deleting"}
  Grace = {0, 1}
  MaxGrace = 1
  Horizon = 4
  Handlers = {h1, h2}
  RefundIds = {r1, r2}
  Price = 2
  Scenes = {"mandates", "workers", "refunds", "terms"}
SYMMETRY Symmetry
INVARIANTS
  RefundTypeOK
  AccessAsPaid
  StopIsFinal
  DebtIsHonest
  RefundsOnRecord
PROPERTIES
  PaidTerms
  GraceFixed
  SentOnce
CHECK_DEADLOCK FALSE
