SPECIFICATION MCSpec
CONSTANTS
  h1 = h1
  h2 = h2
  m1 = m1
  m2 = m2
  r1 = r1
  r2 = r2
  None = None
  Mandates = {m1, m2}
  TotalCount = 2
  CycleLen = 2
  Troubles = {"deleting"}
  Grace = {1}
  MaxGrace = 1
  Horizon = 4
  Handlers = {h1, h2}
  RefundIds = {r1, r2}
  Price = 2
  Scenes = {"mandates"}
SYMMETRY Symmetry
PROPERTY PaidCyclesCount
CHECK_DEADLOCK FALSE
