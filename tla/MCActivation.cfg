SPECIFICATION Spec
CONSTANTS
  u1 = u1
  w1 = w1
  w2 = w2
  p1 = p1
  p2 = p2
  e1 = e1
  e2 = e2
  e3 = e3
  None = None
  Users = {u1}
  Workers = {w1, w2}
  Payments = {p1, p2}
  Events = {e1, e2, e3}
  Buyer <- SameBuyer
  Of <- Announced
  Batch = 2
  Rest = 1
SYMMETRY Symmetry
INVARIANTS
  TypeOK
  OneGrant
  ProcessedGranted
PROPERTIES
  TerminalReceipts
  GrantsOnlyEntitled
