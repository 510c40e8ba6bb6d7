SPECIFICATION Spec
CONSTANTS
  o1 = o1
  o2 = o2
  w1 = w1
  a1 = a1
  a2 = a2
  b1 = b1
  h1 = h1
  h2 = h2
  i1 = i1
  i2 = i2
  t1 = t1
  c1 = c1
  c2 = c2
  p1 = p1
  p2 = p2
  None = None
  Nobody = Nobody
  Ops = {o1, o2}
  Window <- MCWindow
  Occurrences = 1
  RowIds = {1, 2, 3}
  Writers = {w1}
  Workers = {a1, a2}
  Tabs = {b1}
  MaxJobs = 1
  Invs = {i1, i2}
  Payments = {t1}
  Requests = {h1, h2}
  Cents <- MCCents
  Series = TRUE
  Actions = {c1, c2}
  Presses = {p1, p2}
  Cap = 1
INVARIANTS
  TypeOK
  CountedOnce
  OccurrenceOnce
  SyncsApart
  QueueAgrees
  ApprovedOnce
PROPERTIES
  NothingLost
  NeverReasked
SYMMETRY Sym
CHECK_DEADLOCK FALSE
