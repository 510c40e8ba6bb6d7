SPECIFICATION Spec
CONSTANTS
  j1 = j1
  j2 = j2
  x1 = x1
  x2 = x2
  o1 = o1
  o2 = o2
  before = before
  after = after
  None = None
  Subject = u1
  Jobs = {j1, j2}
  Executors = {x1, x2}
  Objects = {o1, o2}
  Requirements = {before, after}
  PostPrimary = {after}
  MaxVersion = 4
SYMMETRY Symmetry
INVARIANTS
  TypeOK
  PurgeComesFirst
  PurgedAsReviewed
  HoldRespected
  NothingLeftBehind
  AttestedInOrder
PROPERTY FencesAccount
CHECK_DEADLOCK FALSE
