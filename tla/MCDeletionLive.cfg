SPECIFICATION FairSpec
CONSTANTS
  j1 = j1
  j2 = j2
  x1 = x1
  x2 = x2
  o1 = o1
  o2 = o2
  before = before
  after = after
  None = None
  Subject = u1
  Jobs = {j1}
  Executors = {x1, x2}
  Objects = {o1, o2}
  Requirements = {before, after}
  PostPrimary = {after}
  MaxVersion = 1
PROPERTY CleanupFinishes
CHECK_DEADLOCK FALSE
