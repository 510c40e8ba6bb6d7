SPECIFICATION MCSpec
CONSTANTS
  u1 = u1
  u2 = u2
  p1 = p1
  p2 = p2
  r1 = r1
  r2 = r2
  o1 = o1
  o2 = o2
  o3 = o3
  None = None
  Users = {u1, u2}
  Procs = {p1, p2}
  Rids = {r1, r2}
  OrderIds = {o1, o2, o3}
  Products = {"pro_monthly", "max_monthly"}
  Wave1 = 1
  Wave2 = 1
  TTL = 1
  Settle = 1
  MaxNow = 2
  MaxVersion = 2
  Changes <- CampaignEdits
  Scenes = {"slots", "orders", "page"}
SYMMETRY Symmetry
INVARIANTS
  TypeOK
  SlotsExclusive
  MembersPaid
  SingleDispatch
  OrdersBacked
  OneIntroduction
  CapturesSettle
PROPERTIES
  SlotPromise
  CountersHonest
