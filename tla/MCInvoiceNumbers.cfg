SPECIFICATION InvSpec
CONSTANTS
  h1 = h1
  h2 = h2
  i1 = i1
  i2 = i2
  i3 = i3
  t1 = t1
  Invs = {i1, i2, i3}
  Payments = {t1}
  Requests = {h1, h2}
  Cents <- MCCents
  Series = FALSE
INVARIANT
  NumberedOnce
