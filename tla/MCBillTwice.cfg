SPECIFICATION MCSpec
CONSTANTS
  o1 = o1
  w1 = w1
  w2 = w2
  None = None
  Ops = {o1}
  Window <- MCWindow
  Occurrences = 1
  RowIds = {1, 2}
  Writers = {w1, w2}
INVARIANT
  OccurrenceOnce
CHECK_DEADLOCK FALSE
