SPECIFICATION Spec
CONSTANTS
  Null = Null
  b1 = b1
  b2 = b2
  b3 = b3
  b4 = b4
  s1 = s1
  s2 = s2
  p1 = p1
  p2 = p2
  Ids = {b1, b2, b3, b4}
  SeriesIds = {s1, s2}
  Procs = {p1}
  Recurrences <- TwoSeries
  Days <- MoveTo
  Times <- Clock
  MaxUpcoming = 2
  Retention = 1
  RetentionEnabled = FALSE
  CalDav = FALSE
SYMMETRY RecurringSymmetry
CHECK_DEADLOCK FALSE
INVARIANT TypeOK
INVARIANT NoDanglingLink
INVARIANT PrecheckPromisesHold
