SPECIFICATION CreateDeleteSpec
CONSTANTS
  Null = Null
  b1 = b1
  b2 = b2
  b3 = b3
  b4 = b4
  s1 = s1
  s2 = s2
  p1 = p1
  p2 = p2
  Ids = {b1, b2, b3}
  SeriesIds = {s1, s2}
  Procs = {p1, p2}
  Recurrences <- TwoSeries
  Days <- MoveTo
  Times <- Clock
  MaxUpcoming = 5
  Retention = 1
  RetentionEnabled = TRUE
  CalDav = TRUE
SYMMETRY RecurringSymmetry
CHECK_DEADLOCK FALSE
INVARIANT NoOrphanSeries
INVARIANT DeletedSeriesLeavesNoFuture
