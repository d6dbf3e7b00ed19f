SPECIFICATION Spec
CONSTANTS
  LastMinute = 6
  MaxBook = 3
  Weeks = 5
  MaxCycle = 3
  MaxDays = 3
  Sorted = TRUE
  MaxOfDay = 2
  Minute = 2
  HalfHour = 1
  Hour = 2
  None = None
CHECK_DEADLOCK FALSE
INVARIANT QueriesSelectOverlaps
INVARIANT ConcurrentSamplesPeak
INVARIANT BooksTheOccurrences
INVARIANT DayStatusIsTrue
