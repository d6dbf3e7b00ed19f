SPECIFICATION Spec
CONSTANTS
  Locations = {l1, l2}
  Whens <- TwoPeriods
  Searchable <- TwoPeriods
  Now <- Today
  InitDates <- ToTomorrow
  Preferred = None
  None = None
  MaxCalls = 4
  MaxOpen = 2
CHECK_DEADLOCK FALSE
INVARIANT SettledIsCurrent
PROPERTY ShowsTheSelection
PROPERTY LoadingEnds
