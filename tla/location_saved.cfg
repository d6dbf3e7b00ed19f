SPECIFICATION EditorSpec
CONSTANTS
  NoId = NoId
  Values = {v}
  MaxSeats = 2
  MaxEdits = 3
  MaxSaves = 2
INVARIANT SavedMeansStored
CHECK_DEADLOCK FALSE
