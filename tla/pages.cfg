SPECIFICATION PagesSpec
CONSTANTS
  Spaces = {desk, pod}
  Fixed = {pod}
  Ranges = {am, pm}
  NoSpace = NoSpace
  MaxRequests = 3
  MaxAtWork = 2
  Attributes = {size, color}
  Selects = {color}
  FilterValues = {x}
  NoValue = NoValue
  MaxFilterEdits = 2
  MaxSearches = 2
  NoId = NoId
  Values = {v}
  MaxSeats = 2
  MaxEdits = 2
  MaxSaves = 2
  Tabs = {t1, t2}
  NoPair = NoPair
  MaxSessions = 1
  MaxQueries = 3
  MaxPairs = 2
  Accounts = {a1, a2}
  NoAccount = NoAccount
  Others = {s1}
  This = this
  MaxPrefEdits = 1
  MaxPrefRequests = 2
  MaxPrefOut = 2
  Domains = {d1, d2}
  MaxSettingEdits = 1
  MaxSettingRequests = 2
  MaxSettingOut = 2
  Areas = {A, B}
  NoArea = NoArea
  BookingUsers = {me}
  Self = me
  NoUser = NoUser
  UtcOffsets = {0, 1}
  LastHour = 2
  MaxBookingEdits = 2
  MaxBookingSaves = 2
  MaxBookingOut = 2
  MaxAttempts = 3
  MaxTyping = 2
  Emails = {e1, e2}
  MaxUserEdits = 2
  MaxUserRequests = 2
  MaxUserOut = 1
  Passkeys = {k1, k2}
  MaxFactorRequests = 4
  MaxFactorOut = 2
  Accesses = {r1, r2, r3}
  SettingValues = {v1, v2}
  Unset = Unset
  Uncached = Uncached
  CacheMinutes = 2
  MaxWrites = 3
INVARIANTS
  PagesTypeOK ConfirmsWhatWasChecked OneWriteAtATime ListedIsApplied EditorKeepsTrack
  SessionLimit PreferencesKept SettingsKept BookingIsThePicked FactorIsOfTheAttempt
  UserIsAsSaved FactorsKept CacheIsExplained
PROPERTIES
  StaysLoggedIn PagesRecover
CHECK_DEADLOCK FALSE
