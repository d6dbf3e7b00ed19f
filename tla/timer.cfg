SPECIFICATION TimerSpec
CONSTANTS
  boss = boss
  desk = desk
  Recipients = {boss, desk}
  MaxDay = 2
  MaxFailures = 3
  Miss = Miss
  Handlers = {h1, h2}
  Passwords = {p1, p2}
  NoPassword = NoPassword
  NoBan = NoBan
  LoginProtectionMaxFails = 2
  LoginProtectionBanMinutes = 1
  LoginProtectionWindow = 2
  MaxFailed = 3
  MaxPasskeyFails = 1
CHECK_DEADLOCK FALSE
INVARIANT TimerTypeOK
INVARIANT DoneMeansMailed
INVARIANT RepeatsOnlyAfterFailure
INVARIANT AccountIsKept
PROPERTY TimerDoesItsWork
