SPECIFICATION Spec
CONSTANTS
  Null = Null
  alice = alice
  bob = bob
  boss = boss
  desk = desk
  room = room
  b1 = b1
  b2 = b2
  b3 = b3
  Users = {alice, bob, carl}
  Admins <- Nobody
  CalDavUsers <- Nobody
  Approvers <- Nobody
  OnBehalf <- Nobody
  Spaces = {desk, room, booth}
  ApprovalSpaces <- Nobody
  Slots <- ThreeStays
  Times <- Clock3
  Ids = {b1, b2, b3}
  Procs = {p1}
  Workers = {w1}
  MaxPerUser = 1
  MaxUpcoming = 1
  MaxPerArea = 2
  HoursBeforeDelete = 2
  DayLength = 8
  Retention = 1
  Batch = 1
  AdminsExempt = FALSE
SYMMETRY PlainSymmetry
INVARIANT LimitsHold
PROPERTY UpcomingLimitUnlessRevived
