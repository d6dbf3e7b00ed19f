SPECIFICATION Spec
CONSTANTS
  Null = Null
  alice = alice
  bob = bob
  boss = boss
  desk = desk
  room = room
  b1 = b1
  b2 = b2
  b3 = b3
  Users = {alice, boss}
  Admins <- Bosses
  CalDavUsers <- Nobody
  Approvers <- Bosses
  OnBehalf <- Nobody
  Spaces = {desk, room}
  ApprovalSpaces = {room}
  Slots <- OneStay
  Times <- Clock0
  Ids = {b1, b2}
  Procs = {p1, p2}
  Workers = {w1}
  MaxPerUser = 0
  MaxUpcoming = 3
  MaxPerArea = 0
  HoursBeforeDelete = 0
  DayLength = 8
  Retention = 1
  Batch = 1
  AdminsExempt = FALSE
SYMMETRY BookingSymmetry
INVARIANT ApprovedOnlyIfGranted
PROPERTY ClashOnlyFromStaleView
