SPECIFICATION Spec
CONSTANTS
  ann = ann
  admin = admin
  stranger = stranger
  c1 = c1
  c2 = c2
  r1 = r1
  r2 = r2
  Tickets = {1}
  Students = {ann}
  Staff = {admin, stranger}
  Centers = {c1, c2}
  Reachable <- MCReachable
  CenterOf <- MCCenterOf
  Everywhere = Everywhere
  Requests = {r1, r2}
  DayLength = 4
  Patience = 4
  Start = 17
  MaxNow = 33
  MaxRequests = 4
SYMMETRY ThreadSymmetry
CHECK_DEADLOCK FALSE
INVARIANTS
  TypeOK
  UnseenIsUnread
  UnansweredIsOpen
  OverdueAfterADay
PROPERTIES
  OverdueEndsByStaff
