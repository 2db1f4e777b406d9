SPECIFICATION Spec
CONSTANTS
  b1 = b1
  b2 = b2
  b3 = b3
  s1 = s1
  ann = ann
  NoAccount = NoAccount
  NoCall = NoCall
  Bookings = {b1, b2, b3}
  Sessions = {s1}
  SessionOf <- MCSessionOf
  Accounts = {ann}
  AccountOf <- MCAccountOf
  Threshold = 2
  Staff = {clerk, head}
  Jobs = {job}
PROPERTIES
  JobMarksBookedOnly
