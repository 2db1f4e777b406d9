SPECIFICATION Spec
CONSTANTS
  r1 = r1
  r2 = r2
  r3 = r3
  a1 = a1
  A = A
  B = B
  C = C
  X = X
  Y = Y
  noStand = noStand
  stand = stand
  NoProc = NoProc
  Sessions = {1, 2, 3, 4}
  LabWorks = {A, B, C}
  Rooms = {X, Y}
  NoStand = noStand
  StartsAt <- MCStartsAt
  EndsAt <- MCEndsAt
  LabWorkOf <- MCLabWorkOf
  RoomOf <- MCRoomOf
  PrimaryStand <- MCPrimaryStand
  Capacity <- MCCapacity
  LabWorkCapacity <- MCLabWorkCapacity
  RoomCapacity <- MCRoomCapacity
  Requests = {r1, r2, r3}
  RequestData <- MCRequestData
  Cancellers = {a1}
  Outcomes = {"VISITED"}
SYMMETRY Symmetry
INVARIANTS
  TypeOK
  SlotNeverOverbooked
  LabWorkNeverOverbooked
  SharedRoomNeverOverbooked
  StandNeverShared
  NoLockCycle
  PassedChecksStayTrue
PROPERTIES
  BooksLikeSeatAllocation
  CancelTakesEveryBooking
