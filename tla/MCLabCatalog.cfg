SPECIFICATION Spec
CONSTANTS
  ann = ann
  bob = bob
  head = head
  adm = adm
  teacher = teacher
  g1 = g1
  g2 = g2
  A = A
  B = B
  r1 = r1
  r2 = r2
  c1 = c1
  c2 = c2
  stand = stand
  Students = {ann, bob}
  Staff = {head, adm, teacher}
  Groups = {g1, g2}
  NoGroup = NoGroup
  Disciplines = {1, 2}
  Works = {A, B}
  Rooms = {r1, r2}
  Labs = {1, 2}
  NoLab = NoLab
  Centers = {c1, c2}
  NoCenter = NoCenter
  NoStand = NoStand
  ActiveDisciplines = {1, 2}
  GroupOf <- MCGroupOf
  Plan <- MCPlan
  PlanWorks <- MCPlanWorks
  LoadAtFirst <- MCLoad
  DisciplinesAtFirst <- MCDisciplines
  BoundAtFirst <- MCBound
  RoomLabAtFirst <- MCRoomLab
  LabsOfWork <- MCLabsOfWork
  CenterOfLab <- MCCenterOfLab
  CenterOfRoom <- MCCenterOfRoom
  Role <- MCRole
  LabOf <- MCLabOf
  CenterOf <- MCCenterOf
  SameFaculty <- MCSameFaculty
  SeptemberFirsts <- MCSeptemberFirsts
  HorizonDays = 2
  CancelHours = 24
  WorkingWeeks = 1
  Settings <- MCSettings
  Moments <- MCMoments
  SizeAtFirst <- MCSizeAtFirst
  Sizes <- MCSizes
  RoomCapAtFirst <- MCRoomCap
  RoomCapacities = {1, 2}
  PrimaryStand <- MCStand
  Entries <- MCEntries
  ExcludedRooms = {}
  Weeks = 1
  HolidayDates = {8}
  MaxChanges = 2
INVARIANTS
  TypeOK
  OffersAreHonoured
  AcceptedIsOffered
  SeatsShownCanBeTaken
  WizardIsHonoured
  ManualBookingInScope
PROPERTIES
  GeneratedIsBookable
