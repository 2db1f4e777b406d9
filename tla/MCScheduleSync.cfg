SPECIFICATION Spec
CONSTANTS
  A = A
  B = B
  Slots = {1, 2, 3}
  DayOf <- MCDayOf
  WorkOf <- MCWorkOf
  Days = {1, 2}
  Works = {A, B}
  Entries = {1, 2, 3}
  NoEntry = NoEntry
  NoWorker = NoWorker
  Capacities = {1, 2}
  Forms <- MCForms
  FarAtFirst = {2}
  WorkCapAtFirst <- MCWorkCap
  Workers = {w1, w2}
  MaxRequests = 2
SYMMETRY WorkerSymmetry
CHECK_DEADLOCK FALSE
INVARIANTS
  TypeOK
  NoOrphans
  CapacityFromEntry
  BlockedRoomIsEmpty
PROPERTIES
  CancelledStaysCancelled
