SPECIFICATION Spec
CONSTANTS
  Students = {ann, bob, cat, dan}
  Capacity = 1
  Workers = {w1}
  MaxEntries = 4
  NoEntry = NoEntry
CHECK_DEADLOCK FALSE
PROPERTIES
  FirstInQueueFirst
