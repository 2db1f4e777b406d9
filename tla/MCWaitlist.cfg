SPECIFICATION FairSpec
CONSTANTS
  Students = {ann, bob}
  Capacity = 2
  Workers = {w1, w2}
  MaxEntries = 3
  NoEntry = NoEntry
CHECK_DEADLOCK FALSE
INVARIANTS
  TypeOK
  NeverFurtherBack
PROPERTIES
  NobodyLeavesSilently
  EveryPromotionEnds
