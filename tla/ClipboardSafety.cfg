SPECIFICATION FairSpec
CONSTANTS
  Copies = {c1, c2}
  Empty = Empty
  Other = Other
  CLEAR = 3
  MaxLate = 1
  LastWrite = 4
INVARIANTS
  ClearedInTime
PROPERTIES
  EventuallyCleared
