SPECIFICATION FairSpec
CONSTANTS
  Requests = {r1, r2, r3}
  Ips = {i1}
  Absent = Absent
  MaxRequests = 1
  Window = 0
  Capacity = 3
  MaxClock = 1
INVARIANTS
  WindowBound
  RejectionJustified
PROPERTIES
  Answered
