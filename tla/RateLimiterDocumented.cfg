SPECIFICATION Spec
CONSTANTS
  Requests = {r1, r2, r3}
  Ips = {i1}
  Absent = Absent
  MaxRequests = 1
  Window = 2
  Capacity = 17
  MaxClock = 3
SYMMETRY Symmetry
INVARIANT DocumentedLimit
