SPECIFICATION FairSpec
CONSTANTS
  Users = {alice, bob}
  Requests = {r1, r2, r3}
  None = None
  MaxId = 1
  MaxCrashes = 1
INVARIANTS
  OwnerOnly
  AcknowledgedDelete
PROPERTIES
  Implements
  DeletedForGood
  Answered
