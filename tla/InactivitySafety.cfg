SPECIFICATION FairSpec
CONSTANTS
  INACTIVITY = 4
  WARNING = 3
  MaxLate = 1
  LastInput = 5
INVARIANTS
  TimersOfSession
  IdleBound
  CountdownHonest
PROPERTIES
  FairlyWarned
  IdleSessionEnds
