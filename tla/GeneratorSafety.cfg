SPECIFICATION Spec
CONSTANTS
  Shortest = 4
  Longest = 5
INVARIANTS
  EveryGroupOccurs
  ShuffleFair
