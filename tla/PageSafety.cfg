SPECIFICATION FairSpec
CONSTANTS
  Ids = {e1}
  Saves = {s1}
INVARIANTS
  TypeOK
  FailureShown
  GridShowsEntries
  OnePane
  VaultViewCleared
PROPERTIES
  SpinnerStops
