SPECIFICATION Spec
CONSTANTS
  Accounts = {alice, bob}
  Before = {}
  NoOne = NoOne
  Saves = {s1}
  Deletes = {d1}
  MaxSaves = 1
  MaxSessions = 1
SYMMETRY Symmetry
INVARIANTS
  KeyMatchesTokens
  RowsReadable
  PlaintextBelongs
  ViewFresh
