SPECIFICATION FairSpec
CONSTANTS
  Accounts = {alice}
  Before = {}
  NoOne = NoOne
  Saves = {s1}
  Deletes = {d1}
  MaxSaves = 1
  MaxSessions = 1
PROPERTIES
  RefreshOnExpiry
