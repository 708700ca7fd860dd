SPECIFICATION FairSpec
CONSTANTS
  Accounts = {alice}
  Before = {alice}
  NoOne = NoOne
  Saves = {s1, s2}
  Deletes = {}
  MaxSaves = 2
  MaxSessions = 0
PROPERTIES
  HandlersEnd
  NewestKept
