SPECIFICATION VaultSpec
CONSTANTS
  Requests = {r1, r2, r3, r4}
  Emails = {ann, ben}
  Passwords = {p, q}
  None = None
  Texts = {t}
  NoText = NoText
  IVs = {i}
  Failed = Failed
  MaxRows = 1
  MaxSaves = 1
  Tabs = {u, v}
SYMMETRY Symmetry
INVARIANTS
  SaltAgreement
  RegisteredOnce
  PasswordOfWinner
  NobodyStuck
  ReadableEverywhere
  UnreadableElsewhere
PROPERTIES
  AccountsStay
