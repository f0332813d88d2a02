SPECIFICATION FairSpec
CONSTANTS
  a = a  b = b  c = c  std = std  sec = sec  None = None
  Notes = {a, b}
  Vaults = {std}
  Secure = {}
  Home <- StdHomes
  Secret = {b}
  Absent = {}
  LockOnSwitch = FALSE
  AutoLock = FALSE
  EmptyViews = TRUE
  ReadsFail = TRUE
  Commands <- EditCommands
INVARIANTS
  TypeOK
  EditsAreHeld
PROPERTY
  Autosaves
