SPECIFICATION FairSpec
CONSTANTS
  a = a  b = b  c = c  std = std  sec = sec  None = None
  Notes = {b, c}
  Vaults = {std, sec}
  Secure = {sec}
  Home <- SecHomes
  Secret = {b}
  Absent = {}
  LockOnSwitch = FALSE
  AutoLock = TRUE
  EmptyViews = FALSE
  ReadsFail = FALSE
  Commands <- LockCommands
INVARIANTS
  
  ShutVaultIsBlank
PROPERTIES
  
  IdleVaultLocks
