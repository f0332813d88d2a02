SPECIFICATION Spec
CONSTANTS
  a = a  b = b  c = c  std = std  sec = sec  None = None
  Notes = {a, b}
  Vaults = {std}
  Secure = {}
  Home <- StdHomes
  Secret = {}
  Absent = {}
  LockOnSwitch = FALSE
  AutoLock = FALSE
  EmptyViews = FALSE
  ReadsFail = FALSE
  Commands = {"switch-vault", "type", "save", "next-note"}
INVARIANT
  EditsAreHeld
