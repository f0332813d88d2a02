SPECIFICATION Spec
CONSTANTS
  a = a
  b = b
  c = c
  here = here
  there = there
  Sessions <- ThreeSessions
  Hosts <- TwoHosts
  Home <- HomeOf
  Legible <- TwoHosts
  Pids <- TwoPids
  NoFile = NoFile
  Opaque = Opaque
  NoHost = NoHost
  NoReplace = TRUE
  SameUser = FALSE
  Recycle = TRUE
  TakeOvers = FALSE
  MaxBoot = 2
CHECK_DEADLOCK FALSE
INVARIANTS
  TypeOK
  OneWriter
PROPERTIES
  
  ImplementsSingleWriter
SYMMETRY SameMachine
