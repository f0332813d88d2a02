SPECIFICATION Spec
CONSTANTS
  a = a
  b = b
  c = c
  here = here
  there = there
  Sessions <- ThreeSessions
  Hosts <- TwoHosts
  Home <- HomeOf
  Legible <- TwoHosts
  Pids <- TwoPids
  NoFile = NoFile
  Opaque = Opaque
  NoHost = NoHost
  NoReplace = FALSE
  SameUser = FALSE
  Recycle = FALSE
  TakeOvers = TRUE
  MaxBoot = 2
CHECK_DEADLOCK FALSE
INVARIANTS
  
  LiveOwnerNeverProvenDead
SYMMETRY SameMachine
