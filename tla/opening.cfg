SPECIFICATION Spec
CONSTANTS
  s1 = s1
  s2 = s2
  p1 = p1
  p2 = p2
  tree = tree
  old = old
  new = new
  Sessions <- TwoSessions
  Artifacts <- Plaintext
  Place <- Places3
  Name <- Names3
  Passwords <- TwoPasswords
  FirstPassword = p1
  MaxFolders = 2
  MaxId = 2
  Together = FALSE
  Races = FALSE
  Overlaps = FALSE
  NoOne = NoOne
  Dead = Dead
SYMMETRY Alike
INVARIANTS
  TypeOK
  NothingReplaced
  WriterIsClean
  
PROPERTIES
  IdentityKept
