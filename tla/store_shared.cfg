SPECIFICATION Spec
CONSTANTS
  o1 = o1
  o2 = o2
  o3 = o3
  w = w
  r = r
  Objects <- TwoObjects
  Writer = w
  Readers <- OneReader
  NoObject = NoObject
  Conversions = FALSE
SYMMETRY AnyObject
INVARIANT
  ContentNeverDestroyed
