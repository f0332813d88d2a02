SPECIFICATION Spec
CONSTANTS
  o1 = o1
  o2 = o2
  o3 = o3
  w = w
  r = r
  Objects <- ThreeObjects
  Writer = w
  Readers <- Nobody
  NoObject = NoObject
  Conversions = TRUE
SYMMETRY AnyObject
INVARIANTS
  TypeOK
  NoDanglingRecord
  NoNoteDropped
  RescuedTextKept
PROPERTY
  ImplementsNoteShelf
