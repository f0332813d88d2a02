SPECIFICATION Spec
CONSTANTS
  n1 = n1
  n2 = n2
  Notes <- TwoNotes
  NoNote = NoNote
  External = TRUE
  MaxText = 3
CHECK_DEADLOCK FALSE
INVARIANTS
  TypeOK
  TrashHasRecord
  SealedStaysSealed
  RescuedTextKept
PROPERTY
  ImplementsNoteShelf
SYMMETRY Interchangeable
