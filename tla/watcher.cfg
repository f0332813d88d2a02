SPECIFICATION FairSpec
CONSTANTS
  a = a
  b = b
  None = None
  Notes <- BothNotes
  NextNoteKeys = FALSE
INVARIANT
  ChangesArePending
PROPERTY
  ChangesAreListed
