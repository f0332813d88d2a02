SPECIFICATION FairSpec
CONSTANTS
  n1 = n1
  n2 = n2
  Notes <- TwoNotes
  MaxVersion = 2
  None = None
INVARIANTS
  TypeOK
  DestinationIsWhole
  AnswerIsTrue
PROPERTIES
  KeepsWhatWasThere
  ExportEnds
