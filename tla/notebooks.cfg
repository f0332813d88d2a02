SPECIFICATION Spec
CONSTANTS
  plain = plain
  secret = secret
  plan = plan
  inbox = inbox
  work = work
  play = play
  Notes <- BothNotes
  Secret <- OneSecret
  Files <- OneFile
  Names <- ThreeNames
  NewNames <- OtherNames
  Inbox = inbox
  NoNote = NoNote
  MaxDepth = 2
  MaxNotebooks = 3
SYMMETRY AnyName
INVARIANTS
  TypeOK
  Filed
  

  
