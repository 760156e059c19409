CONSTANTS
  People <- MCPeople
  Task <- MCTask
  Mailbox <- MCMailbox
  Texts <- MCTexts
  Retargets <- MCRetargets
  first = first
  second = second
  MaxCards = 2
  MaxTrouble = 2
  EditsBlankBody = TRUE
SYMMETRY TextSymmetry
SPECIFICATION Spec
INVARIANT EditLands
CHECK_DEADLOCK FALSE
