CONSTANTS
  People <- MCPeople
  Task <- MCTask
  Mailbox <- MCMailbox
  Texts <- MCTexts
  Retargets <- MCRetargets
  first = first
  second = second
  MaxCards = 2
  MaxTrouble = 2
  EditsBlankBody = FALSE
SYMMETRY TextSymmetry
SPECIFICATION Spec
INVARIANTS EditLands TypedWordsStand RecipientsAreKnown
PROPERTY ConsentSpec
CHECK_DEADLOCK FALSE
