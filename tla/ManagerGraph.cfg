CONSTANTS
  m1 = m1
  m2 = m2
  m3 = m3
  Mails <- MCMails
  Inbox <- MCInbox
  Matching <- MCMatching
  RuleVerbs <- ArchiveAndMark
  MaxItems = 2
  MaxStalls = 2
  MaxAsks = 3
  Rules = {TRUE, FALSE}
SPECIFICATION Spec
INVARIANTS
  StartsComplete
PROPERTIES
  SlotsStand
  GroundIsKept
  ComesToRest
CHECK_DEADLOCK FALSE
