CONSTANTS
  m1 = m1
  m2 = m2
  m3 = m3
  Mails <- MCMails
  Inbox <- MCInbox
  Matching <- MCMatching
  RuleVerbs <- JustArchive
  MaxItems = 2
  MaxStalls = 2
  MaxAsks = 3
  Rules = {TRUE, FALSE}
SPECIFICATION Spec
INVARIANT
  CorrectionCanBeHeard
CHECK_DEADLOCK FALSE
