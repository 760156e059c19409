\* The human edits the compose window while its card is on screen.
CONSTANTS
  d1 = d1
  d2 = d2
  closed = closed
  unread = unread
  s1 = s1
  Drafts <- MCDrafts
  NoDraft = closed
  Unreadable = unread
  Strategies <- MCStrategies
  Picks <- Mailing
  Bound <- AllVerbs
  RecentWindow = 1
  RepeatKill = 2
  OscWindow = 2
  OscKill = 2
  MaxSteps = 3
  StuckKill = 9
  MaxSigninAsks = 2
  MaxAttempts = 1
  Patience = 0
  LiveEdits = TRUE
  FlakyReads = FALSE
SPECIFICATION Spec
PROPERTY
  ApprovedWasShown
CHECK_DEADLOCK FALSE
