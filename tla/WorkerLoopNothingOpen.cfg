\* The model sends with no compose window open.
CONSTANTS
  d1 = d1
  d2 = d2
  closed = closed
  unread = unread
  s1 = s1
  Drafts <- MCDrafts
  NoDraft = closed
  Unreadable = unread
  Strategies <- MCStrategies
  Picks <- Mailing
  Bound <- AllVerbs
  RecentWindow = 1
  RepeatKill = 2
  OscWindow = 2
  OscKill = 2
  MaxSteps = 3
  StuckKill = 9
  MaxSigninAsks = 2
  MaxAttempts = 1
  Patience = 1
  LiveEdits = FALSE
  FlakyReads = FALSE
SPECIFICATION Spec
INVARIANT
  ConfirmedWasSent
CHECK_DEADLOCK FALSE
