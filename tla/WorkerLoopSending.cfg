\* A mail worker; the human may type in the window too, and reads may fail.
CONSTANTS
  d1 = d1
  d2 = d2
  closed = closed
  unread = unread
  s1 = s1
  Drafts <- MCDrafts
  NoDraft = closed
  Unreadable = unread
  Strategies <- MCStrategies
  Picks <- Mailing
  Bound <- AllVerbs
  RecentWindow = 1
  RepeatKill = 2
  OscWindow = 2
  OscKill = 2
  MaxSteps = 3
  StuckKill = 9
  MaxSigninAsks = 2
  MaxAttempts = 1
  Patience = 1
  LiveEdits = TRUE
  FlakyReads = TRUE
SYMMETRY AnyDraft
SPECIFICATION Spec
INVARIANTS
  TypeOK
  ActsOnItsChoice
  ConsentIsFresh
  SentWasRead
  NothingAfterConfirmation
CHECK_DEADLOCK FALSE
