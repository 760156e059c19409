\* Loops, guards and remedies: thresholds lowered with the step budget.
CONSTANTS
  d1 = d1
  d2 = d2
  closed = closed
  unread = unread
  s1 = s1
  Drafts <- OneDraft
  NoDraft = closed
  Unreadable = unread
  Strategies <- MCStrategies
  Picks <- Recovering
  Bound <- ReadOnly
  RecentWindow = 3
  RepeatKill = 2
  OscWindow = 3
  OscKill = 3
  MaxSteps = 3
  StuckKill = 2
  MaxSigninAsks = 1
  MaxAttempts = 1
  Patience = 2
  LiveEdits = FALSE
  FlakyReads = FALSE
SPECIFICATION Spec
INVARIANTS
  RemediesBounded
  OutcomeConsistent
PROPERTY
  ComesToRest
CHECK_DEADLOCK FALSE
