\* Two cockpits watch one run, and both reply to its card.
CONSTANTS
  r1 = r1
  r2 = r2
  s1 = s1
  s2 = s2
  Runs <- OneRun
  Sockets <- TwoSockets
  NoRun = NoRun
  MaxCards = 2
  SlowSends = FALSE
  NoModel = FALSE
SPECIFICATION Spec
INVARIANT
  RepliesMatch
CHECK_DEADLOCK FALSE
