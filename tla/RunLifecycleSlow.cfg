\* Emitting may suspend a handler, and building the graph may fail.
CONSTANTS
  r1 = r1
  r2 = r2
  s1 = s1
  s2 = s2
  Runs <- OneRun
  Sockets <- TwoSockets
  NoRun = NoRun
  MaxCards = 2
  SlowSends = TRUE
  NoModel = TRUE
SPECIFICATION Spec
INVARIANT
  EachCardItsReply
PROPERTIES
  DriverFallsSilent
  StopsForGood
CHECK_DEADLOCK FALSE
