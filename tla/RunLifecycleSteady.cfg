\* No emission is suspended, and a model is configured.
CONSTANTS
  r1 = r1
  r2 = r2
  s1 = s1
  s2 = s2
  Runs <- TwoRuns
  Sockets <- TwoSockets
  NoRun = NoRun
  MaxCards = 1
  SlowSends = FALSE
  NoModel = FALSE
SPECIFICATION Spec
SYMMETRY Interchangeable
INVARIANTS
  TypeOK
  HandedOverIsClosed
  NoOrphan
  AlwaysAnnounced
CHECK_DEADLOCK FALSE
