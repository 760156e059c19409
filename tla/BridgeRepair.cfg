CONSTANTS
  NoRun = NoRun
  Runs = {r1}
  MaxSockets = 2
  MaxCodes = 1
  MaxCalls = 4
SPECIFICATION Spec
INVARIANTS
  PairedStaysPaired
CHECK_DEADLOCK FALSE
