CONSTANTS
  NoRun = NoRun
  Runs = {r1, r2}
  MaxSockets = 1
  MaxCodes = 1
  MaxCalls = 4
SPECIFICATION Spec
INVARIANTS
  ActsInItsOwnSession
CHECK_DEADLOCK FALSE
