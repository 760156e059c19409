CONSTANTS
  NoRun = NoRun
  Runs = {r1}
  MaxSockets = 2
  MaxCodes = 1
  MaxCalls = 5
SPECIFICATION Spec
INVARIANTS
  OneBrowser
  NobodyWaitsOnClosed
  CodeWorksOnce
PROPERTY
  OutcomeStands
CHECK_DEADLOCK FALSE
