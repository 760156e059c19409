CONSTANTS
  NoRun = NoRun
  Runs = {r1}
  MaxSockets = 2
  MaxCodes = 1
  MaxCalls = 4
SPECIFICATION Spec
PROPERTY
  RunFindsItsBrowser
CHECK_DEADLOCK FALSE
