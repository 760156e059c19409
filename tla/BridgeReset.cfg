CONSTANTS
  NoRun = NoRun
  Runs = {r1}
  MaxSockets = 1
  MaxCodes = 1
  MaxCalls = 3
SPECIFICATION Spec
PROPERTY
  EveryCallIsHeard
CHECK_DEADLOCK FALSE
