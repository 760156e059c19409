CONSTANTS
  NoRun = NoRun
  Runs = {r1}
  MaxSockets = 1
  MaxCodes = 1
  MaxCalls = 5
SPECIFICATION Spec
PROPERTY
  ApprovedGoesOut
CHECK_DEADLOCK FALSE
