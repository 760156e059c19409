CONSTANTS
  Callers = {"r1", "r2"}
  LastProvider = 2
  MaxRetries = 1
  Waits = {2}
  CooldownCap = 1
  BackoffBase = 1
  BackoffCap = 1
  MaxSaid = 2
SPECIFICATION Spec
INVARIANT WaitsAreCapped
CHECK_DEADLOCK FALSE
