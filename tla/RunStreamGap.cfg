\* The run emits while a replay is being sent; nothing is trimmed.
CONSTANTS
  Viewers = {v1}
  Capacity = 9
  MaxEvents = 4
SPECIFICATION Spec
INVARIANT
  ExactlyTheStream
CHECK_DEADLOCK FALSE
