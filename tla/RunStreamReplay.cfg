\* Two cockpits attach and leave while the run emits and the buffer trims.
CONSTANTS
  Viewers = {v1, v2}
  Capacity = 2
  MaxEvents = 4
SPECIFICATION Spec
INVARIANTS
  GapIsTheReplay
PROPERTY
  FeedSpec
CHECK_DEADLOCK FALSE
