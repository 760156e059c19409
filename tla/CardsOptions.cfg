CONSTANTS
  Previews = {"first words", "second words"}
  Causes = {"slow_render", "target_moved"}
  MaxAttempts = 2
  MaxAsks = 3
  MaxTurns = 2
  Reloads = 1
SPECIFICATION Spec
INVARIANT OptionsAreSeen
CHECK_DEADLOCK FALSE
