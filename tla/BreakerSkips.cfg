SPECIFICATION Spec
CONSTANTS
  Calls = {c1, c2, c3}
  Threshold = 2
  Cooldown = 2
  Prompt = TRUE
  MaxTime = 4
CHECK_DEADLOCK FALSE
INVARIANT TripsOnStreak
