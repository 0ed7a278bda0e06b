SPECIFICATION Spec
CONSTANTS
  Calls = {c1, c2}
  Keys = {k1}
  Ttl = 1
  MaxEntries = 1
  PruneGap = 2
  MaxTime = 2
  MaxVersion = 1
  None = None
CHECK_DEADLOCK FALSE
INVARIANT ForcedIsFresh
