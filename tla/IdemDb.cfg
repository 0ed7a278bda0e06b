SPECIFICATION Spec
CONSTANTS
  Requests = {r1, r2, r3}
  Instances = {i1, i2}
  Keys = {k1}
  Hashes = {h1}
  Results = {ok}
  Processing = Processing
  Persistent = TRUE
  DbFaults = TRUE
  Releases = FALSE
  Crashes = TRUE
  Prompt = FALSE
  MaxTime = 2
  LockTtl = 1
  ResultTtl = 2
  PruneGap = 2
SYMMETRY Symmetry
CHECK_DEADLOCK FALSE
INVARIANTS
  DbExclusive
  KeptUntilExpiry
