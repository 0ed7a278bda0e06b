SPECIFICATION Spec
CONSTANTS
  Requests = {r1, r2, r3}
  Instances = {i1, i2}
  Keys = {k1}
  Hashes = {h1, h2}
  Results = {ok}
  Processing = Processing
  Persistent = TRUE
  DbFaults = TRUE
  Releases = TRUE
  Crashes = TRUE
  Prompt = FALSE
  MaxTime = 1
  LockTtl = 1
  ResultTtl = 1
  PruneGap = 2
SYMMETRY Symmetry
CHECK_DEADLOCK FALSE
INVARIANTS
  TypeOK
  ReplayTruth
