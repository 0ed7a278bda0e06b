SPECIFICATION Spec
CONSTANTS
  Requests = {r1, r2}
  Instances = {i1}
  Keys = {k1}
  Hashes = {h1}
  Results = {ok}
  Processing = Processing
  Persistent = TRUE
  DbFaults = TRUE
  Releases = FALSE
  Crashes = FALSE
  Prompt = TRUE
  MaxTime = 4
  LockTtl = 2
  ResultTtl = 2
  PruneGap = 2
SYMMETRY Symmetry
CHECK_DEADLOCK FALSE
PROPERTIES
  NoReexecution
