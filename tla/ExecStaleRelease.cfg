SPECIFICATION RouteSpec
CONSTANTS
  Requests = {r1, r2, r3}
  Instances = {i1}
  Keys = {k1}
  Hashes = {h1}
  Success = Success
  Failure = Failure
  Results = {Success, Failure}
  Processing = Processing
  Persistent = TRUE
  DbFaults = FALSE
  Releases = TRUE
  Crashes = FALSE
  Prompt = FALSE
  MaxTime = 3
  LockTtl = 1
  ResultTtl = 2
  PruneGap = 2
SYMMETRY Symmetry
CHECK_DEADLOCK FALSE
INVARIANTS
  KeptInDoubt
