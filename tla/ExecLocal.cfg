SPECIFICATION RouteSpec
CONSTANTS
  Requests = {r1, r2, r3, r4}
  Instances = {i1}
  Keys = {k1}
  Hashes = {h1}
  Success = Success
  Failure = Failure
  Results = {Success, Failure}
  Processing = Processing
  Persistent = FALSE
  DbFaults = FALSE
  Releases = TRUE
  Crashes = FALSE
  Prompt = TRUE
  MaxTime = 4
  LockTtl = 2
  ResultTtl = 2
  PruneGap = 2
SYMMETRY Symmetry
CHECK_DEADLOCK FALSE
INVARIANTS
  OneSubmission
PROPERTIES
  NoReexecution
