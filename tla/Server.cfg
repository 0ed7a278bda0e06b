SPECIFICATION ServerSpec
CONSTANTS
  Calls = {1, 2, 3, 4, 5, 6}
  Threshold = 2
  Cooldown = 2
  Prompt = TRUE
  MaxTime = 7
  Reads = {1, 2}
  Executions = {3}
  Endpoints = {1, 2}
  Protected = 1
  Silent = {2}
  Chains = {main, other}
  RpcTimeout = 1
  IdentityTtl = 1
  FailureThreshold = 1
  RpcCooldown = 1
  Outweighs = 2
  MaxFailures = 2
  MaxTicks = 3
  Unset = Unset
  Clients = {1, 2, 3, 4}
  Processes = {p1}
  Limit = 2
  Window = 3
  PruneGap = 2
  Delay = 2
  MaxInstant = 5
  Absent = Absent
  Amounts = {30, 10039}
  Prices = {16, 17, 18, 20}
  FeeRates = {25, 250}
  Recipients = {w1, w2}
  Slippage = 1000
  NetGas <- MCNetGas
  ReceivesSui = TRUE
  Nothing = Nothing
  Deviations = 2
  Order <- MCOrder
  Dated = {"pyth"}
  MaxStale = 2
  Skew = 1
  PriceTtl = 2
  OthersWait = 1
  EdgeFresh = 1
  EdgeStale = 1
  PageTtl = 1
  MaxClock = 6
  NoPoint = NoPoint
  Deployments <- MCDeployments
  SdkProviders = {"cetus", "bluefin"}
  Families = {"cetus"}
  Slippages = {50, 1000, 2000}
  Impacts = {10, 300}
  Deadlines = {1200, 90}
  RouteImpacts = {5, 250}
  IdLengths = {64, 200}
  NoProof = NoProof
CHECK_DEADLOCK FALSE
INVARIANTS
  ServerTypeOK
  NoLockout
  ProbeAlone
  AsksKnownChain
  QuarantineEarned
  WindowBounded
  FeeAsReviewed
  PaidAboveFloor
  ReadyMeansServing
  PriceAgeBounded
  WithinPolicy
