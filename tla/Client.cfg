SPECIFICATION ClientSpec
CONSTANTS
  Calls = {1, 2, 3}
  Keys = {k1, k2}
  Ttl = 1
  MaxEntries = 1
  PruneGap = 2
  MaxTime = 2
  MaxVersion = 1
  None = None
  Sockets = {1, 2, 3, 4, 5}
  Topics = {t1}
  MaxSeq = 2
  NoSocket = NoSocket
  Swaps = {1, 2}
  Pairs = {p1}
  Terms <- MCTerms
  NoTerms = NoTerms
  Impacts = {2, 3}
  Expert = FALSE
  Signing = TRUE
  Policies = {pol1, pol2}
  QuoteTtl = 1
  Margin = 1
  MaxQuotes = 2
  MaxMoment = 1
  NoQuote = NoQuote
  Accounts = {acc1, acc2}
  MaxAsks = 4
  NoOne = NoOne
  MaxPolls = 3
  MaxEvents = 2
  Retries = 1
  Holders = {o1, o2}
  PageSize = 1
  MaxHeight = 3
  MaxLoads = 3
  Nobody = Nobody
  Coins = {1, 2}
  Gas = 2
  Shown = 1
  Typed <- MCTyped
  Holdings = {0, 7, 105, 130}
  Reserves = {2, 30}
  Nothing = Nothing
SYMMETRY Symmetry
CHECK_DEADLOCK FALSE
INVARIANTS
  ClientTypeOK
  Bounded
  OneLoadPerKey
  NeverBackInTime
  OneAtATime
  TornDown
  InOrder
  QuoteForInputs
  TermsHonoured
  SettledOnAccount
  OfflineSaysSo
  ListOfAccount
  SpendFits
PROPERTIES
  RelayedUnderItsPolicy
