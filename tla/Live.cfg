SPECIFICATION LiveSpec
CONSTANTS
  Requests = {r1, r2, r3, r4, r5}
  Concurrency = 2
  QueueLimit = 2
  Addresses = {a, b}
  SessionTtl = 1
  MaxPrompts = 1
  MaxTasks = 3
  MaxTokens = 1
  MaxClock = 2
  Faults = TRUE
  Digests = {d1, d2, d3}
  Lost = {d1}
  Jobs = {j1}
  Batch = 2
  None = None
  Nobody = Nobody
CHECK_DEADLOCK FALSE
INVARIANTS
  LiveTypeOK
  NoIdleSlot
PROPERTIES
  IsAdmissionQueue
  Answered
  ExpiredIsDropped
  FinalStaysFinal
  Settled
