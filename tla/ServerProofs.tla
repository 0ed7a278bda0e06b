---------------------------- MODULE ServerProofs ----------------------------
(***************************************************************************)
(* Proofs about what a server counts on: the endpoints it calls (RpcPool), *)
(* for any endpoints, chains and calls, the requests it admits (RateLimit),*)
(* for any requests, processes, limit and window, the age of the prices it *)
(* serves (PriceFeed), for any providers, skew and lives of caches, its    *)
(* configuration (Deployment), whatever its settings are, and all of a     *)
(* server at once (MCServer): its circuits are in BreakerProofs, the terms *)
(* and the money of its swaps in SwapProofs.                               *)
(*                                                                         *)
(* Endpoints: a report is of a chain the endpoint was on while it was      *)
(* awaited (ToldOn), and is no older than a report may take (InTime); one  *)
(* that was checked was on the chain of the process no earlier than that   *)
(* before the check (CheckedOn).                                           *)
(*                                                                         *)
(* Requests: a row that still counts has counted every request that it let *)
(* by, and a row that may be swept has no request left to count (RowInv);  *)
(* a process's entry has counted those that it admitted by itself since it *)
(* began, of which each came before the entry ends, or before the Map was  *)
(* last rid of what had ended (EntryInv).                                  *)
(*                                                                         *)
(* Prices: one is at most MaxStale old when the server stores it, and each *)
(* copy adds the life of what it was copied from, or the time it was held  *)
(* for others (FeedInv): the bound of PriceAgeBounded is the sum.          *)
(*                                                                         *)
(* Configuration: the probe asks only where every route serves (ProbeInv), *)
(* and what refuses a swap is a route's condition (RefusedInv).            *)
(***************************************************************************)
EXTENDS MCServer, BreakerProofs, SwapProofs, FiniteSetTheorems, TLAPS

IsCall(r) ==
  /\ r = [at |-> r.at, todo |-> r.todo, since |-> r.since, told |-> r.told]
  /\ r.since \in Nat /\ r.told \in Chains \cup {Unset}

PoolTypes ==
  /\ ticks \in Nat /\ lastOn \in [Telling -> [Chains -> Int]]
  /\ serves \in [Endpoints -> Chains]
  /\ known \in Chains \cup {Unset}
  /\ checkedAt \in [Endpoints -> Nat \cup {Unset}]
  /\ rpc = [c \in RpcCalls |-> rpc[c]] /\ \A c \in RpcCalls : IsCall(rpc[c])

OnNow ==
  \A e \in Telling : /\ lastOn[e][serves[e]] = ticks
                     /\ \A chain \in Chains : lastOn[e][chain] <= ticks

InTime ==
  \A c \in RpcCalls : rpc[c].at \in {"identity", "told"} =>
    rpc[c].since <= ticks /\ ticks <= rpc[c].since + RpcTimeout

ToldOn ==
  \A c \in RpcCalls, e \in Telling : rpc[c].at = "told" /\ e = Head(rpc[c].todo) =>
    rpc[c].told # Unset /\ rpc[c].since <= lastOn[e][rpc[c].told]

CheckedOn ==
  \A e \in Telling : checkedAt[e] # Unset =>
    known # Unset /\ checkedAt[e] <= lastOn[e][known] + RpcTimeout

RunsKnown ==
  \A c \in RpcCalls, e \in Telling :
    rpc[c].at = "run" /\ e = Head(rpc[c].todo) =>
      known # Unset /\ rpc[c].since < lastOn[e][known] + IdentityTtl + RpcTimeout

IdentityInv == PoolTypes /\ OnNow /\ InTime /\ ToldOn /\ CheckedOn /\ RunsKnown

HealthInv ==
  /\ ticks \in Nat
  /\ consecutive \in [Endpoints -> 0..MaxFailures] /\ openUntil \in [Endpoints -> Nat]
  /\ QuarantineEarned

----------------------------------------------------------------------------
\* The history only grows, and what rests on it stays.
LEMMA RunsOn ==
  ASSUME IdentityInv, UNCHANGED <<rpc, checkedAt, known>>,
         \A e \in Telling, chain \in Chains :
           lastOn'[e][chain] \in Int /\ lastOn[e][chain] <= lastOn'[e][chain]
  PROVE  ToldOn' /\ CheckedOn' /\ RunsKnown'
<1>1. \A e \in Telling, chain \in Chains : lastOn[e][chain] \in Int
  BY DEF IdentityInv, PoolTypes
<1>2. ToldOn'
  <2> SUFFICES ASSUME NEW c \in RpcCalls, NEW e \in Telling,
                      rpc[c].at = "told", e = Head(rpc[c].todo)
               PROVE  rpc[c].told # Unset /\ rpc[c].since <= lastOn'[e][rpc[c].told]
    BY DEF ToldOn
  <2>1. /\ rpc[c].told \in Chains /\ rpc[c].told # Unset /\ rpc[c].since \in Nat
        /\ rpc[c].since <= lastOn[e][rpc[c].told]
    BY DEF IdentityInv, PoolTypes, IsCall, ToldOn
  <2>2. QED
    BY <1>1, <2>1
<1>3. CheckedOn'
  <2> SUFFICES ASSUME NEW e \in Telling, checkedAt[e] # Unset
               PROVE  known # Unset /\ checkedAt[e] <= lastOn'[e][known] + RpcTimeout
    BY DEF CheckedOn
  <2>1. /\ known \in Chains /\ known # Unset /\ checkedAt[e] \in Nat
        /\ checkedAt[e] <= lastOn[e][known] + RpcTimeout
    BY DEF IdentityInv, PoolTypes, CheckedOn, Telling
  <2>2. RpcTimeout \in Nat
    BY RpcPoolAssumption
  <2>3. QED
    BY <1>1, <2>1, <2>2
<1>4. RunsKnown'
  <2> SUFFICES ASSUME NEW c \in RpcCalls, NEW e \in Telling,
                      rpc[c].at = "run", e = Head(rpc[c].todo)
               PROVE  /\ known # Unset
                      /\ rpc[c].since < lastOn'[e][known] + IdentityTtl + RpcTimeout
    BY DEF RunsKnown
  <2>1. /\ known \in Chains /\ known # Unset /\ rpc[c].since \in Nat
        /\ rpc[c].since < lastOn[e][known] + IdentityTtl + RpcTimeout
    BY DEF IdentityInv, PoolTypes, IsCall, RunsKnown
  <2>2. IdentityTtl \in Nat /\ RpcTimeout \in Nat
    BY RpcPoolAssumption
  <2>3. QED
    BY <1>1, <2>1, <2>2
<1>5. QED
  BY <1>2, <1>3, <1>4

\* A call that goes on to its next endpoint runs there only if that is believed.
LEMMA TriesKnown ==
  ASSUME IdentityInv, NEW c \in RpcCalls, NEW todo,
         rpc' = [rpc EXCEPT ![c] = Tries(todo)],
         UNCHANGED <<ticks, serves, lastOn, known, checkedAt>>
  PROVE  IdentityInv'
<1>1. rpc'[c] = Tries(todo) /\ \A d \in RpcCalls : d # c => rpc'[d] = rpc[d]
  BY DEF IdentityInv, PoolTypes
<1>2. /\ IsCall(Tries(todo))
      /\ \/ Tries(todo).at = "failed"
         \/ Tries(todo).since = ticks /\ Tries(todo).todo = todo
      /\ Tries(todo).at \in {"failed", "run", "identity"}
  BY DEF Tries, Idle, Attempt, IsCall, IdentityInv, PoolTypes
<1>3. PoolTypes'
  BY <1>1, <1>2 DEF IdentityInv, PoolTypes
<1>4. ASSUME NEW e \in Telling, Tries(todo).at = "run", e = Head(todo)
      PROVE  known # Unset /\ ticks < lastOn[e][known] + IdentityTtl + RpcTimeout
  <2>1. Believed(e)
    BY <1>4 DEF Tries, Idle, Attempt
  <2>2. checkedAt[e] # Unset /\ ticks - checkedAt[e] < IdentityTtl
    BY <2>1 DEF Believed
  <2>3. /\ checkedAt[e] \in Nat /\ ticks \in Nat /\ IdentityTtl \in Nat /\ RpcTimeout \in Nat
        /\ known # Unset /\ lastOn[e][known] \in Int
        /\ checkedAt[e] <= lastOn[e][known] + RpcTimeout
    BY <2>2, RpcPoolAssumption DEF IdentityInv, PoolTypes, CheckedOn, Telling
  <2>4. QED
    BY <2>2, <2>3
<1>5. RunsKnown'
  BY <1>1, <1>2, <1>4 DEF IdentityInv, RunsKnown
<1>6. InTime'
  <2>1. ticks \in Nat /\ RpcTimeout \in Nat
    BY RpcPoolAssumption DEF IdentityInv, PoolTypes
  <2>2. QED
    BY <1>1, <1>2, <2>1 DEF IdentityInv, InTime
<1>7. ToldOn'
  BY <1>1, <1>2 DEF IdentityInv, ToldOn
<1>8. QED
  BY <1>3, <1>5, <1>6, <1>7 DEF IdentityInv, OnNow, CheckedOn

LEMMA IdentityStep == IdentityInv /\ [PoolNext]_poolVars => IdentityInv'
<1> SUFFICES ASSUME IdentityInv, [PoolNext]_poolVars PROVE IdentityInv'
  OBVIOUS
<1>1. ASSUME NEW c \in RpcCalls, ReadStarts(c) PROVE IdentityInv'
  BY <1>1, TriesKnown DEF ReadStarts
<1>2. ASSUME NEW c \in RpcCalls, ExecutionStarts(c) PROVE IdentityInv'
  BY <1>2, TriesKnown DEF ExecutionStarts
<1>3. ASSUME NEW c \in RpcCalls, NEW e \in Endpoints, Reports(c, e) PROVE IdentityInv'
  <2>1. /\ UNCHANGED <<ticks, serves, lastOn, known, checkedAt>>
        /\ rpc[c].at = "identity" /\ e = Head(rpc[c].todo)
    BY <1>3 DEF Reports, Asks
  <2>2. /\ rpc'[c].at = "told" /\ rpc'[c].todo = rpc[c].todo
        /\ rpc'[c].since = rpc[c].since /\ IsCall(rpc'[c])
        /\ rpc'[c].told \in {serves[e]} \cup (IF e \in Silent THEN {Unset} ELSE {})
        /\ rpc' = [d \in RpcCalls |-> rpc'[d]]
        /\ \A d \in RpcCalls : d # c => rpc'[d] = rpc[d]
    <3>1. PICK chain \in {serves[e]} \cup (IF e \in Silent THEN {Unset} ELSE {}) :
            rpc' = [[rpc EXCEPT ![c].at = "told"] EXCEPT ![c].told = chain]
      BY <1>3 DEF Reports
    <3>2. chain \in Chains \cup {Unset}
      BY DEF IdentityInv, PoolTypes
    <3>3. rpc = [d \in RpcCalls |-> rpc[d]] /\ IsCall(rpc[c])
      BY DEF IdentityInv, PoolTypes
    <3>4. /\ rpc'[c] = [at |-> "told", todo |-> rpc[c].todo, since |-> rpc[c].since,
                        told |-> chain]
          /\ rpc' = [d \in RpcCalls |-> rpc'[d]]
          /\ \A d \in RpcCalls : d # c => rpc'[d] = rpc[d]
      BY <3>1, <3>3 DEF IsCall
    <3>5. QED
      BY <3>2, <3>3, <3>4 DEF IsCall
  <2>3. PoolTypes'
    BY <2>1, <2>2 DEF IdentityInv, PoolTypes
  <2>4. InTime'
    BY <2>1, <2>2 DEF IdentityInv, InTime
  <2>5. ToldOn'
    <3>1. ASSUME e \in Telling
          PROVE  rpc'[c].told # Unset /\ rpc[c].since <= lastOn[e][rpc'[c].told]
      <4>1. rpc'[c].told = serves[e]
        BY <2>2, <3>1 DEF Telling
      <4>2. serves[e] # Unset /\ lastOn[e][serves[e]] = ticks
        BY <3>1, RpcPoolAssumption DEF IdentityInv, PoolTypes, OnNow
      <4>3. rpc[c].since <= ticks
        BY <2>1 DEF IdentityInv, InTime
      <4>4. QED
        BY <4>1, <4>2, <4>3
    <3>2. QED
      BY <2>1, <2>2, <3>1 DEF IdentityInv, ToldOn
  <2>6. RunsKnown'
    BY <2>1, <2>2 DEF IdentityInv, RunsKnown
  <2>7. QED
    BY <2>1, <2>3, <2>4, <2>5, <2>6 DEF IdentityInv, OnNow, CheckedOn
<1>4. ASSUME NEW c \in RpcCalls, NEW e \in Endpoints, Identified(c, e) PROVE IdentityInv'
  <2>1. /\ UNCHANGED <<ticks, serves, lastOn>>
        /\ rpc[c].at = "told" /\ e = Head(rpc[c].todo)
        /\ known = Unset \/ rpc[c].told \in {Unset, known}
        /\ known' = IF rpc[c].told = Unset THEN known ELSE rpc[c].told
        /\ checkedAt' = [checkedAt EXCEPT ![e] = ticks]
        /\ rpc' = [rpc EXCEPT ![c] = Attempt("run", rpc[c].todo)]
    BY <1>4 DEF Identified, Asks
  <2>2. known = Unset \/ known = known'
    BY <2>1
  <2>3. /\ rpc'[c] = Attempt("run", rpc[c].todo)
        /\ rpc' = [d \in RpcCalls |-> rpc'[d]]
        /\ \A d \in RpcCalls : d # c => rpc'[d] = rpc[d]
    BY <2>1 DEF IdentityInv, PoolTypes
  <2>4. /\ rpc'[c].at = "run" /\ rpc'[c].todo = rpc[c].todo /\ rpc'[c].since = ticks
        /\ IsCall(rpc'[c])
    BY <2>3 DEF Attempt, IsCall, IdentityInv, PoolTypes
  <2>5. PoolTypes'
    <3>1. known' \in Chains \cup {Unset}
      BY <2>1 DEF IdentityInv, PoolTypes, IsCall
    <3>2. QED
      BY <2>1, <2>3, <2>4, <3>1 DEF IdentityInv, PoolTypes
  <2>6. ASSUME e \in Telling
        PROVE  /\ known' \in Chains /\ known' # Unset
               /\ ticks <= lastOn[e][known'] + RpcTimeout
               /\ ticks < lastOn[e][known'] + IdentityTtl + RpcTimeout
    <3>1. rpc[c].told # Unset /\ rpc[c].since <= lastOn[e][rpc[c].told]
      BY <2>1, <2>6 DEF IdentityInv, ToldOn
    <3>2. known' = rpc[c].told /\ rpc[c].told \in Chains
      BY <2>1, <3>1 DEF IdentityInv, PoolTypes, IsCall
    <3>3. ticks <= rpc[c].since + RpcTimeout
      BY <2>1 DEF IdentityInv, InTime
    <3>4. /\ rpc[c].since \in Nat /\ ticks \in Nat /\ lastOn[e][rpc[c].told] \in Int
          /\ RpcTimeout \in Nat /\ IdentityTtl \in Nat \ {0}
      BY <2>6, <3>2, RpcPoolAssumption DEF IdentityInv, PoolTypes, IsCall
    <3>5. QED
      BY <3>1, <3>2, <3>3, <3>4
  <2>7. CheckedOn'
    BY <2>1, <2>2, <2>6 DEF IdentityInv, PoolTypes, CheckedOn, Telling
  <2>8. RunsKnown'
    <3> SUFFICES ASSUME NEW d \in RpcCalls, NEW f \in Telling,
                        rpc'[d].at = "run", f = Head(rpc'[d].todo)
                 PROVE  /\ known' # Unset
                        /\ rpc'[d].since < lastOn[f][known'] + IdentityTtl + RpcTimeout
      BY <2>1 DEF RunsKnown
    <3>1. CASE d = c
      BY <2>1, <2>4, <2>6, <3>1
    <3>2. CASE d # c
      BY <2>2, <2>3, <3>2 DEF IdentityInv, RunsKnown
    <3>3. QED
      BY <3>1, <3>2
  <2>9. InTime' /\ ToldOn'
    BY <2>1, <2>3, <2>4 DEF IdentityInv, InTime, ToldOn
  <2>10. QED
    BY <2>1, <2>5, <2>7, <2>8, <2>9 DEF IdentityInv, OnNow
<1>5. ASSUME NEW c \in RpcCalls, NEW e \in Endpoints, Answers(c, e) PROVE IdentityInv'
  <2>1. /\ rpc' = [rpc EXCEPT ![c] = Idle("answered")]
        /\ UNCHANGED <<ticks, serves, lastOn, known, checkedAt>>
    BY <1>5 DEF Answers
  <2>2. /\ rpc'[c].at = "answered" /\ IsCall(rpc'[c])
        /\ rpc' = [d \in RpcCalls |-> rpc'[d]]
        /\ \A d \in RpcCalls : d # c => rpc'[d] = rpc[d]
    BY <2>1 DEF Idle, IdentityInv, PoolTypes, IsCall
  <2>3. PoolTypes'
    BY <2>1, <2>2 DEF IdentityInv, PoolTypes
  <2>4. OnNow' /\ CheckedOn'
    BY <2>1 DEF IdentityInv, OnNow, CheckedOn
  <2>5. InTime' /\ ToldOn' /\ RunsKnown'
    BY <2>1, <2>2 DEF IdentityInv, InTime, ToldOn, RunsKnown
  <2>6. QED
    BY <2>3, <2>4, <2>5 DEF IdentityInv
<1>6. ASSUME NEW c \in RpcCalls, NEW e \in Endpoints, Fails(c, e) PROVE IdentityInv'
  <2>1. rpc' = [rpc EXCEPT ![c] = Tries(Tail(rpc[c].todo))]
    BY <1>6 DEF Fails
  <2>2. QED
    BY <1>6, <2>1, TriesKnown DEF Fails
<1>7. ASSUME PoolTick PROVE IdentityInv'
  <2>1. ticks' = ticks + 1 /\ ticks \in Nat /\ UNCHANGED <<serves, known, checkedAt, rpc>>
    BY <1>7 DEF PoolTick, IdentityInv, PoolTypes
  <2>2. lastOn' = [e \in Telling |-> [lastOn[e] EXCEPT ![serves[e]] = ticks + 1]]
    BY <1>7, <2>1 DEF PoolTick
  <2>3. lastOn' \in [Telling -> [Chains -> Int]]
    <3>1. ASSUME NEW e \in Telling
          PROVE  [lastOn[e] EXCEPT ![serves[e]] = ticks + 1] \in [Chains -> Int]
      <4>1. lastOn[e] \in [Chains -> Int] /\ ticks + 1 \in Int
        BY <2>1 DEF IdentityInv, PoolTypes
      <4>2. QED
        BY <4>1
    <3>2. QED
      BY <2>2, <3>1
  <2>4. \A e \in Telling, chain \in Chains :
          /\ lastOn'[e][chain] = IF chain = serves[e] THEN ticks + 1 ELSE lastOn[e][chain]
          /\ lastOn[e][chain] \in Int /\ lastOn[e][chain] <= ticks
    BY <2>2 DEF IdentityInv, PoolTypes, OnNow
  <2>5. PoolTypes'
    BY <2>1, <2>3 DEF IdentityInv, PoolTypes
  <2>6. OnNow'
    <3>1. \A e \in Telling : serves[e] \in Chains
      BY DEF IdentityInv, PoolTypes, Telling
    <3>2. QED
      BY <2>1, <2>4, <3>1 DEF OnNow
  <2>7. InTime'
    <3>1. \A c \in RpcCalls : rpc[c].at \in {"identity", "told"} =>
            ticks < rpc[c].since + RpcTimeout
      BY <1>7 DEF PoolTick
    <3>2. RpcTimeout \in Nat /\ \A c \in RpcCalls : rpc[c].since \in Nat
      BY RpcPoolAssumption DEF IdentityInv, PoolTypes, IsCall
    <3>3. QED
      BY <2>1, <3>1, <3>2 DEF IdentityInv, InTime
  <2>8. QED
    BY <2>1, <2>4, <2>5, <2>6, <2>7, RunsOn DEF IdentityInv
<1>8. ASSUME EndpointMoves PROVE IdentityInv'
  <2>1. /\ UNCHANGED <<ticks, known, checkedAt, rpc>> /\ ticks \in Nat
        /\ serves' \in [Endpoints -> Chains]
        /\ lastOn' = [e \in Telling |-> [lastOn[e] EXCEPT ![serves'[e]] = ticks]]
    BY <1>8 DEF EndpointMoves, IdentityInv, PoolTypes
  <2>2. lastOn' \in [Telling -> [Chains -> Int]]
    <3>1. ASSUME NEW e \in Telling
          PROVE  [lastOn[e] EXCEPT ![serves'[e]] = ticks] \in [Chains -> Int]
      <4>1. lastOn[e] \in [Chains -> Int] /\ ticks \in Int
        BY <2>1 DEF IdentityInv, PoolTypes
      <4>2. QED
        BY <4>1
    <3>2. QED
      BY <2>1, <3>1
  <2>3. \A e \in Telling, chain \in Chains :
          /\ lastOn'[e][chain] = IF chain = serves'[e] THEN ticks ELSE lastOn[e][chain]
          /\ lastOn[e][chain] \in Int /\ lastOn[e][chain] <= ticks
    BY <2>1 DEF IdentityInv, PoolTypes, OnNow
  <2>4. PoolTypes'
    BY <2>1, <2>2 DEF IdentityInv, PoolTypes
  <2>5. OnNow'
    <3>1. \A e \in Telling : serves'[e] \in Chains
      BY <2>1 DEF Telling
    <3>2. QED
      BY <2>1, <2>3, <3>1 DEF OnNow
  <2>6. InTime'
    BY <2>1 DEF IdentityInv, InTime
  <2>7. QED
    BY <2>1, <2>3, <2>4, <2>5, <2>6, RunsOn DEF IdentityInv
<1>9. CASE UNCHANGED poolVars
  BY <1>9 DEF poolVars, IdentityInv, PoolTypes, OnNow, InTime, ToldOn, CheckedOn, RunsKnown
<1>10. QED
  BY <1>1, <1>2, <1>3, <1>4, <1>5, <1>6, <1>7, <1>8, <1>9 DEF PoolNext

LEMMA IdentityBegins == PoolInit => IdentityInv
<1> SUFFICES ASSUME PoolInit PROVE IdentityInv
  OBVIOUS
<1>1. /\ Never \in Int /\ Never <= 0
  BY RpcPoolAssumption DEF Never
<1>2. /\ ticks = 0 /\ serves \in [Endpoints -> Chains] /\ known = Unset
      /\ checkedAt = [e \in Endpoints |-> Unset]
      /\ lastOn = [e \in Telling |->
                    [chain \in Chains |-> IF serves[e] = chain THEN 0 ELSE Never]]
      /\ \A e \in Telling : serves[e] \in Chains
  BY DEF PoolInit, Telling
<1>3. /\ rpc = [c \in RpcCalls |-> rpc[c]]
      /\ \A c \in RpcCalls : IsCall(rpc[c]) /\ rpc[c].at = "new"
  BY DEF PoolInit, Idle, IsCall
<1>4. PoolTypes
  BY <1>1, <1>2, <1>3 DEF PoolTypes
<1>5. OnNow
  BY <1>1, <1>2 DEF OnNow
<1>6. InTime /\ ToldOn /\ RunsKnown
  BY <1>3 DEF InTime, ToldOn, RunsKnown
<1>7. CheckedOn
  BY <1>2 DEF CheckedOn, Telling
<1>8. QED
  BY <1>4, <1>5, <1>6, <1>7 DEF IdentityInv

(* A call is made to an endpoint that tells its chain only if that was on  *)
(* the chain of the process less than the identity's life and the time of  *)
(* a report before, whichever call checked it, and whatever endpoints told *)
(* nothing (assertGrpcClientNetwork, withGrpcReadFailover,                 *)
(* executeTransactionGrpc).                                                *)
THEOREM CallsKnownChain == PoolSpec => []AsksKnownChain
<1>1. IdentityInv => AsksKnownChain
  BY DEF IdentityInv, RunsKnown, AsksKnownChain, Asks
<1>2. QED
  BY <1>1, IdentityBegins, IdentityStep, PTL DEF PoolSpec

----------------------------------------------------------------------------
LEMMA BackoffTypes == ASSUME NEW n PROVE Backoff(n) \in Nat
<1>1. \A m \in {1, 2, 4, 8} : RpcCooldown * m \in Nat
  BY RpcPoolAssumption
<1>2. \E m \in {1, 2, 4, 8} : Backoff(n) = RpcCooldown * m
  BY DEF Backoff
<1>3. QED
  BY <1>1, <1>2

\* A failure that puts an endpoint out of use is one too many.
LEMMA FailureCounted ==
  ASSUME HealthInv, NEW e \in Endpoints, RecordRpcFailure(e), UNCHANGED ticks
  PROVE  HealthInv'
<1> DEFINE n == IF consecutive[e] < MaxFailures THEN consecutive[e] + 1 ELSE MaxFailures
<1>1. /\ consecutive[e] \in 0..MaxFailures /\ MaxFailures \in Nat
      /\ FailureThreshold \in Nat /\ FailureThreshold <= MaxFailures
  BY RpcPoolAssumption DEF HealthInv
<1>2. n \in 0..MaxFailures /\ consecutive[e] <= n
  BY <1>1
<1>3. consecutive' = [consecutive EXCEPT ![e] = n]
  BY DEF RecordRpcFailure
<1>4. openUntil' = IF n >= FailureThreshold
                     THEN [openUntil EXCEPT ![e] = ticks + Backoff(n)] ELSE openUntil
  BY DEF RecordRpcFailure
<1> HIDE DEF n
<1>5. ticks \in Nat /\ ticks + Backoff(n) \in Nat
  BY BackoffTypes DEF HealthInv
<1>6. consecutive' \in [Endpoints -> 0..MaxFailures]
  BY <1>2, <1>3 DEF HealthInv
<1>7. openUntil' \in [Endpoints -> Nat]
  BY <1>4, <1>5 DEF HealthInv
<1>8. ASSUME NEW f \in Endpoints, openUntil'[f] > ticks
      PROVE  consecutive'[f] >= FailureThreshold
  <2>1. CASE f = e
    <3>1. consecutive'[f] = n
      BY <1>3, <2>1 DEF HealthInv
    <3>2. CASE n >= FailureThreshold
      BY <3>1, <3>2
    <3>3. CASE ~(n >= FailureThreshold)
      <4>1. openUntil[e] > ticks
        BY <1>4, <1>8, <2>1, <3>3
      <4>2. consecutive[e] >= FailureThreshold
        BY <4>1 DEF HealthInv, QuarantineEarned, Quarantined
      <4>3. QED
        BY <1>1, <1>2, <3>1, <4>2
    <3>4. QED
      BY <3>2, <3>3
  <2>2. CASE f # e
    <3>1. consecutive'[f] = consecutive[f] /\ openUntil'[f] = openUntil[f]
      BY <1>3, <1>4, <2>2 DEF HealthInv
    <3>2. QED
      BY <1>8, <3>1 DEF HealthInv, QuarantineEarned, Quarantined
  <2>3. QED
    BY <2>1, <2>2
<1>9. QED
  BY <1>5, <1>6, <1>7, <1>8 DEF HealthInv, QuarantineEarned, Quarantined

LEMMA SuccessCounted ==
  ASSUME HealthInv, NEW e \in Endpoints, RecordRpcSuccess(e), UNCHANGED ticks
  PROVE  HealthInv'
<1>1. MaxFailures \in Nat
  BY RpcPoolAssumption
<1>2. consecutive' \in [Endpoints -> 0..MaxFailures] /\ openUntil' \in [Endpoints -> Nat]
  BY <1>1 DEF RecordRpcSuccess, HealthInv
<1>3. QuarantineEarned'
  <2> SUFFICES ASSUME NEW f \in Endpoints, openUntil'[f] > ticks
               PROVE  consecutive'[f] >= FailureThreshold
    BY DEF QuarantineEarned, Quarantined
  <2>1. f # e
    BY DEF RecordRpcSuccess, HealthInv
  <2>2. consecutive'[f] = consecutive[f] /\ openUntil'[f] = openUntil[f]
    BY <2>1 DEF RecordRpcSuccess, HealthInv
  <2>3. QED
    BY <2>2 DEF HealthInv, QuarantineEarned, Quarantined
<1>4. QED
  BY <1>2, <1>3 DEF HealthInv

LEMMA HealthStep == HealthInv /\ [PoolNext]_poolVars => HealthInv'
<1> SUFFICES ASSUME HealthInv, [PoolNext]_poolVars PROVE HealthInv'
  OBVIOUS
<1>1. CASE UNCHANGED <<ticks, health>>
  BY <1>1 DEF health, HealthInv, QuarantineEarned, Quarantined
<1>2. ASSUME NEW c \in RpcCalls,
             ReadStarts(c) \/ ExecutionStarts(c)
             \/ \E e \in Endpoints : Reports(c, e) \/ Identified(c, e)
      PROVE  HealthInv'
  BY <1>1, <1>2 DEF ReadStarts, ExecutionStarts, Reports, Identified
<1>3. ASSUME NEW c \in RpcCalls, NEW e \in Endpoints, Answers(c, e) PROVE HealthInv'
  BY <1>1, <1>3, SuccessCounted DEF Answers
<1>4. ASSUME NEW c \in RpcCalls, NEW e \in Endpoints, Fails(c, e) PROVE HealthInv'
  BY <1>1, <1>4, FailureCounted DEF Fails
<1>5. ASSUME PoolTick PROVE HealthInv'
  <2>1. ticks' = ticks + 1 /\ UNCHANGED <<consecutive, openUntil>>
    BY <1>5 DEF PoolTick, health
  <2>2. ASSUME NEW f \in Endpoints, openUntil[f] > ticks + 1
        PROVE  consecutive[f] >= FailureThreshold
    <3>1. openUntil[f] > ticks
      BY <2>2 DEF HealthInv
    <3>2. QED
      BY <3>1 DEF HealthInv, QuarantineEarned, Quarantined
  <2>3. QED
    BY <2>1, <2>2 DEF HealthInv, QuarantineEarned, Quarantined
<1>6. ASSUME EndpointMoves PROVE HealthInv'
  BY <1>1, <1>6 DEF EndpointMoves
<1>7. CASE UNCHANGED poolVars
  BY <1>1, <1>7 DEF poolVars
<1>8. QED
  BY <1>2, <1>3, <1>4, <1>5, <1>6, <1>7 DEF PoolNext

(* An endpoint is out of use only after that many failures since it last   *)
(* answered, to whichever call (recordRpcSuccess, recordRpcFailure).       *)
THEOREM QuarantineIsEarned == PoolSpec => []QuarantineEarned
<1>1. PoolInit => HealthInv
  BY RpcPoolAssumption DEF PoolInit, HealthInv, QuarantineEarned, Quarantined
<1>2. HealthInv => QuarantineEarned
  BY DEF HealthInv
<1>3. QED
  BY <1>1, <1>2, HealthStep, PTL DEF PoolSpec

----------------------------------------------------------------------------
DbAdmitted(b) == In(b, Admitted("db"))

RowTypes ==
  /\ instant \in Nat
  /\ bucket \in [Buckets -> Nat]
  /\ stage \in [Clients -> {"new", "asking", "admitted", "refused"}]
  /\ came \in [Clients -> 0..MaxInstant]
  /\ via \in [Clients -> {"db", "memory", Absent}]

AnsweredInTime == \A r \in Clients : stage[r] = "asking" => instant <= came[r] + Delay

RowCounts(b) == ExpiresAt(b) < instant \/ Cardinality(DbAdmitted(b)) <= bucket[b]

RowInv ==
  /\ RowTypes /\ AnsweredInTime
  /\ \A b \in Buckets : RowCounts(b)
  /\ WindowBounded

----------------------------------------------------------------------------
\* A time is in the window of its bucket, one of those counted.
LEMMA InWindow ==
  ASSUME NEW t \in 0..MaxInstant
  PROVE  BucketOf(t) \in Buckets /\ t < (BucketOf(t) + 1) * Window
<1>1. MaxInstant \in Nat /\ Window \in Nat /\ Window > 0 /\ t \in Nat /\ t <= MaxInstant
  BY RateLimitAssumption
<1> DEFINE q == t \div Window
           m == MaxInstant \div Window
<1>2. q \in Nat /\ q * Window <= t /\ t < (q + 1) * Window
  BY <1>1
<1>3. m \in Nat /\ m * Window <= MaxInstant /\ MaxInstant < (m + 1) * Window
  BY <1>1
<1> HIDE DEF q, m
<1>4. q <= m
  <2>1. SUFFICES ASSUME m + 1 <= q PROVE FALSE
    BY <1>2, <1>3
  <2>2. (m + 1) * Window <= q * Window
    BY <1>1, <1>2, <1>3, <2>1
  <2>3. QED
    BY <1>1, <1>2, <1>3, <2>2
<1>5. QED
  BY <1>2, <1>3, <1>4 DEF q, m, BucketOf, Buckets

\* A request that is still to be counted keeps its row.
LEMMA RowStays ==
  ASSUME RowInv, NEW r \in Clients, stage[r] = "asking"
  PROVE  BucketOf(came[r]) \in Buckets /\ ~(ExpiresAt(BucketOf(came[r])) < instant)
<1> DEFINE b == BucketOf(came[r])
<1>1. came[r] \in 0..MaxInstant /\ instant \in Nat /\ instant <= came[r] + Delay
  BY DEF RowInv, RowTypes, AnsweredInTime
<1>2. b \in Buckets /\ came[r] < (b + 1) * Window
  BY <1>1, InWindow
<1>3. b \in Nat
  BY <1>2, RateLimitAssumption DEF Buckets
<1> HIDE DEF b
<1>4. Window \in Nat /\ Delay \in Nat /\ Delay < Window /\ MaxInstant \in Nat
  BY RateLimitAssumption
<1>5. (b + 2) * Window = (b + 1) * Window + Window /\ (b + 1) * Window \in Nat
  BY <1>3, <1>4
<1>6. ~((b + 2) * Window < instant)
  BY <1>1, <1>2, <1>4, <1>5
<1>7. QED
  BY <1>2, <1>6 DEF ExpiresAt, b

LEMMA AdmittedFinite ==
  ASSUME NEW b PROVE IsFiniteSet(DbAdmitted(b)) /\ Cardinality(DbAdmitted(b)) \in Nat
<1>1. DbAdmitted(b) \subseteq Clients
  BY DEF DbAdmitted, In, Admitted
<1>2. QED
  BY <1>1, FS_Subset, FS_CardinalityType, RateLimitAssumption

\* The rows stay as they are while no request of the database is admitted.
LEMMA RowsStay ==
  ASSUME RowInv, RowTypes', AnsweredInTime', UNCHANGED bucket, instant <= instant',
         \A b \in Buckets : DbAdmitted(b)' = DbAdmitted(b)
  PROVE  RowInv'
<1>1. ASSUME NEW b \in Buckets PROVE RowCounts(b)'
  <2>1. CASE ExpiresAt(b) < instant
    <3>1. ExpiresAt(b) \in Int /\ instant \in Int /\ instant' \in Int
      BY RateLimitAssumption DEF ExpiresAt, Buckets, RowInv, RowTypes
    <3>2. QED
      BY <2>1, <3>1 DEF RowCounts
  <2>2. CASE Cardinality(DbAdmitted(b)) <= bucket[b]
    BY <2>2 DEF RowCounts
  <2>3. QED
    BY <2>1, <2>2 DEF RowInv, RowCounts
<1>2. WindowBounded'
  BY DEF RowInv, WindowBounded, DbAdmitted
<1>3. QED
  BY <1>1, <1>2 DEF RowInv

LEMMA CountsStep ==
  ASSUME RowInv, NEW r \in Clients, Counts(r) PROVE RowInv'
<1>0. PICK b : b = BucketOf(came[r])
  OBVIOUS
<1>1. b \in Buckets /\ ~(ExpiresAt(b) < instant)
  BY <1>0, RowStays DEF Counts
<1>2. bucket[b] \in Nat /\ Limit \in Nat
  BY <1>1, RateLimitAssumption DEF RowInv, RowTypes
<1>3. /\ bucket' = [bucket EXCEPT ![b] = bucket[b] + 1]
      /\ bucket'[b] = bucket[b] + 1 /\ UNCHANGED <<instant, came>>
      /\ stage[r] = "asking"
  BY <1>0, <1>1 DEF Counts, RowInv, RowTypes
<1>4. Decide(r, bucket[b] + 1, "db")
  BY <1>0, <1>3 DEF Counts
<1>5. Cardinality(DbAdmitted(b)) <= bucket[b]
  BY <1>1 DEF RowInv, RowCounts
<1>6. RowTypes'
  BY <1>2, <1>3, <1>4 DEF RowInv, RowTypes, Decide
<1>7. AnsweredInTime'
  BY <1>3, <1>4 DEF RowInv, RowTypes, AnsweredInTime, Decide
<1>8. ASSUME NEW c \in Buckets, c # b PROVE DbAdmitted(c)' = DbAdmitted(c)
  BY <1>0, <1>3, <1>4, <1>8 DEF RowInv, RowTypes, Decide, DbAdmitted, In, Admitted
<1>9. CASE bucket[b] + 1 > Limit
  <2>1. DbAdmitted(b)' = DbAdmitted(b)
    BY <1>0, <1>3, <1>4, <1>9 DEF RowInv, RowTypes, Decide, DbAdmitted, In, Admitted
  <2>2. Cardinality(DbAdmitted(b)') <= bucket'[b]
    BY <1>2, <1>3, <1>5, <2>1, AdmittedFinite
  <2>3. ASSUME NEW c \in Buckets PROVE DbAdmitted(c)' = DbAdmitted(c)
    <3>1. CASE c = b
      BY <2>1, <3>1
    <3>2. CASE c # b
      BY <1>8, <3>2
    <3>3. QED
      BY <3>1, <3>2
  <2>4. WindowBounded'
    BY <2>3 DEF RowInv, WindowBounded, DbAdmitted
  <2>5. \A c \in Buckets : RowCounts(c)'
    BY <1>3, <2>2, <2>3 DEF RowInv, RowTypes, RowCounts, ExpiresAt
  <2>6. QED
    BY <1>6, <1>7, <2>4, <2>5 DEF RowInv
<1>10. CASE ~(bucket[b] + 1 > Limit)
  <2>1. DbAdmitted(b)' = DbAdmitted(b) \cup {r} /\ r \notin DbAdmitted(b)
    BY <1>0, <1>3, <1>4, <1>10 DEF RowInv, RowTypes, Decide, DbAdmitted, In, Admitted
  <2>2. Cardinality(DbAdmitted(b)') = Cardinality(DbAdmitted(b)) + 1
    BY <2>1, AdmittedFinite, FS_AddElement
  <2>3. Cardinality(DbAdmitted(b)') <= bucket'[b] /\ Cardinality(DbAdmitted(b)') <= Limit
    BY <1>2, <1>3, <1>5, <1>10, <2>2, AdmittedFinite
  <2>4. WindowBounded'
    <3> SUFFICES ASSUME NEW c \in Buckets PROVE Cardinality(DbAdmitted(c)') <= Limit
      BY DEF WindowBounded, DbAdmitted
    <3>1. CASE c = b
      BY <2>3, <3>1
    <3>2. CASE c # b
      <4>1. Cardinality(DbAdmitted(c)) <= Limit
        BY DEF RowInv, WindowBounded, DbAdmitted
      <4>2. QED
        BY <1>8, <3>2, <4>1
    <3>3. QED
      BY <3>1, <3>2
  <2>5. \A c \in Buckets : RowCounts(c)'
    BY <1>3, <1>8, <2>3 DEF RowInv, RowTypes, RowCounts, ExpiresAt
  <2>6. QED
    BY <1>6, <1>7, <2>4, <2>5 DEF RowInv
<1>11. QED
  BY <1>9, <1>10

LEMMA RowStep == RowInv /\ [LimiterNext]_limiterVars => RowInv'
<1> SUFFICES ASSUME RowInv, [LimiterNext]_limiterVars PROVE RowInv'
  OBVIOUS
<1>1. ASSUME NEW r \in Clients, Comes(r) PROVE RowInv'
  <2>1. instant \in Nat /\ instant <= MaxInstant /\ MaxInstant \in Nat /\ Delay \in Nat
    BY <1>1, RateLimitAssumption DEF Comes, RowInv, RowTypes
  <2>2. came' \in [Clients -> 0..MaxInstant]
    BY <1>1, <2>1 DEF Comes, RowInv, RowTypes
  <2>3. RowTypes'
    BY <1>1, <2>2 DEF Comes, RowInv, RowTypes
  <2>4. AnsweredInTime'
    BY <1>1, <2>1 DEF Comes, RowInv, RowTypes, AnsweredInTime
  <2>5. \A b \in Buckets : DbAdmitted(b)' = DbAdmitted(b)
    BY <1>1 DEF Comes, RowInv, RowTypes, DbAdmitted, In, Admitted
  <2>6. QED
    BY <1>1, <2>1, <2>3, <2>4, <2>5, RowsStay DEF Comes
<1>2. ASSUME NEW r \in Clients, Counts(r) PROVE RowInv'
  BY <1>2, CountsStep
<1>3. ASSUME NEW r \in Clients, CountsInMemory(r) PROVE RowInv'
  <2>1. UNCHANGED <<instant, bucket, came>> /\ stage[r] = "asking" /\ instant \in Nat
    BY <1>3 DEF CountsInMemory, RowInv, RowTypes
  <2>2. PICK n : Decide(r, n, "memory")
    BY <1>3 DEF CountsInMemory
  <2>3. RowTypes'
    BY <2>1, <2>2 DEF RowInv, RowTypes, Decide
  <2>4. AnsweredInTime'
    BY <2>1, <2>2 DEF RowInv, RowTypes, AnsweredInTime, Decide
  <2>5. \A b \in Buckets : DbAdmitted(b)' = DbAdmitted(b)
    BY <2>1, <2>2 DEF RowInv, RowTypes, Decide, DbAdmitted, In, Admitted
  <2>6. QED
    BY <2>1, <2>3, <2>4, <2>5, RowsStay
<1>4. ASSUME Sweep PROVE RowInv'
  <2>1. UNCHANGED <<instant, stage, came, via>>
    BY <1>4 DEF Sweep
  <2>2. bucket' = [b \in Buckets |-> IF ExpiresAt(b) < instant THEN 0 ELSE bucket[b]]
    BY <1>4 DEF Sweep
  <2>3. RowTypes' /\ AnsweredInTime'
    BY <2>1, <2>2 DEF RowInv, RowTypes, AnsweredInTime
  <2>4. \A b \in Buckets : DbAdmitted(b)' = DbAdmitted(b)
    BY <2>1 DEF DbAdmitted, In, Admitted
  <2>5. \A b \in Buckets : RowCounts(b)'
    BY <2>1, <2>2, <2>4 DEF RowInv, RowCounts, ExpiresAt
  <2>6. QED
    BY <2>3, <2>4, <2>5 DEF RowInv, WindowBounded, DbAdmitted
<1>5. ASSUME LimiterTick PROVE RowInv'
  <2>1. UNCHANGED <<bucket, stage, came, via>> /\ instant' = instant + 1 /\ instant \in Nat
    BY <1>5 DEF LimiterTick, RowInv, RowTypes
  <2>2. \A r \in Clients : stage[r] = "asking" => instant < came[r] + Delay
    BY <1>5 DEF LimiterTick
  <2>3. RowTypes'
    BY <2>1 DEF RowInv, RowTypes
  <2>4. AnsweredInTime'
    <3> SUFFICES ASSUME NEW r \in Clients, stage[r] = "asking"
                 PROVE  instant + 1 <= came[r] + Delay
      BY <2>1 DEF AnsweredInTime
    <3>1. came[r] \in Nat /\ Delay \in Nat /\ instant < came[r] + Delay
      BY <2>2, RateLimitAssumption DEF RowInv, RowTypes
    <3>2. QED
      BY <2>1, <3>1
  <2>5. \A b \in Buckets : DbAdmitted(b)' = DbAdmitted(b)
    BY <2>1 DEF DbAdmitted, In, Admitted
  <2>6. QED
    BY <2>1, <2>3, <2>4, <2>5, RowsStay
<1>6. ASSUME \/ \E p \in Processes : OtherComes(p)
             \/ UNCHANGED limiterVars
      PROVE  RowInv'
  <2>1. UNCHANGED <<instant, bucket, stage, came, via>>
    BY <1>6 DEF OtherComes, limiterVars
  <2>2. QED
    BY <2>1 DEF RowInv, RowTypes, AnsweredInTime, RowCounts, WindowBounded, DbAdmitted, In,
                Admitted
<1>7. QED
  BY <1>1, <1>2, <1>3, <1>4, <1>5, <1>6 DEF LimiterNext

LEMMA RowInit == LimiterInit => RowInv
<1> SUFFICES ASSUME LimiterInit PROVE RowInv
  OBVIOUS
<1>1. RowTypes /\ AnsweredInTime
  BY RateLimitAssumption DEF LimiterInit, RowTypes, AnsweredInTime
<1>2. \A b \in Buckets : DbAdmitted(b) = {}
  BY DEF LimiterInit, DbAdmitted, In, Admitted
<1>3. Cardinality({}) = 0 /\ Limit \in Nat
  BY FS_EmptySet, RateLimitAssumption
<1>4. QED
  BY <1>1, <1>2, <1>3 DEF LimiterInit, RowInv, RowCounts, WindowBounded, DbAdmitted

(* Across all processes, the database admits no more than the limit of the *)
(* requests that came in one window, though the cleanup job may sweep a    *)
(* row while the write of one of its requests is late (rate-limit.ts).     *)
THEOREM DatabaseBounds == LimiterSpec => []WindowBounded
<1>1. RowInv => WindowBounded
  BY DEF RowInv
<1>2. QED
  BY <1>1, RowInit, RowStep, PTL DEF LimiterSpec

----------------------------------------------------------------------------
ByItself(p) == {r \in Admitted("memory") : by[r] = p}

EntryCounts(p) ==
  /\ \A r \in ByItself(p) : came[r] < window[p].resetAt \/ came[r] < pruned[p]
  /\ Cardinality(Recent(p)) <= window[p].count /\ Cardinality(Recent(p)) <= Limit

EntryInv ==
  /\ RowTypes
  /\ window \in [Processes -> Entries] /\ by \in [Clients -> Processes]
  /\ pruned \in [Processes -> Int]
  /\ \A p \in Processes : EntryCounts(p)

\* The entries are right while no process admits by itself.
LEMMA EntriesStay ==
  ASSUME EntryInv, RowTypes', UNCHANGED <<window, pruned, by>>,
         Admitted("memory")' = Admitted("memory"),
         \A r \in Admitted("memory") : came'[r] = came[r]
  PROVE  EntryInv'
<1>1. ASSUME NEW p \in Processes PROVE EntryCounts(p)'
  <2>1. ByItself(p)' = ByItself(p) /\ \A r \in ByItself(p) : came'[r] = came[r]
    BY DEF ByItself
  <2>2. Recent(p)' = Recent(p)
    BY DEF Recent, SinceBegun
  <2>3. QED
    BY <2>1, <2>2 DEF EntryInv, EntryCounts
<1>2. QED
  BY <1>1 DEF EntryInv

\* They stay right as a process removes what has ended: none that it has
\* admitted came after that.
LEMMA PruneStep ==
  ASSUME EntryInv, RowTypes', UNCHANGED by, NEW p \in Processes, Prune(p),
         Admitted("memory")' = Admitted("memory"),
         \A r \in Admitted("memory") : came'[r] = came[r]
  PROVE  EntryInv'
<1>1. CASE UNCHANGED <<window, pruned>>
  BY <1>1, EntriesStay
<1>2. CASE ~ UNCHANGED <<window, pruned>>
  <2>1. /\ instant - pruned[p] >= PruneGap /\ PruneGap \in Nat /\ instant \in Nat
        /\ pruned' = [pruned EXCEPT ![p] = instant]
        /\ window' = [window EXCEPT ![p] = IF window[p].resetAt <= instant THEN NoEntry
                                                                        ELSE window[p]]
    BY <1>2, RateLimitAssumption DEF Prune, EntryInv, RowTypes
  <2>2. pruned[p] \in Int /\ pruned[p] <= instant /\ window[p] \in Entries
    BY <2>1 DEF EntryInv
  <2>3. NoEntry \in Entries /\ NoEntry.count = 0
    BY DEF NoEntry, Entries
  <2>4. window' \in [Processes -> Entries] /\ pruned' \in [Processes -> Int]
    BY <2>1, <2>2, <2>3 DEF EntryInv
  <2>5. pruned'[p] = instant
        /\ window'[p] = IF window[p].resetAt <= instant THEN NoEntry ELSE window[p]
    BY <2>1 DEF EntryInv
  <2>6. \A q \in Processes : ByItself(q)' = ByItself(q) /\ ByItself(q) \subseteq Clients
                             /\ \A r \in ByItself(q) : came'[r] = came[r] /\ came[r] \in Nat
    BY DEF ByItself, Admitted, EntryInv, RowTypes
  <2>7. ASSUME NEW q \in Processes, q # p PROVE EntryCounts(q)'
    <3>1. window'[q] = window[q] /\ pruned'[q] = pruned[q]
      BY <2>1, <2>7 DEF EntryInv
    <3>2. Recent(q)' = Recent(q)
      BY <3>1 DEF Recent, SinceBegun
    <3>3. QED
      BY <2>6, <3>1, <3>2 DEF EntryInv, EntryCounts
  <2>8. window[p].resetAt \in Nat /\ window[p].count \in Nat
    BY <2>2 DEF Entries
  <2>9. \A r \in ByItself(p) : came[r] < window[p].resetAt \/ came[r] < pruned[p]
    BY DEF EntryInv, EntryCounts
  <2>10. EntryCounts(p)'
    <3>1. CASE window[p].resetAt <= instant
      <4>1. \A r \in ByItself(p) : came[r] < instant
        BY <2>1, <2>2, <2>6, <2>8, <2>9, <3>1
      <4>2. \A r \in Recent(p)' : r \in ByItself(p)' /\ came'[r] >= pruned'[p]
        BY DEF Recent, SinceBegun, ByItself
      <4>3. Recent(p)' = {}
        BY <2>1, <2>5, <2>6, <4>1, <4>2
      <4>4. Cardinality({}) = 0 /\ Limit \in Nat
        BY FS_EmptySet, RateLimitAssumption
      <4>5. QED
        BY <2>3, <2>5, <2>6, <3>1, <4>1, <4>3, <4>4 DEF EntryCounts
    <3>2. CASE ~(window[p].resetAt <= instant)
      <4>1. window'[p] = window[p]
        BY <2>5, <3>2
      <4>2. ASSUME NEW r \in Recent(p)' PROVE r \in Recent(p)
        <5>1. r \in Clients /\ r \in ByItself(p)' /\ r \in ByItself(p)
              /\ came'[r] >= window'[p].resetAt - Window /\ came'[r] >= pruned'[p]
          BY <2>6 DEF Recent, SinceBegun, ByItself
        <5>2. came[r] \in Nat /\ came[r] >= window[p].resetAt - Window /\ came[r] >= pruned[p]
          BY <2>1, <2>2, <2>5, <2>6, <4>1, <5>1
        <5>3. QED
          BY <5>1, <5>2 DEF Recent, SinceBegun, ByItself
      <4>3. Recent(p)' \subseteq Recent(p)
        BY <4>2
      <4>4. IsFiniteSet(Recent(p)) /\ Cardinality(Recent(p)) \in Nat
        <5>1. Recent(p) \subseteq Clients
          BY DEF Recent, SinceBegun, Admitted
        <5>2. QED
          BY <5>1, FS_Subset, FS_CardinalityType, RateLimitAssumption
      <4>5. Cardinality(Recent(p)') <= Cardinality(Recent(p)) /\ Cardinality(Recent(p)') \in Nat
        BY <4>3, <4>4, FS_Subset, FS_CardinalityType
      <4>6. Cardinality(Recent(p)) <= window[p].count /\ Cardinality(Recent(p)) <= Limit
        BY DEF EntryInv, EntryCounts
      <4>7. Cardinality(Recent(p)') <= window'[p].count /\ Cardinality(Recent(p)') <= Limit
        BY <2>8, <4>1, <4>4, <4>5, <4>6, RateLimitAssumption
      <4>8. \A r \in ByItself(p)' : came'[r] < window'[p].resetAt \/ came'[r] < pruned'[p]
        <5>1. pruned[p] <= pruned'[p] /\ pruned'[p] \in Nat
          BY <2>1, <2>2, <2>5
        <5>2. ASSUME NEW r \in ByItself(p)
              PROVE  came'[r] < window'[p].resetAt \/ came'[r] < pruned'[p]
          <6>1. /\ came'[r] = came[r] /\ came[r] \in Nat
                /\ came[r] < window[p].resetAt \/ came[r] < pruned[p]
            BY <2>6, <2>9
          <6>2. QED
            BY <2>2, <4>1, <5>1, <6>1
        <5>3. QED
          BY <2>6, <5>2
      <4>9. QED
        BY <4>7, <4>8 DEF EntryCounts
    <3>3. QED
      BY <3>1, <3>2
  <2>11. \A q \in Processes : EntryCounts(q)'
    BY <2>7, <2>10
  <2>12. QED
    BY <2>4, <2>11 DEF EntryInv
<1>3. QED
  BY <1>1, <1>2

LEMMA MemoryStep ==
  ASSUME EntryInv, NEW r \in Clients, CountsInMemory(r) PROVE EntryInv'
<1>0. PICK p \in Processes : p = by[r]
  BY DEF EntryInv
<1>1. PICK old, new : old \in Entries /\ old = window[p] /\ new = Entry(old, came[r])
  BY <1>0 DEF EntryInv
<1>2. /\ came[r] \in Nat /\ Window \in Nat \ {0} /\ Limit \in Nat \ {0}
      /\ old.count \in Nat /\ old.resetAt \in Nat
  <2>1. came[r] \in Nat
    BY RateLimitAssumption DEF EntryInv, RowTypes
  <2>2. old.count \in Nat /\ old.resetAt \in Nat
    BY <1>1 DEF Entries
  <2>3. QED
    BY <2>1, <2>2, RateLimitAssumption
<1>3. /\ new \in Entries
      /\ old.resetAt <= came[r] => new.count = 1 /\ new.resetAt = came[r] + Window
      /\ ~(old.resetAt <= came[r]) => new.count = old.count + 1 /\ new.resetAt = old.resetAt
  BY <1>1, <1>2 DEF Entry, Entries
<1>4. /\ window' = [window EXCEPT ![p] = new] /\ window'[p] = new
      /\ UNCHANGED <<instant, bucket, pruned, came, by>> /\ stage[r] = "asking"
  BY <1>0, <1>1 DEF CountsInMemory, EntryInv
<1>5. Decide(r, new.count, "memory")
  BY <1>0, <1>4 DEF CountsInMemory
<1>6. RowTypes'
  BY <1>4, <1>5 DEF EntryInv, RowTypes, Decide
<1>7. window' \in [Processes -> Entries]
  BY <1>3, <1>4 DEF EntryInv
<1>8. Admitted("memory")' = IF new.count > Limit THEN Admitted("memory")
                                                ELSE Admitted("memory") \cup {r}
  BY <1>4, <1>5 DEF EntryInv, RowTypes, Decide, Admitted
<1>9. r \notin Admitted("memory")
  BY <1>4 DEF Admitted
<1>10. ASSUME NEW q \in Processes, q # p PROVE EntryCounts(q)'
  <2>1. window'[q] = window[q]
    BY <1>4, <1>10 DEF EntryInv
  <2>2. ByItself(q)' = ByItself(q) /\ Recent(q)' = Recent(q)
    BY <1>0, <1>4, <1>8, <1>10, <2>1 DEF ByItself, Recent, SinceBegun
  <2>3. QED
    BY <1>4, <2>1, <2>2 DEF EntryInv, EntryCounts
<1>11. \A s \in ByItself(p) : came[s] \in Nat
                             /\ (came[s] < old.resetAt \/ came[s] < pruned[p])
  BY <1>1 DEF EntryInv, EntryCounts, RowTypes, ByItself, Admitted
<1>12. \A s \in ByItself(p)' : came[s] < new.resetAt \/ came[s] < pruned[p]
  <2>1. ByItself(p)' \subseteq ByItself(p) \cup {r}
    BY <1>4, <1>8 DEF ByItself
  <2>2. came[r] < new.resetAt /\ new.resetAt \in Nat /\ old.resetAt <= new.resetAt
    BY <1>2, <1>3 DEF Entries
  <2>3. ASSUME NEW s \in ByItself(p) PROVE came[s] < new.resetAt \/ came[s] < pruned[p]
    BY <1>2, <1>11, <2>2
  <2>4. QED
    BY <2>1, <2>2, <2>3
<1>13. IsFiniteSet(Recent(p)) /\ Cardinality(Recent(p)) \in Nat
  <2>1. Recent(p) \subseteq Clients
    BY DEF Recent, SinceBegun, Admitted
  <2>2. QED
    BY <2>1, FS_Subset, FS_CardinalityType, RateLimitAssumption
<1>14. Cardinality(Recent(p)) <= old.count /\ Cardinality(Recent(p)) <= Limit
  BY <1>1 DEF EntryInv, EntryCounts
<1>15. Cardinality(Recent(p)') <= new.count /\ Cardinality(Recent(p)') <= Limit
  <2>1. CASE old.resetAt <= came[r]
    <3>1. ASSUME NEW s \in Recent(p)' PROVE s = r
      <4>1. /\ s \in ByItself(p)' /\ came[s] >= new.resetAt - Window
            /\ came[s] >= pruned[p] /\ pruned[p] \in Int
        BY <1>4 DEF Recent, SinceBegun, ByItself, EntryInv
      <4>2. CASE s \in ByItself(p)
        BY <1>2, <1>3, <1>11, <2>1, <4>1, <4>2
      <4>3. CASE s \notin ByItself(p)
        BY <1>4, <1>8, <4>1, <4>3 DEF ByItself
      <4>4. QED
        BY <4>2, <4>3
    <3>2. Recent(p)' \in SUBSET {r}
      BY <3>1
    <3>3. IsFiniteSet({r}) /\ Cardinality({r}) = 1
      BY FS_Singleton
    <3>4. Cardinality(Recent(p)') <= 1 /\ Cardinality(Recent(p)') \in Nat
      BY <3>2, <3>3, FS_Subset, FS_CardinalityType
    <3>5. QED
      BY <1>2, <1>3, <2>1, <3>4
  <2>2. CASE ~(old.resetAt <= came[r])
    <3>1. new.count = old.count + 1 /\ new.resetAt = old.resetAt
      BY <1>3, <2>2
    <3>2. CASE new.count > Limit
      <4>1. Recent(p)' = Recent(p)
        BY <1>1, <1>4, <1>8, <3>1, <3>2 DEF Recent, SinceBegun
      <4>2. QED
        BY <1>2, <1>13, <1>14, <3>1, <4>1
    <3>3. CASE ~(new.count > Limit)
      <4>1. Recent(p)' \in SUBSET (Recent(p) \cup {r})
        BY <1>1, <1>4, <1>8, <3>1, <3>3 DEF Recent, SinceBegun
      <4>2. /\ IsFiniteSet(Recent(p) \cup {r})
            /\ Cardinality(Recent(p) \cup {r}) <= Cardinality(Recent(p)) + 1
            /\ Cardinality(Recent(p) \cup {r}) \in Nat
        <5>1. /\ IsFiniteSet(Recent(p) \cup {r})
              /\ \/ Cardinality(Recent(p) \cup {r}) = Cardinality(Recent(p))
                 \/ Cardinality(Recent(p) \cup {r}) = Cardinality(Recent(p)) + 1
          BY <1>13, FS_AddElement
        <5>2. QED
          BY <1>13, <5>1
      <4>3. /\ Cardinality(Recent(p)') <= Cardinality(Recent(p) \cup {r})
            /\ Cardinality(Recent(p)') \in Nat
        BY <4>1, <4>2, FS_Subset, FS_CardinalityType
      <4>4. QED
        BY <1>2, <1>13, <1>14, <3>1, <3>3, <4>2, <4>3
    <3>4. QED
      BY <3>2, <3>3
  <2>3. QED
    BY <2>1, <2>2
<1>16. EntryCounts(p)'
  BY <1>4, <1>12, <1>15 DEF EntryCounts
<1>17. ASSUME NEW q \in Processes PROVE EntryCounts(q)'
  <2>1. CASE q = p
    BY <1>16, <2>1
  <2>2. CASE q # p
    BY <1>10, <2>2
  <2>3. QED
    BY <2>1, <2>2
<1>18. QED
  BY <1>4, <1>6, <1>7, <1>17 DEF EntryInv

LEMMA EntryStep == RowInv /\ EntryInv /\ RowInv' /\ [LimiterNext]_limiterVars => EntryInv'
<1> SUFFICES ASSUME EntryInv, RowTypes', [LimiterNext]_limiterVars PROVE EntryInv'
  BY DEF RowInv
<1>1. ASSUME NEW r \in Clients, Comes(r) PROVE EntryInv'
  <2>1. Admitted("memory")' = Admitted("memory") /\ r \notin Admitted("memory")
    BY <1>1 DEF Comes, EntryInv, RowTypes, Admitted
  <2>2. UNCHANGED by /\ \A s \in Admitted("memory") : came'[s] = came[s]
    BY <1>1, <2>1 DEF Comes, EntryInv, RowTypes, Admitted
  <2>3. by[r] \in Processes /\ Prune(by[r])
    BY <1>1 DEF Comes, EntryInv
  <2>4. QED
    BY <2>1, <2>2, <2>3, PruneStep
<1>2. ASSUME NEW r \in Clients, Counts(r) PROVE EntryInv'
  <2>1. UNCHANGED <<window, pruned, by, came>> /\ stage[r] = "asking"
    BY <1>2 DEF Counts
  <2>2. PICK n : Decide(r, n, "db")
    BY <1>2 DEF Counts
  <2>3. Admitted("memory")' = Admitted("memory")
    BY <2>1, <2>2 DEF Decide, EntryInv, RowTypes, Admitted
  <2>4. QED
    BY <2>1, <2>3, EntriesStay
<1>3. ASSUME NEW r \in Clients, CountsInMemory(r) PROVE EntryInv'
  BY <1>3, MemoryStep
<1>4. ASSUME Sweep \/ LimiterTick \/ UNCHANGED limiterVars PROVE EntryInv'
  <2>1. UNCHANGED <<window, pruned, by, came, stage, via>>
    BY <1>4 DEF Sweep, LimiterTick, limiterVars
  <2>2. Admitted("memory")' = Admitted("memory")
    BY <2>1 DEF Admitted
  <2>3. QED
    BY <2>1, <2>2, EntriesStay
<1>5. ASSUME NEW p \in Processes, OtherComes(p) PROVE EntryInv'
  <2>1. UNCHANGED <<by, came, stage, via>> /\ Prune(p)
    BY <1>5 DEF OtherComes
  <2>2. Admitted("memory")' = Admitted("memory")
    BY <2>1 DEF Admitted
  <2>3. QED
    BY <2>1, <2>2, PruneStep
<1>6. QED
  BY <1>1, <1>2, <1>3, <1>4, <1>5 DEF LimiterNext

LEMMA EntryBegins == LimiterInit => EntryInv
<1> SUFFICES ASSUME LimiterInit PROVE EntryInv
  OBVIOUS
<1>1. RowTypes
  BY RowInit DEF RowInv
<1>2. \A p \in Processes : Recent(p) = {} /\ ByItself(p) = {}
  BY DEF LimiterInit, Recent, SinceBegun, ByItself, Admitted
<1>3. Cardinality({}) = 0 /\ Limit \in Nat /\ PruneGap \in Nat /\ NoEntry.count = 0
  BY FS_EmptySet, RateLimitAssumption DEF NoEntry
<1>4. window \in [Processes -> Entries] /\ pruned \in [Processes -> Int]
  BY <1>3 DEF LimiterInit, NoEntry, Entries
<1>5. QED
  BY <1>1, <1>2, <1>3, <1>4 DEF LimiterInit, EntryInv, EntryCounts

(* A process that counts by itself, because the database fails, admits no  *)
(* more than the limit in any window's length that ends before its entry   *)
(* does, of the requests that came since it last removed what had ended,   *)
(* in whatever order the failures come (rate-limit.ts).                    *)
THEOREM FallbackBounds == LimiterSpec => []FallbackBounded
<1>1. EntryInv => FallbackBounded
  BY DEF EntryInv, EntryCounts, FallbackBounded
<1>2. QED
  BY <1>1, RowInit, RowStep, EntryBegins, EntryStep, PTL DEF LimiterSpec
-----------------------------------------------------------------------------
(* The age of prices. *)

(* The copy is not of the future, and its price was no older then.         *)
Aged(kept, age) ==
  kept # NoPoint => kept.at <= clock /\ kept.at - kept.updatedAt <= age

ServedAge == MaxStale + PriceTtl
EdgeAge == ServedAge + OthersWait
PageAge == EdgeAge + EdgeFresh + EdgeStale

FeedInv ==
  /\ FeedTypeOK
  /\ Aged(stored, MaxStale)
  /\ Aged(gathered, ServedAge)
  /\ gathered # NoPoint => clock <= gathered.at + OthersWait
  /\ Aged(edge, EdgeAge)
  /\ Aged(page, PageAge)
  /\ Aged(shown, PageAge + PageTtl)

----------------------------------------------------------------------------
(* What is served to the edge, and perhaps to the page, is no older than   *)
(* a price of the server's entry may be.                                   *)
LEMMA EdgeTakesYoung ==
  ASSUME FeedInv, NEW t \in Times, EdgeTakes(t), clock - t <= EdgeAge,
         clock' = clock
  PROVE  /\ {edge', page', shown'} \subseteq Kept
         /\ edgeWaits' \in BOOLEAN /\ pageWaits' \in BOOLEAN
         /\ Aged(edge, EdgeAge)' /\ Aged(page, PageAge)' /\ Aged(shown, PageAge + PageTtl)'
<1> USE PriceFeedAssumption DEF ServedAge, EdgeAge, PageAge
<1>1. clock \in 0..MaxClock /\ {edge, page, shown} \subseteq Kept /\ t \in Int
  BY DEF FeedInv, FeedTypeOK, Times
<1>2. Now(t) \in Kept /\ Now(t).at = clock /\ Now(t).updatedAt = t
  BY <1>1 DEF Now, Kept
<1>3. edge' = Now(t) /\ edgeWaits' = FALSE /\ pageWaits' = FALSE
  BY DEF EdgeTakes
<1>4. (page' = Now(t) /\ shown' = Now(t)) \/ (page' = page /\ shown' = shown)
  BY DEF EdgeTakes, PageTakes
<1>5. Aged(edge, EdgeAge)'
  BY <1>1, <1>2, <1>3 DEF Aged
<1>6. Aged(page, PageAge)' /\ Aged(shown, PageAge + PageTtl)'
  <2>1. CASE page' = Now(t) /\ shown' = Now(t)
    <3>1. clock - t <= PageAge /\ clock - t <= PageAge + PageTtl
      BY <1>1
    <3>2. QED
      BY <1>1, <1>2, <2>1, <3>1 DEF Aged
  <2>2. CASE page' = page /\ shown' = shown
    <3>1. Aged(page, PageAge) /\ Aged(shown, PageAge + PageTtl)
      BY DEF FeedInv
    <3>2. QED
      BY <2>2, <3>1 DEF Aged
  <2>3. QED
    BY <1>4, <2>1, <2>2
<1>7. QED
  BY <1>1, <1>2, <1>3, <1>4, <1>5, <1>6

\* A GET has a price that is no older than the server may have one.
LEMMA GathersYoung ==
  ASSUME FeedInv, NEW t \in Times, clock - t <= ServedAge, clock' = clock,
         gathered' = Now(t) \/ gathered' = gathered
  PROVE  /\ gathered' \in Kept /\ Aged(gathered, ServedAge)'
         /\ gathered' # NoPoint => clock' <= gathered'.at + OthersWait
<1> USE PriceFeedAssumption
<1>1. clock \in 0..MaxClock /\ gathered \in Kept /\ t \in Int
  BY DEF FeedInv, FeedTypeOK, Times
<1>2. Now(t) \in Kept /\ Now(t).at = clock /\ Now(t).updatedAt = t
  BY <1>1 DEF Now, Kept
<1>3. CASE gathered' = Now(t)
  BY <1>1, <1>2, <1>3 DEF Aged
<1>4. CASE gathered' = gathered
  BY <1>1, <1>4 DEF FeedInv, Aged
<1>5. QED
  BY <1>3, <1>4

(* Time passes without ageing what was served. *)
LEMMA FeedInvStep == FeedInv /\ [FeedNext]_feedVars => FeedInv'
<1> USE PriceFeedAssumption
<1> SUFFICES ASSUME FeedInv, [FeedNext]_feedVars PROVE FeedInv'
  OBVIOUS
<1>1. /\ FeedTypeOK /\ Aged(stored, MaxStale) /\ Aged(edge, EdgeAge)
      /\ Aged(page, PageAge) /\ Aged(shown, PageAge + PageTtl)
      /\ Aged(gathered, ServedAge)
      /\ gathered # NoPoint => clock <= gathered.at + OthersWait
  BY DEF FeedInv
<1>2. /\ clock \in 0..MaxClock /\ loading \in 0..Len(Order)
      /\ {stored, gathered, edge, page, shown} \subseteq Kept
      /\ edgeWaits \in BOOLEAN /\ pageWaits \in BOOLEAN /\ Len(Order) \in Nat
  BY <1>1 DEF FeedTypeOK
<1>3. ASSUME NEW t \in Times, ProviderAnswers(t) PROVE FeedInv'
  <2>1. t \in Int /\ clock - t <= MaxStale /\ stored' = Now(t) /\ loading' = 0 /\ clock' = clock
    BY <1>3 DEF ProviderAnswers, Acceptable, Times
  <2>2. stored' \in Kept /\ Aged(stored, MaxStale)'
    BY <1>2, <2>1 DEF Now, Kept, Aged
  <2>3. (gathered' = Now(t) \/ gathered' = gathered)
        /\ UNCHANGED <<edge, page, edgeWaits, pageWaits, shown>>
    BY <1>3 DEF ProviderAnswers, Gathers
  <2>4. clock - t <= ServedAge
    BY <1>2, <2>1 DEF ServedAge
  <2>5. /\ gathered' \in Kept /\ Aged(gathered, ServedAge)'
        /\ gathered' # NoPoint => clock' <= gathered'.at + OthersWait
    BY <1>1, <1>2, <2>1, <2>3, <2>4, GathersYoung
  <2>6. QED
    BY <1>1, <1>2, <2>1, <2>2, <2>3, <2>5 DEF FeedInv, FeedTypeOK, Aged
<1>4. ASSUME ProviderFails PROVE FeedInv'
  <2>1. loading' \in 0..Len(Order)
    BY <1>2, <1>4 DEF ProviderFails
  <2>0. edgeWaits' \in BOOLEAN /\ pageWaits' \in BOOLEAN
    BY <1>2, <1>4, Zenon DEF ProviderFails
  <2>2. UNCHANGED <<clock, stored, gathered, edge, page, shown>>
    BY <1>4 DEF ProviderFails
  <2>3. QED
    BY <1>1, <1>2, <2>0, <2>1, <2>2 DEF FeedInv, FeedTypeOK, Aged
<1>5. ASSUME NEW forEdge \in BOOLEAN, FetchBestPrice(forEdge),
             UNCHANGED <<clock, stored, edge, page, edgeWaits, pageWaits, shown>>
      PROVE  FeedInv'
  <2>1. CASE Younger(stored, PriceTtl)
    <3>1. /\ stored.updatedAt \in Times /\ stored.updatedAt \in Int /\ stored.at \in Int
          /\ clock - stored.at < PriceTtl /\ stored.at - stored.updatedAt <= MaxStale
      BY <1>1, <1>2, <2>1 DEF Younger, Kept, Times, Aged
    <3>2. loading' = loading
          /\ (gathered' = Now(stored.updatedAt) \/ gathered' = gathered)
      BY <1>5, <2>1 DEF FetchBestPrice, Gathers
    <3>3. clock - stored.updatedAt <= ServedAge
      BY <1>2, <3>1 DEF ServedAge
    <3>4. /\ gathered' \in Kept /\ Aged(gathered, ServedAge)'
          /\ gathered' # NoPoint => clock' <= gathered'.at + OthersWait
      BY <1>1, <1>2, <1>5, <3>1, <3>2, <3>3, GathersYoung
    <3>5. QED
      BY <1>1, <1>2, <1>5, <3>2, <3>4 DEF FeedInv, FeedTypeOK, Aged
  <2>2. CASE ~Younger(stored, PriceTtl)
    <3>1. Len(Order) >= 1
      BY DEF FeedInv
    <3>2. loading' \in 0..Len(Order) /\ UNCHANGED gathered
      BY <1>2, <1>5, <2>2, <3>1 DEF FetchBestPrice
    <3>3. QED
      BY <1>1, <1>2, <1>5, <2>2, <3>2 DEF FeedInv, FeedTypeOK, Aged
  <2>3. QED
    BY <2>1, <2>2
<1>6. ASSUME ServerAsks PROVE FeedInv'
  BY <1>5, <1>6 DEF ServerAsks
<1>7. ASSUME GetPrices PROVE FeedInv'
  BY <1>5, <1>7 DEF GetPrices
<1>8. ASSUME PageHits PROVE FeedInv'
  <2>1. /\ page.updatedAt \in Times /\ page.updatedAt \in Int /\ page.at \in Int
        /\ clock - page.at < PageTtl /\ page.at - page.updatedAt <= PageAge
    BY <1>1, <1>2, <1>8 DEF PageHits, Younger, Kept, Times, Aged
  <2>2. PageAge \in Int
    BY DEF PageAge, EdgeAge, ServedAge
  <2>3. shown' \in Kept /\ Aged(shown, PageAge + PageTtl)'
    BY <1>2, <1>8, <2>1, <2>2 DEF PageHits, Now, Kept, Aged
  <2>4. QED
    BY <1>1, <1>2, <1>8, <2>3 DEF PageHits, FeedInv, FeedTypeOK, Aged
<1>9. ASSUME EdgeHits PROVE FeedInv'
  <2>1. /\ edge.updatedAt \in Times /\ edge.updatedAt \in Int /\ edge.at \in Int
        /\ clock - edge.at < EdgeFresh + EdgeStale /\ edge.at - edge.updatedAt <= EdgeAge
    BY <1>1, <1>2, <1>9 DEF EdgeHits, Younger, Kept, Times, Aged
  <2>2. EdgeAge \in Int
    BY DEF EdgeAge, ServedAge
  <2>3. /\ page' = Now(edge.updatedAt) /\ shown' = Now(edge.updatedAt) /\ clock' = clock
    BY <1>9 DEF EdgeHits, PageTakes
  <2>7. clock - edge.updatedAt <= PageAge /\ clock - edge.updatedAt <= PageAge + PageTtl
    <3>1. EdgeFresh \in Nat /\ EdgeStale \in Nat /\ PageTtl \in Nat /\ clock \in Int
      BY <1>2
    <3>2. ASSUME NEW u \in Int, NEW a \in Int, NEW e \in Int,
                 clock - a < EdgeFresh + EdgeStale, a - u <= e
          PROVE  /\ clock - u <= e + EdgeFresh + EdgeStale
                 /\ clock - u <= e + EdgeFresh + EdgeStale + PageTtl
      BY <3>1, <3>2
    <3>3. QED
      BY <2>1, <2>2, <3>2 DEF PageAge
  <2>8. /\ Now(edge.updatedAt) \in Kept /\ Now(edge.updatedAt).at = clock
        /\ Now(edge.updatedAt).updatedAt = edge.updatedAt
    BY <1>2, <2>1 DEF Now, Kept
  <2>4. {page', shown'} \subseteq Kept /\ Aged(page, PageAge)' /\ Aged(shown, PageAge + PageTtl)'
    BY <1>2, <2>3, <2>7, <2>8 DEF Aged
  <2>5. edgeWaits' \in BOOLEAN
    BY <1>2, <1>9 DEF EdgeHits, Younger
  <2>6. QED
    BY <1>1, <1>2, <1>9, <2>4, <2>5 DEF EdgeHits, FeedInv, FeedTypeOK, Aged
<1>10. ASSUME PageAsks PROVE FeedInv'
  BY <1>1, <1>2, <1>10 DEF PageAsks, FeedInv, FeedTypeOK, Aged
<1>11. ASSUME AllSettled PROVE FeedInv'
  <2>1. /\ gathered \in Kept /\ gathered # NoPoint /\ gathered' = NoPoint
        /\ UNCHANGED <<clock, loading, stored>> /\ EdgeTakes(gathered.updatedAt)
    BY <1>2, <1>11 DEF AllSettled
  <2>2. /\ gathered.updatedAt \in Times /\ gathered.updatedAt \in Int /\ gathered.at \in Int
        /\ gathered.at - gathered.updatedAt <= ServedAge
        /\ clock <= gathered.at + OthersWait
    BY <1>1, <2>1 DEF Kept, Times, Aged
  <2>3. clock - gathered.updatedAt <= EdgeAge
    BY <1>2, <2>2 DEF EdgeAge, ServedAge
  <2>4. QED
    BY <1>1, <1>2, <2>1, <2>2, <2>3, EdgeTakesYoung DEF FeedInv, FeedTypeOK, Aged, Kept
<1>12. ASSUME FeedTick PROVE FeedInv'
  <2>1. clock' \in 0..MaxClock /\ clock' = clock + 1
    BY <1>2, <1>12 DEF FeedTick
  <2>2. ASSUME NEW kept \in Kept, NEW age, Aged(kept, age)
        PROVE  kept # NoPoint => kept.at <= clock' /\ kept.at - kept.updatedAt <= age
    BY <1>2, <2>1, <2>2 DEF Kept, Aged
  <2>3. gathered # NoPoint => clock' <= gathered.at + OthersWait
    BY <1>2, <1>12, <2>1 DEF FeedTick, Kept
  <2>4. UNCHANGED <<loading, stored, gathered, edge, page, edgeWaits, pageWaits, shown>>
    BY <1>12 DEF FeedTick
  <2>5. QED
    BY <1>1, <1>2, <2>1, <2>2, <2>3, <2>4 DEF FeedInv, FeedTypeOK, Aged
<1>13. CASE UNCHANGED feedVars
  BY <1>1, <1>13 DEF feedVars, FeedInv, FeedTypeOK, Aged
<1>14. QED
  BY <1>3, <1>4, <1>6, <1>7, <1>8, <1>9, <1>10, <1>11, <1>12, <1>13 DEF FeedNext

----------------------------------------------------------------------------
LEMMA FeedBegins == FeedInit => FeedInv
<1>1. ASSUME FeedInit PROVE FeedTypeOK
  <2>1. Len(Order) \in Nat /\ MaxClock \in Nat
    BY PriceFeedAssumption
  <2>2. clock \in 0..MaxClock /\ loading \in 0..Len(Order)
    BY <1>1, <2>1 DEF FeedInit
  <2>3. edgeWaits \in BOOLEAN /\ pageWaits \in BOOLEAN
    BY <1>1 DEF FeedInit
  <2>4. QED
    BY <1>1, <2>2, <2>3 DEF FeedInit, FeedTypeOK, Kept
<1>2. ASSUME FeedInit PROVE \A age : /\ Aged(stored, age) /\ Aged(gathered, age)
                                    /\ Aged(edge, age) /\ Aged(page, age) /\ Aged(shown, age)
  BY <1>2 DEF FeedInit, Aged
<1>3. FeedInit => gathered = NoPoint
  BY DEF FeedInit
<1>4. QED
  BY <1>1, <1>2, <1>3 DEF FeedInv

(* No price is served, or shown, that is older than the staleness it is    *)
(* rejected for, the lives of the caches on its way and the wait for the   *)
(* other tokens of its request (fetchBestPrice, the route's allSettled and *)
(* its cache-control, fetchMarketPrices).                                  *)
THEOREM PricesAgeBounded == FeedSpec => []PriceAgeBounded
<1>1. FeedInv => PriceAgeBounded
  BY PriceFeedAssumption
     DEF FeedInv, FeedTypeOK, Aged, PriceAgeBounded, ServedAge, EdgeAge, PageAge
<1>2. QED
  BY <1>1, FeedBegins, FeedInvStep, PTL DEF FeedSpec

----------------------------------------------------------------------------
(* The configuration.                                                      *)
(*                                                                         *)
(* The probe asks its dependencies only of a deployment that is ready by   *)
(* its configuration, and a swap is refused only where a route's condition *)
(* on the configuration fails.  Neither depends on the settings counted by *)
(* Deviations; what is left is that each of the three accounts, the list   *)
(* of blockers, the probe and the scripts, implies every route's           *)
(* condition but those that it overlooks.                                  *)

EveryRouteServes ==
  QuoteServed /\ (On("requireSession") => SessionServed) /\ BuildAllowed /\ RelayAllowed

ProbeInv == verdict \in {"asked", "ready"} => AppReady
RefusedInv == swapPc = "refused" => ~EveryRouteServes

\* The conditions that readiness and the scripts ask about.
AskedFor ==
  /\ OperationsEnabled /\ FeeConfigured
  /\ On("requireSigned") => On("signingSecret")
  /\ On("requireSession") => On("sessionSecret") /\ On("appUrl")
  /\ On("requireOnchain") => On("package")

LEMMA AskedForServes ==
  ASSUME AskedFor, ~ProvidersRefused, QuoteLives, ~OriginRefused
  PROVE  EveryRouteServes
BY Zenon DEF AskedFor, EveryRouteServes, QuoteServed, SessionServed, BuildAllowed, RelayAllowed

LEMMA UnblockedAsked == ASSUME ExecutionEnabled PROVE AskedFor
BY Zenon DEF ExecutionEnabled, SwapBlocked, AskedFor

LEMMA VettedAsked ==
  ASSUME Vetted, On("requireSwap"), On("operations")
  PROVE  AskedFor /\ ~OriginRefused
<1>1. EnvironmentValid /\ ProfileValid
  BY DEF Vetted
<1>2. OperationsEnabled
  BY <1>1, Zenon DEF ProfileValid, OperationsEnabled
<1>3. FeeConfigured
  BY <1>1, Zenon DEF EnvironmentValid, FeeConfigured
<1>4. /\ On("requireSigned") => On("signingSecret")
      /\ On("requireSession") => On("sessionSecret") /\ On("appUrl")
      /\ On("requireOnchain") => On("package")
      /\ ~OriginRefused
  BY <1>1, Zenon DEF EnvironmentValid
<1>5. QED
  BY <1>2, <1>3, <1>4, Zenon DEF AskedFor

LEMMA VouchedServes ==
  ASSUME ProbeInv, Vouched, ~Overlooked
  PROVE  EveryRouteServes
<1>1. ~ProvidersRefused /\ QuoteLives /\ (OriginRefused => Vetted)
  BY Zenon DEF Overlooked
<1>2. ~OriginRefused
  <2>1. Vetted => ~OriginRefused
    BY Zenon DEF Vetted, EnvironmentValid
  <2>2. QED
    BY <1>1, <2>1
<1>3. CASE SwapReady
  BY <1>1, <1>2, <1>3, UnblockedAsked, AskedForServes DEF SwapReady
<1>4. CASE verdict = "ready" /\ On("requireSwap")
  <2>1. AppReady
    BY <1>4 DEF ProbeInv
  <2>2. ExecutionEnabled
    BY <1>4, <2>1 DEF AppReady
  <2>3. QED
    BY <1>1, <1>2, <2>2, UnblockedAsked, AskedForServes
<1>5. CASE Vetted /\ On("requireSwap") /\ On("operations")
  BY <1>1, <1>5, VettedAsked, AskedForServes
<1>6. QED
  BY <1>3, <1>4, <1>5 DEF Vouched

\* What the configuration says does not change with a step.
LEMMA SameConfiguration ==
  ASSUME config' = config
  PROVE  AppReady' = AppReady /\ EveryRouteServes' = EveryRouteServes
<1>1. AppReady' = AppReady
  BY Zenon DEF AppReady, ExecutionEnabled, ExecutionConfigured, SwapBlocked, FeeConfigured,
               OperationsEnabled, DedicatedRpcViolated, On
<1>2. EveryRouteServes' = EveryRouteServes
  BY Zenon DEF EveryRouteServes, QuoteServed, SessionServed, BuildAllowed, RelayAllowed,
               FeeConfigured, OperationsEnabled, ProvidersRefused, OriginRefused,
               QuoteLives, On
<1>3. QED
  BY <1>1, <1>2

LEMMA DeploymentStep ==
  ProbeInv /\ RefusedInv /\ [DeploymentNext]_deploymentVars => ProbeInv' /\ RefusedInv'
<1> SUFFICES ASSUME ProbeInv, RefusedInv, [DeploymentNext]_deploymentVars
             PROVE  ProbeInv' /\ RefusedInv'
  OBVIOUS
<1>1. config' = config
  BY DEF DeploymentNext, ProbeStarts, ProbeAnswers, DependencyChanges, SwapProceeds,
         SwapStep, CheckEnds, CheckTimesOut, deploymentVars
<1>2. ASSUME UNCHANGED verdict \/ AppReady \/ verdict' = "notReady"
      PROVE  ProbeInv'
  BY <1>1, <1>2, SameConfiguration DEF ProbeInv
<1>3. ASSUME UNCHANGED swapPc
      PROVE  RefusedInv'
  BY <1>1, <1>3, SameConfiguration DEF RefusedInv
<1>4. CASE ProbeStarts
  BY <1>2, <1>3, <1>4 DEF ProbeStarts
<1>5. CASE ProbeAnswers
  BY <1>2, <1>3, <1>5 DEF ProbeAnswers, ProbeInv
<1>6. CASE DependencyChanges
  BY <1>2, <1>3, <1>6 DEF DependencyChanges
<1>7. ASSUME NEW d \in Dependencies, CheckEnds(d) \/ CheckTimesOut(d)
      PROVE  ProbeInv' /\ RefusedInv'
  BY <1>2, <1>3, <1>7 DEF CheckEnds, CheckTimesOut
<1>8. CASE SwapProceeds
  <2>1. UNCHANGED verdict
    BY <1>8 DEF SwapProceeds, SwapStep
  <2>2. swapPc' = "refused" => ~EveryRouteServes
    BY <1>8 DEF SwapProceeds, SwapStep, EveryRouteServes
  <2>3. QED
    BY <1>1, <1>2, <2>1, <2>2, SameConfiguration DEF RefusedInv
<1>9. CASE UNCHANGED deploymentVars
  BY <1>2, <1>3, <1>9 DEF deploymentVars
<1>10. QED
  BY <1>4, <1>5, <1>6, <1>7, <1>8, <1>9 DEF DeploymentNext

\* Whatever the settings and whatever the dependencies do, a deployment that its
\* pages, its probe or the vetting scripts vouch for refuses a swap by its
\* configuration only for what none of them looks at: its providers, its margin
\* and, without the scripts, the form of its origin.
THEOREM ReadyServes == DeploymentSpec => []ReadyMeansServing
<1>1. DeploymentInit => ProbeInv /\ RefusedInv
  BY DEF DeploymentInit, ProbeInv, RefusedInv
<1>2. ProbeInv /\ RefusedInv => ReadyMeansServing
  BY VouchedServes DEF ReadyMeansServing, RefusedInv
<1>3. QED
  BY <1>1, <1>2, DeploymentStep, PTL DEF DeploymentSpec
-----------------------------------------------------------------------------
(* The types of what has no invariant of its own that says them. *)

CallRecord == [at : RpcStages, todo : Seq(Endpoints), since : Nat,
               told : Chains \cup {Unset}]

IsTry(r) ==
  /\ r \in CallRecord
  /\ r.at \in {"identity", "told", "run"} => r.todo # <<>>

PoolTypeInv == PoolTypeOK /\ \A c \in RpcCalls : IsTry(rpc[c])

LEMMA AttemptTyped ==
  ASSUME PoolTypeOK, NEW todo \in Seq(Endpoints), todo # <<>>,
         NEW how \in {"identity", "run"}
  PROVE  IsTry(Attempt(how, todo))
BY DEF Attempt, IsTry, CallRecord, RpcStages, PoolTypeOK

LEMMA IdleTyped == ASSUME NEW how \in {"new", "answered", "failed"} PROVE IsTry(Idle(how))
BY DEF Idle, IsTry, CallRecord, RpcStages

LEMMA TriesTyped ==
  ASSUME PoolTypeOK, NEW todo \in Seq(Endpoints)
  PROVE  IsTry(Tries(todo))
<1>1. CASE todo = <<>>
  BY <1>1, IdleTyped DEF Tries
<1>2. CASE todo # <<>>
  BY <1>2, AttemptTyped DEF Tries
<1>3. QED
  BY <1>1, <1>2

LEMMA OrdersAreSequences == Orders \subseteq Seq(Endpoints)
<1> SUFFICES ASSUME NEW order \in Orders PROVE order \in Seq(Endpoints)
  OBVIOUS
<1>1. PICK S \in SUBSET Endpoints : order \in SetToSeqs(S)
  BY DEF Orders, SetToAllKPermutations
<1>2. order \in [1..Cardinality(S) -> S]
  BY <1>1 DEF SetToSeqs
<1>3. Cardinality(S) \in Nat
  <2>1. IsFiniteSet(S)
    BY RpcPoolAssumption, FS_Subset
  <2>2. QED
    BY <2>1, FS_CardinalityType
<1>4. order \in Seq(S)
  BY <1>2, <1>3
<1>5. QED
  BY <1>4

LEMMA TryPut ==
  ASSUME PoolTypeInv, NEW c \in RpcCalls, IsTry(rpc'[c]),
         rpc' = [d \in RpcCalls |-> rpc'[d]], \A d \in RpcCalls \ {c} : rpc'[d] = rpc[d]
  PROVE  /\ rpc' \in [RpcCalls -> CallRecord]
         /\ \A d \in RpcCalls : IsTry(rpc'[d])
<1>1. \A d \in RpcCalls : IsTry(rpc'[d])
  BY DEF PoolTypeInv
<1>2. QED
  BY <1>1 DEF IsTry

LEMMA TryExcept ==
  ASSUME PoolTypeInv, NEW c \in RpcCalls, NEW r, IsTry(r), rpc' = [rpc EXCEPT ![c] = r]
  PROVE  /\ rpc' \in [RpcCalls -> CallRecord]
         /\ \A d \in RpcCalls : IsTry(rpc'[d])
<1>1. rpc = [d \in RpcCalls |-> rpc[d]]
  BY DEF PoolTypeInv, PoolTypeOK
<1>2. /\ rpc' = [d \in RpcCalls |-> rpc'[d]] /\ rpc'[c] = r
      /\ \A d \in RpcCalls \ {c} : rpc'[d] = rpc[d]
  BY <1>1
<1>3. QED
  BY <1>2, TryPut

LEMMA RpcTypeStep ==
  ASSUME PoolTypeInv, [PoolNext]_poolVars
  PROVE  /\ rpc' \in [RpcCalls -> CallRecord]
         /\ \A d \in RpcCalls : IsTry(rpc'[d])
<1> DEFINE Typed == /\ rpc' \in [RpcCalls -> CallRecord]
                    /\ \A d \in RpcCalls : IsTry(rpc'[d])
<1>1. PoolTypeOK /\ \A c \in RpcCalls : IsTry(rpc[c])
  BY DEF PoolTypeInv
<1>2. ASSUME NEW c \in RpcCalls, ReadStarts(c) PROVE Typed
  BY <1>1, <1>2, OrdersAreSequences, TriesTyped, TryExcept DEF ReadStarts
<1>3. ASSUME NEW c \in RpcCalls, ExecutionStarts(c) PROVE Typed
  <2>1. <<Protected>> \in Seq(Endpoints)
    BY RpcPoolAssumption
  <2>2. IsTry(Tries(<<Protected>>))
    BY <1>1, <2>1, TriesTyped
  <2>3. QED
    BY <1>3, <2>2, TryExcept DEF ExecutionStarts
<1>4. ASSUME NEW c \in RpcCalls, NEW e \in Endpoints, Reports(c, e) PROVE Typed
  <2>1. PICK chain \in Chains \cup {Unset} :
          rpc' = [[rpc EXCEPT ![c].at = "told"] EXCEPT ![c].told = chain]
    BY <1>1, <1>4 DEF Reports, PoolTypeOK
  <2>2. rpc = [d \in RpcCalls |-> rpc[d]] /\ rpc[c] \in CallRecord /\ rpc[c].todo # <<>>
    BY <1>1, <1>4 DEF PoolTypeOK, IsTry, Reports
  <2>3. /\ rpc' = [d \in RpcCalls |-> rpc'[d]]
        /\ rpc'[c] = [[rpc[c] EXCEPT !.at = "told"] EXCEPT !.told = chain]
        /\ \A d \in RpcCalls \ {c} : rpc'[d] = rpc[d]
    BY <2>1, <2>2
  <2>4. rpc'[c] \in CallRecord /\ rpc'[c].todo # <<>>
    BY <2>2, <2>3 DEF CallRecord, RpcStages
  <2>5. IsTry(rpc'[c])
    BY <2>4 DEF IsTry
  <2>6. QED
    BY <2>3, <2>5, TryPut
<1>5. ASSUME NEW c \in RpcCalls, NEW e \in Endpoints, Identified(c, e) PROVE Typed
  <2>1. rpc' = [rpc EXCEPT ![c] = Attempt("run", rpc[c].todo)] /\ rpc[c].at = "told"
    BY <1>5 DEF Identified
  <2>2. rpc[c].todo \in Seq(Endpoints) /\ rpc[c].todo # <<>>
    BY <1>1, <2>1 DEF IsTry, CallRecord
  <2>3. IsTry(Attempt("run", rpc[c].todo))
    BY <1>1, <2>2, AttemptTyped
  <2>4. QED
    BY <2>1, <2>3, TryExcept
<1>6. ASSUME NEW c \in RpcCalls, NEW e \in Endpoints, Answers(c, e) PROVE Typed
  <2>1. rpc' = [rpc EXCEPT ![c] = Idle("answered")]
    BY <1>6 DEF Answers
  <2>2. QED
    BY <2>1, IdleTyped, TryExcept
<1>7. ASSUME NEW c \in RpcCalls, NEW e \in Endpoints, Fails(c, e) PROVE Typed
  <2>1. rpc[c].todo \in Seq(Endpoints) /\ rpc[c].todo # <<>>
    BY <1>1, <1>7 DEF Fails, Asks, IsTry, CallRecord
  <2>2. Tail(rpc[c].todo) \in Seq(Endpoints)
    BY <2>1
  <2>3. rpc' = [rpc EXCEPT ![c] = Tries(Tail(rpc[c].todo))]
    BY <1>7 DEF Fails
  <2>4. QED
    BY <1>1, <2>2, <2>3, TriesTyped, TryExcept
<1>8. CASE UNCHANGED rpc
  BY <1>1, <1>8 DEF PoolTypeOK, CallRecord
<1>9. QED
  BY <1>2, <1>3, <1>4, <1>5, <1>6, <1>7, <1>8
     DEF PoolNext, PoolTick, EndpointMoves, poolVars

LEMMA PoolTypeStep ==
  PoolTypeInv /\ IdentityInv' /\ HealthInv' /\ [PoolNext]_poolVars => PoolTypeInv'
<1> SUFFICES ASSUME PoolTypeInv, IdentityInv', HealthInv', [PoolNext]_poolVars
             PROVE  PoolTypeInv'
  OBVIOUS
<1>1. measured' \subseteq Endpoints
  <2>1. measured \subseteq Endpoints
    BY DEF PoolTypeInv, PoolTypeOK
  <2>2. ASSUME NEW c \in RpcCalls, NEW e \in Endpoints, Answers(c, e) \/ Fails(c, e)
        PROVE  measured' \subseteq Endpoints
    BY <2>1, <2>2 DEF Answers, Fails, RecordRpcSuccess, RecordRpcFailure, health
  <2>3. QED
    BY <2>1, <2>2
       DEF PoolNext, ReadStarts, ExecutionStarts, Reports, Identified, PoolTick, EndpointMoves,
           poolVars, health
<1>2. PoolTypeOK'
  BY <1>1, RpcTypeStep DEF IdentityInv, PoolTypes, HealthInv, PoolTypeOK, CallRecord
<1>3. QED
  BY <1>2, RpcTypeStep DEF PoolTypeInv

LEMMA PoolBegins == PoolInit => PoolTypeInv /\ IdentityInv /\ HealthInv
<1> SUFFICES ASSUME PoolInit PROVE PoolTypeInv /\ IdentityInv /\ HealthInv
  OBVIOUS
<1>1. IdentityInv
  BY IdentityBegins
<1>2. HealthInv
  BY RpcPoolAssumption DEF PoolInit, HealthInv, QuarantineEarned, Quarantined
<1>3. \A c \in RpcCalls : IsTry(rpc[c])
  BY IdleTyped DEF PoolInit
<1>4. rpc \in [RpcCalls -> CallRecord]
  BY <1>3 DEF PoolInit, IsTry
<1>5. PoolTypeOK
  BY <1>1, <1>2, <1>4 DEF IdentityInv, PoolTypes, HealthInv, PoolTypeOK, PoolInit, CallRecord
<1>6. QED
  BY <1>1, <1>2, <1>3, <1>5 DEF PoolTypeInv

LEMMA PoolTypeCorrect == PoolSpec => []PoolTypeOK
<1>1. PoolTypeInv => PoolTypeOK
  BY DEF PoolTypeInv
<1>2. QED
  BY <1>1, PoolBegins, PoolTypeStep, IdentityStep, HealthStep, PTL DEF PoolSpec

LEMMA LimiterTypeCorrect == LimiterSpec => []LimiterTypeOK
<1>1. RowInv /\ EntryInv => LimiterTypeOK
  <2> SUFFICES ASSUME RowInv, EntryInv PROVE LimiterTypeOK
    OBVIOUS
  <2>1. came \in [Clients -> Nat]
    BY RateLimitAssumption DEF RowInv, RowTypes
  <2>2. QED
    BY <2>1 DEF RowInv, RowTypes, EntryInv, LimiterTypeOK
<1>2. QED
  BY <1>1, RowInit, RowStep, EntryBegins, EntryStep, PTL DEF LimiterSpec

LEMMA DeploymentTypeCorrect == DeploymentSpec => []DeploymentTypeOK
<1>1. DeploymentInit => DeploymentTypeOK
  BY DEF DeploymentInit, DeploymentTypeOK
<1>2. DeploymentTypeOK /\ [DeploymentNext]_deploymentVars => DeploymentTypeOK'
  <2> SUFFICES ASSUME DeploymentTypeOK, [DeploymentNext]_deploymentVars
               PROVE  DeploymentTypeOK'
    OBVIOUS
  <2>1. CASE ProbeStarts
    BY <2>1 DEF ProbeStarts, DeploymentTypeOK
  <2>2. CASE ProbeAnswers
    BY <2>2 DEF ProbeAnswers, DeploymentTypeOK
  <2>3. CASE DependencyChanges
    BY <2>3 DEF DependencyChanges, DeploymentTypeOK
  <2>4. CASE SwapProceeds
    BY <2>4 DEF SwapProceeds, SwapStep, DeploymentTypeOK
  <2>5. ASSUME NEW d \in Dependencies, CheckEnds(d) \/ CheckTimesOut(d)
        PROVE  DeploymentTypeOK'
    BY <2>5 DEF CheckEnds, CheckTimesOut, DeploymentTypeOK
  <2>6. CASE UNCHANGED deploymentVars
    BY <2>6 DEF deploymentVars, DeploymentTypeOK
  <2>7. QED
    BY <2>1, <2>2, <2>3, <2>4, <2>5, <2>6 DEF DeploymentNext
<1>3. QED
  BY <1>1, <1>2, PTL DEF DeploymentSpec

LEMMA MoneyTypeCorrect == MoneySpec => []MoneyTypeOK
<1>1. MoneyInit => MoneyTypeOK
  BY DEF MoneyInit, MoneyTypeOK
<1>2. MoneyTypeOK /\ [MoneyNext]_moneyVars => MoneyTypeOK'
  <2> SUFFICES ASSUME MoneyTypeOK, [MoneyNext]_moneyVars PROVE MoneyTypeOK'
    OBVIOUS
  <2>1. ASSUME NEW gross \in Amounts, BuildSwapQuote(gross) PROVE MoneyTypeOK'
    <3>1. /\ UNCHANGED <<price, policy, contract>> /\ step' = "quoted"
          /\ quote' = Quoted(gross) /\ price \in Prices /\ policy \in Policy
      BY <2>1 DEF BuildSwapQuote, MoneyTypeOK
    <3>2. \E g \in Amounts, p \in Prices, pol \in Policy :
            quote' = [policy |-> pol, gross |-> g, fee |-> ServiceFee(g, pol.bps),
                      net |-> g - ServiceFee(g, pol.bps),
                      out |-> (g - ServiceFee(g, pol.bps)) * p,
                      min |-> MinimumOut((g - ServiceFee(g, pol.bps)) * p)]
      <4>1. quote' = [policy |-> policy, gross |-> gross,
                      fee |-> ServiceFee(gross, policy.bps),
                      net |-> gross - ServiceFee(gross, policy.bps),
                      out |-> (gross - ServiceFee(gross, policy.bps)) * price,
                      min |-> MinimumOut((gross - ServiceFee(gross, policy.bps)) * price)]
        BY <3>1 DEF Quoted
      <4>2. QED
        BY <3>1, <4>1, Zenon
    <3>3. QED
      BY <3>1, <3>2 DEF MoneyTypeOK
  <2>2. CASE ExecuteSwap
    BY <2>2 DEF ExecuteSwap, MoneyTypeOK
  <2>3. CASE Preflight \/ Relay
    BY <2>3 DEF Preflight, Relay, Simulate, MoneyTypeOK
  <2>4. CASE ChainExecutes
    BY <2>4 DEF ChainExecutes, MoneyTypeOK
  <2>5. CASE MarketMoves \/ Redeploy \/ UpdateConfig
    BY <2>5 DEF MarketMoves, Redeploy, UpdateConfig, MoneyTypeOK
  <2>6. CASE UNCHANGED moneyVars
    BY <2>6 DEF moneyVars, MoneyTypeOK
  <2>7. QED
    BY <2>1, <2>2, <2>3, <2>4, <2>5, <2>6 DEF MoneyNext
<1>3. QED
  BY <1>1, <1>2, PTL DEF MoneySpec

LEMMA FeedTypeCorrect == FeedSpec => []FeedTypeOK
<1>1. FeedInv => FeedTypeOK
  BY DEF FeedInv
<1>2. QED
  BY <1>1, FeedBegins, FeedInvStep, PTL DEF FeedSpec

LEMMA TermsTypeStep ==
  TermsTypeOK /\ TermsInv' /\ [TermsNext]_termsVars => TermsTypeOK'
<1> SUFFICES ASSUME TermsTypeOK, TermsInv', [TermsNext]_termsVars PROVE TermsTypeOK'
  OBVIOUS
<1>0. SettingsOK'
  BY DEF TermsInv
<1>1. CASE RestoreSettings \/ ReadPolicyLimits \/ ChangeSetting \/ QuoteRefused \/ GiveUpSwap
  BY <1>0, <1>1 DEF RestoreSettings, ReadPolicyLimits, ChangeSetting, QuoteRefused,
                    GiveUpSwap, SettingsOK, TermsTypeOK
<1>2. CASE IssueQuote
  <2>1. PICK d \in Deployments, deviation \in RouteImpacts, length \in IdLengths :
          proof' = [policy |-> Fingerprint(d), network |-> d.network,
                    slippage |-> settings.slippage,
                    impact |-> Lower(settings.impact, d.maxImpact),
                    deviation |-> deviation, deadline |-> Round(settings.deadline),
                    idLength |-> Lower(length, 256), life |-> d.quoteTtl,
                    signed |-> IF d.signs THEN settings.slippage ELSE 0]
    BY <1>2 DEF IssueQuote
  <2>2. settings \in [slippage : Nat, impact : Nat, deadline : Nat]
    BY DEF TermsTypeOK
  <2>3. settings.slippage \in Nat /\ settings.impact \in Nat /\ settings.deadline \in Nat
    BY <2>2
  <2>4. d.maxImpact \in Nat /\ length \in Nat /\ 256 \in Nat
    BY LimitTypes, QuoteTermsAssumption
  <2>5. d.quoteTtl \in Nat
    <3>1. d.quoteTtl \in 5..120
      BY QuoteTermsAssumption
    <3>2. \A n \in 5..120 : n \in Nat
      OBVIOUS
    <3>3. QED
      BY <3>1, <3>2, Zenon
  <2>6. Lower(settings.impact, d.maxImpact) \in Nat /\ Lower(length, 256) \in Nat
    BY <2>3, <2>4, LowerLimit, Zenon
  <2>7. Round(settings.deadline) \in Nat
    <3>1. \A n \in Nat : Round(n) \in Nat
      BY Clamped
    <3>2. QED
      BY <2>3, <3>1
  <2>8. {proof'.slippage, proof'.impact, proof'.deadline, proof'.life, proof'.idLength}
          \subseteq Nat
    BY <2>1, <2>3, <2>5, <2>6, <2>7
  <2>9. QED
    BY <1>0, <1>2, <2>8 DEF IssueQuote, SettingsOK, TermsTypeOK
<1>3. CASE BuildRoute
  <2>1. UNCHANGED <<policyLimits, settings, proof, relayed>> /\ claimed'.route \subseteq SdkProviders
    BY <1>3 DEF BuildRoute
  <2>2. QED
    BY <2>1 DEF TermsTypeOK
<1>4. CASE RelayAccepts
  <2>1. /\ UNCHANGED <<policyLimits, settings, proof>> /\ claimed' = NoProof
        /\ relayed'.route \subseteq SdkProviders /\ relayed'.by \in Deployments
    BY <1>4 DEF RelayAccepts, TermsTypeOK
  <2>2. QED
    BY <2>1 DEF TermsTypeOK
<1>5. CASE UNCHANGED termsVars
  BY <1>5 DEF termsVars, TermsTypeOK
<1>6. QED
  BY <1>1, <1>2, <1>3, <1>4, <1>5 DEF TermsNext

LEMMA TermsTypeCorrect == TermsSpec => []TermsTypeOK
<1>1. TermsInit => TermsTypeOK /\ TermsInv
  BY DEF TermsInit, TermsTypeOK, TermsInv, SettingsOK, WithinPolicy
<1>2. QED
  BY <1>1, TermsInvStep, TermsTypeStep, PTL DEF TermsSpec

-----------------------------------------------------------------------------
(* The whole server.                                                       *)
(*                                                                         *)
(* The instance that TLC checks holds all components at once and lets one  *)
(* of them move, those that do not move from one of their states only:     *)
(* such a behaviour is one of each component.                              *)

LEMMA PartsBegin ==
  ServerInit => /\ Init /\ PoolInit /\ LimiterInit /\ MoneyInit /\ DeploymentInit
                /\ FeedInit /\ TermsInit
BY DEF ServerInit

LEMMA PartsMove ==
  [ServerNext]_serverVars =>
    /\ [Next]_vars /\ [PoolNext]_poolVars /\ [LimiterNext]_limiterVars
    /\ [MoneyNext]_moneyVars /\ [DeploymentNext]_deploymentVars
    /\ [FeedNext]_feedVars /\ [TermsNext]_termsVars
BY DEF ServerNext, serverVars

\* A behaviour of the server, whichever component moves, is one of each of its
\* components: the specification that the runs check implements theirs.
THEOREM ServerIsItsParts ==
  ServerSpec => /\ Spec /\ PoolSpec /\ LimiterSpec /\ MoneySpec /\ DeploymentSpec
                /\ FeedSpec /\ TermsSpec
BY PartsBegin, PartsMove, PTL
   DEF ServerSpec, Spec, PoolSpec, LimiterSpec, MoneySpec, DeploymentSpec, FeedSpec,
       TermsSpec

\* The state of each component of the server has its type, for all values of
\* the constants.
THEOREM ServerTypeCorrect == ServerSpec => []ServerTypeOK
<1>1. Spec => []TypeOK
  <2>1. BreakerInv => TypeOK
    BY DEF BreakerInv
  <2>2. QED
    BY <2>1, Inductive, PTL
<1>2. TypeOK /\ PoolTypeOK /\ LimiterTypeOK /\ MoneyTypeOK /\ DeploymentTypeOK
        /\ FeedTypeOK /\ TermsTypeOK => ServerTypeOK
  BY DEF ServerTypeOK
<1>3. QED
  BY <1>1, <1>2, ServerIsItsParts, PoolTypeCorrect, LimiterTypeCorrect, MoneyTypeCorrect,
     DeploymentTypeCorrect, FeedTypeCorrect, TermsTypeCorrect, PTL
=============================================================================
