------------------------------ MODULE RpcPool ------------------------------
(***************************************************************************)
(* src/services/sui/rpc-health.ts and the calls of sui/grpc.ts: a read     *)
(* asks the endpoints one after the other in the order of their health     *)
(* until one answers; an execution asks the protected endpoint only, once. *)
(* Before either, the endpoint is asked which chain it serves, unless it   *)
(* was within IdentityTtl: the first that says so decides for the process, *)
(* for as long as it lives.  One that does not say is let by.              *)
(*                                                                         *)
(* An endpoint may be moved to another chain and back by whoever runs it.  *)
(* Latencies are not kept: any order that they may decide is possible.     *)
(***************************************************************************)
EXTENDS Integers, FiniteSets, SequencesExt

CONSTANTS
  Reads, Executions,  \* calls of withGrpcReadFailover, of executeTransactionGrpc
  Endpoints,          \* grpcUrls, 1..n in their configured order
  Protected,          \* the endpoint executions use
  Silent,             \* those that may leave their chain id out of what they report
  Chains,             \* chain ids
  RpcTimeout,         \* rpcTimeoutMs, for the report
  IdentityTtl,        \* how long an identity is believed (30 s)
  FailureThreshold, RpcCooldown,
  Outweighs,          \* failures that weigh more than any latency
  MaxFailures,        \* failures counted: beyond it the backoff no longer grows
  MaxTicks,           \* bound on the clock
  Unset

ASSUME RpcPoolAssumption ==
  /\ Endpoints \subseteq Nat /\ IsFiniteSet(Endpoints) /\ Protected \in Endpoints
  /\ Silent \subseteq Endpoints /\ Outweighs \in Nat \ {0}
  /\ IdentityTtl \in Nat \ {0} /\ RpcTimeout \in Nat /\ RpcCooldown \in Nat
  /\ FailureThreshold \in Nat \ {0} /\ MaxFailures \in Nat /\ MaxFailures >= FailureThreshold
  /\ MaxTicks \in Nat
  /\ Unset \notin Chains /\ Unset \notin Nat

VARIABLES
  ticks,        \* Date.now()
  serves,       \* the chain each endpoint is on
  lastOn,       \* history: when one that tells its chain last was on each
  known,        \* chainIdByNetwork
  checkedAt,    \* networkIdentityCache
  consecutive,  \* consecutiveFailures
  openUntil,    \* openUntil, 0 for none
  measured,     \* endpoints that have succeeded once
  rpc           \* each call: where it is, what it has left to try, since when,
                \* and the chain that was reported to it

health == <<consecutive, openUntil, measured>>
poolVars == <<ticks, serves, lastOn, known, checkedAt, health, rpc>>

RpcCalls == Reads \cup Executions
Telling == Endpoints \ Silent
RpcStages == {"new", "identity", "told", "run", "answered", "failed"}

(* Longer ago than any chain that is still believed in. *)
Never == -(IdentityTtl + RpcTimeout)

PoolTypeOK ==
  /\ ticks \in Nat
  /\ serves \in [Endpoints -> Chains] /\ lastOn \in [Telling -> [Chains -> Int]]
  /\ known \in Chains \cup {Unset}
  /\ checkedAt \in [Endpoints -> Nat \cup {Unset}]
  /\ consecutive \in [Endpoints -> 0..MaxFailures] /\ openUntil \in [Endpoints -> Nat]
  /\ measured \subseteq Endpoints
  /\ rpc \in [RpcCalls -> [at : RpcStages, todo : Seq(Endpoints), since : Nat,
                       told : Chains \cup {Unset}]]

\* A call that tries no endpoint: not yet, or no more.
Idle(at) == [at |-> at, todo |-> <<>>, since |-> 0, told |-> Unset]

PoolInit ==
  /\ ticks = 0
  /\ serves \in [Endpoints -> Chains]
  /\ lastOn = [e \in Telling |->
                [chain \in Chains |-> IF serves[e] = chain THEN 0 ELSE Never]]
  /\ known = Unset
  /\ checkedAt = [e \in Endpoints |-> Unset]
  /\ consecutive = [e \in Endpoints |-> 0] /\ openUntil = [e \in Endpoints |-> 0]
  /\ measured = {}
  /\ rpc = [c \in RpcCalls |-> Idle("new")]

-----------------------------------------------------------------------------
Quarantined(e) == openUntil[e] > ticks

(* rankRpcEndpoints: the quarantined last; among the others those without  *)
(* a latency, whose score is infinite, last and in their configured order; *)
(* the rest by their latencies and failures, each of which weighs 10 s.    *)
Before(e, f) ==
  IF Quarantined(e) # Quarantined(f) THEN Quarantined(f)
  ELSE IF (e \in measured) # (f \in measured) THEN e \in measured
  ELSE IF e \notin measured THEN e < f
  ELSE consecutive[e] + Outweighs <= consecutive[f]

Ranked(order) == \A i, j \in DOMAIN order : i < j => ~Before(order[j], order[i])
Orders == {order \in SetToAllKPermutations(Endpoints) : Len(order) = Cardinality(Endpoints)}

(* assertGrpcClientNetwork, up to its await. *)
Believed(e) == checkedAt[e] # Unset /\ ticks - checkedAt[e] < IdentityTtl

Attempt(at, todo) == [at |-> at, todo |-> todo, since |-> ticks, told |-> Unset]

Tries(todo) ==
  IF todo = <<>> THEN Idle("failed")
  ELSE Attempt(IF Believed(Head(todo)) THEN "run" ELSE "identity", todo)

ReadStarts(c) ==
  /\ c \in Reads /\ rpc[c].at = "new"
  /\ \E order \in Orders : Ranked(order) /\ rpc' = [rpc EXCEPT ![c] = Tries(order)]
  /\ UNCHANGED <<ticks, serves, lastOn, known, checkedAt, health>>

ExecutionStarts(c) ==
  /\ c \in Executions /\ rpc[c].at = "new"
  /\ rpc' = [rpc EXCEPT ![c] = Tries(<<Protected>>)]
  /\ UNCHANGED <<ticks, serves, lastOn, known, checkedAt, health>>

Asks(c, e) == rpc[c].at \in {"identity", "told", "run"} /\ e = Head(rpc[c].todo)

(* The endpoint answers getServiceInfo, while the call awaits it. *)
Reports(c, e) ==
  /\ Asks(c, e) /\ rpc[c].at = "identity"
  /\ \E chain \in {serves[e]} \cup (IF e \in Silent THEN {Unset} ELSE {}) :
       rpc' = [rpc EXCEPT ![c].at = "told", ![c].told = chain]
  /\ UNCHANGED <<ticks, serves, lastOn, known, checkedAt, health>>

\* Mutant: the endpoint is believed before its chain is compared.
IdentityCachedFirst(c, e) ==
  /\ Asks(c, e) /\ rpc[c].at = "told"
  /\ checkedAt' = [checkedAt EXCEPT ![e] = ticks]
  /\ IF known = Unset \/ rpc[c].told \in {Unset, known}
       THEN /\ known' = IF rpc[c].told = Unset THEN known ELSE rpc[c].told
            /\ rpc' = [rpc EXCEPT ![c] = Attempt("run", @.todo)]
       ELSE UNCHANGED <<known, rpc>>
  /\ UNCHANGED <<ticks, serves, lastOn, health>>

(* assertReportedSuiNetwork and assertReportedChainId let the endpoint by, *)
(* for what it reported or because it reported nothing.                    *)
Identified(c, e) ==
  /\ Asks(c, e) /\ rpc[c].at = "told"
  /\ known = Unset \/ rpc[c].told \in {Unset, known}
  /\ known' = IF rpc[c].told = Unset THEN known ELSE rpc[c].told
  /\ checkedAt' = [checkedAt EXCEPT ![e] = ticks]
  /\ rpc' = [rpc EXCEPT ![c] = Attempt("run", @.todo)]
  /\ UNCHANGED <<ticks, serves, lastOn, health>>

\* Mutant: a success leaves the quarantine to run out.
SucceedsInQuarantine(e) ==
  /\ consecutive' = [consecutive EXCEPT ![e] = 0]
  /\ measured' = measured \cup {e}
  /\ UNCHANGED openUntil

RecordRpcSuccess(e) ==
  /\ consecutive' = [consecutive EXCEPT ![e] = 0]
  /\ openUntil' = [openUntil EXCEPT ![e] = 0]
  /\ measured' = measured \cup {e}

Backoff(n) ==
  RpcCooldown * CASE n = FailureThreshold     -> 1
                  [] n = FailureThreshold + 1 -> 2
                  [] n = FailureThreshold + 2 -> 4
                  [] OTHER                    -> 8

RecordRpcFailure(e) ==
  LET n == IF consecutive[e] < MaxFailures THEN consecutive[e] + 1 ELSE MaxFailures IN
    /\ consecutive' = [consecutive EXCEPT ![e] = n]
    /\ openUntil' = IF n >= FailureThreshold
                      THEN [openUntil EXCEPT ![e] = ticks + Backoff(n)] ELSE openUntil
    /\ UNCHANGED measured

Answers(c, e) ==
  /\ Asks(c, e) /\ rpc[c].at = "run"
  /\ IF c \in Reads THEN RecordRpcSuccess(e) ELSE UNCHANGED health
  /\ rpc' = [rpc EXCEPT ![c] = Idle("answered")]
  /\ UNCHANGED <<ticks, serves, lastOn, known, checkedAt>>

(* The identity is refused or not given, the call is refused by the node,  *)
(* or either takes too long.                                               *)
Fails(c, e) ==
  /\ Asks(c, e)
  /\ IF c \in Reads THEN RecordRpcFailure(e) ELSE UNCHANGED health
  /\ rpc' = [rpc EXCEPT ![c] = Tries(Tail(@.todo))]
  /\ UNCHANGED <<ticks, serves, lastOn, known, checkedAt>>

-----------------------------------------------------------------------------
(* The timer of a report that is awaited ends the wait. *)
PoolTick ==
  /\ ticks < MaxTicks /\ ticks' = ticks + 1
  /\ \A c \in RpcCalls :
       rpc[c].at \in {"identity", "told"} => ticks < rpc[c].since + RpcTimeout
  /\ lastOn' = [e \in Telling |-> [lastOn[e] EXCEPT ![serves[e]] = ticks']]
  /\ UNCHANGED <<serves, known, checkedAt, health, rpc>>

EndpointMoves ==
  /\ \E e \in Endpoints, chain \in Chains :
       /\ serves' = [serves EXCEPT ![e] = chain]
       /\ lastOn' = [f \in Telling |-> [lastOn[f] EXCEPT ![serves'[f]] = ticks]]
  /\ UNCHANGED <<ticks, known, checkedAt, health, rpc>>

PoolNext ==
  \/ \E c \in RpcCalls :
       \/ ReadStarts(c) \/ ExecutionStarts(c)
       \/ \E e \in Endpoints :
            Reports(c, e) \/ Identified(c, e) \/ Answers(c, e) \/ Fails(c, e)
  \/ PoolTick \/ EndpointMoves

PoolSpec == PoolInit /\ [][PoolNext]_poolVars

-----------------------------------------------------------------------------
(* A call is made to, and so answered by, an endpoint that tells its chain *)
(* only if that was on the chain of the process less than IdentityTtl and  *)
(* the time of a report before: one that has been moved is soon found out, *)
(* whichever call, of whichever kind, asked it last, however that ended,   *)
(* and whatever was let by because it told nothing.                        *)
AsksKnownChain ==
  \A c \in RpcCalls, e \in Telling :
    rpc[c].at = "run" /\ Asks(c, e) =>
      known # Unset /\ rpc[c].since < lastOn[e][known] + IdentityTtl + RpcTimeout

(* "A fallback endpoint therefore cannot silently serve a different        *)
(* chain/fork" (docs/RC15-RPC-TRUST-CACHE-HARDENING.md:9) is not so of one *)
(* that leaves its chain id out: grpc.ts:36 returns, and line 135 has it   *)
(* believed, which may be before any other has said what the chain is.     *)
AsksToldChain ==
  \A c \in RpcCalls, e \in Endpoints :
    rpc[c].at = "run" /\ Asks(c, e) => known # Unset

(* An endpoint is out of use only after that many failures since it last   *)
(* answered, to whichever call.                                            *)
QuarantineEarned == \A e \in Endpoints : Quarantined(e) => consecutive[e] >= FailureThreshold
=============================================================================
