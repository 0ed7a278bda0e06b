---------------------------- MODULE ExecuteRoute ----------------------------
(***************************************************************************)
(* POST /api/v1/transactions/execute                                       *)
(* (src/app/api/v1/transactions/execute/route.ts): a signed transaction is *)
(* reserved in the idempotency store, checked and simulated, submitted to  *)
(* Sui, and its outcome stored for replay.  The route drives the store of  *)
(* module Idempotency, whose state and calls it extends; a body's hash     *)
(* stands for the signed bytes in it.                                      *)
(*                                                                         *)
(* Sui is external: the same signed bytes execute once, with one outcome,  *)
(* and no longer pass a simulation afterwards, their gas object having     *)
(* been spent.                                                             *)
(***************************************************************************)
EXTENDS Idempotency

CONSTANTS
  Success,     \* the 200 response, with the digest
  Failure      \* the 422 response of a transaction that failed on chain

VARIABLES
  phase,       \* how far each request that holds its key has come
  chain        \* outcome on Sui of each transaction, Processing while it has none

routeVars == <<vars, phase, chain>>

ASSUME ExecuteAssumption ==
  Results = {Success, Failure} /\ Success # Failure

Phases == {"checking", "submitting", "executed"}

RouteTypeOK ==
  /\ TypeOK
  /\ phase \in [Requests -> Phases]
  /\ chain \in [Hashes -> Results \cup {Processing}]

RouteInit ==
  /\ Init
  /\ phase = [r \in Requests |-> "checking"]
  /\ chain = [h \in Hashes |-> Processing]

Holding(r, p) == pc[r] = "holding" /\ phase[r] = p

Advance(r, p) ==
  /\ phase' = [phase EXCEPT ![r] = p]
  /\ UNCHANGED vars

----------------------------------------------------------------------------
(* The handler. *)

\* Reservation: replay, 409 and conflict answers end the request in the store.
Reserve(r) ==
  /\ Start(r)
  /\ UNCHANGED <<phase, chain>>

\* Mutant: the catch block returns without giving the key back.
RefuseOnly(r) ==
  /\ Holding(r, "checking")
  /\ pc' = [pc EXCEPT ![r] = "released"]
  /\ UNCHANGED <<now, db, mem, prunedAt, req, at, expiresAt, result, via,
                 completed, phase, chain>>

\* The session, the quote proof, the policy, the signature or the simulation
\* refuses the request before submission: the catch block releases the key.
Refuse(r) ==
  /\ Holding(r, "checking")
  /\ Release(r)
  /\ UNCHANGED <<phase, chain>>

\* All checks pass, the simulation last; submissionAttempted = true.
Simulated(r) ==
  /\ Holding(r, "checking")
  /\ chain[req[r].hash] = Processing
  /\ Advance(r, "submitting")
  /\ UNCHANGED chain

\* The bytes reach Sui, which executes them unless it already has.
Landed(r) ==
  IF chain[req[r].hash] = Processing
  THEN {[chain EXCEPT ![req[r].hash] = s] : s \in Results}
  ELSE {chain}

\* executeTransactionGrpc returns.
Executed(r) ==
  /\ Holding(r, "submitting")
  /\ chain' \in Landed(r)
  /\ Advance(r, "executed")

\* Mutant: an ambiguous failure releases the reservation.
AmbiguousReleased(r) ==
  /\ Holding(r, "submitting")
  /\ chain' \in {chain} \cup Landed(r)
  /\ Release(r)
  /\ UNCHANGED phase

\* It throws, before the bytes were sent or after they were executed, or
\* answers without a digest: the error is returned, the reservation kept.
Ambiguous(r) ==
  /\ Holding(r, "submitting")
  /\ chain' \in {chain} \cup Landed(r)
  /\ Abandon(r)
  /\ UNCHANGED phase

\* Mutant: the outcome on chain is not looked at.
FinishAsSuccess(r) ==
  /\ Holding(r, "executed")
  /\ Complete(r, Success)
  /\ UNCHANGED <<phase, chain>>

\* The outcome goes to the store, after the best-effort swap record.
Finish(r) ==
  /\ Holding(r, "executed")
  /\ Complete(r, chain[req[r].hash])
  /\ UNCHANGED <<phase, chain>>

StoreWorks(r) ==
  /\ StoreStep(r)
  /\ UNCHANGED <<phase, chain>>

\* A crash may cut off a submission that has already been sent.
RouteCrashes(i) ==
  /\ Crash(i)
  /\ \/ UNCHANGED chain
     \/ \E r \in Requests :
          req[r].inst = i /\ Holding(r, "submitting") /\ chain' \in Landed(r)
  /\ UNCHANGED phase

Elapse ==
  /\ Sweep \/ Tick
  /\ UNCHANGED <<phase, chain>>

RouteNext ==
  \/ \E r \in Requests :
       \/ Reserve(r) \/ Refuse(r) \/ Simulated(r) \/ Executed(r)
       \/ Ambiguous(r) \/ Finish(r) \/ StoreWorks(r)
  \/ \E i \in Instances : RouteCrashes(i)
  \/ Elapse

RouteSpec == RouteInit /\ [][RouteNext]_routeVars

----------------------------------------------------------------------------
(* Properties *)

\* What a client is told is what happened on Sui: a 200 or 422 outcome, given
\* directly or replayed, is that of the client's own signed bytes, whatever
\* calls fail, reservations expire and processes crash.
ResponseTruth ==
  \A r \in Requests :
    pc[r] \in {"finished", "replayed"} => chain[req[r].hash] = result[r]

\* A request that has attempted submission and has no outcome from Sui.
InDoubt(r) == phase[r] = "submitting"

\* r keeps the row: it still works under it, or may have submitted its bytes.
Keeps(r, row) ==
  OwnKey(r, row) /\ (pc[r] \in {"holding", "completing", "releasing"} \/ InDoubt(r))

\* A key stays reserved for a submission only, or while its request runs: one
\* that was refused before submission leaves no reservation behind, so that the
\* client may try the same key and bytes again, even if another request took
\* the key over since, the process crashed and came back, or the reservation was
\* made in the Map because a database call failed.  In the table a crash leaves
\* one, and so does a delete that fails (DbFaults).
ReservedForSubmission ==
  /\ \A i \in Instances : \A row \in mem[i] : row.status = Processing =>
       \E r \in Requests : req[r].inst = i /\ Keeps(r, row)
  /\ ~DbFaults => \A row \in db : row.status = Processing =>
       \E r \in Requests : Keeps(r, row) \/ (OwnKey(r, row) /\ pc[r] = "crashed")

\* The same bytes are never on their way to Sui twice at once under one key
\* (SECURITY-AND-EXECUTION.md:39, "can both ... submit the same signed
\* payload"): while neither reservation has expired, one process without a
\* database has one submission in doubt per key.
OneSubmission ==
  \A r, s \in Requests :
    /\ r # s /\ SameKey(r, s)
    /\ Holding(r, "submitting") /\ InDoubt(s)
    => ~(LockLive(r) /\ LockLive(s))

\* "Once an execution RPC is attempted, an ambiguous upstream failure keeps the
\* reservation until expiry" (SECURITY-AND-EXECUTION.md:43): while it is to
\* expire, the table has a live row for the key of a submission in doubt.
KeptInDoubt ==
  \A r \in Requests :
    InDoubt(r) /\ via[r] = "db" /\ LockLive(r)
      => Live(RowsOf(db, req[r].key), now) # {}
=============================================================================
