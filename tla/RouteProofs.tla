---------------------------- MODULE RouteProofs ----------------------------
(***************************************************************************)
(* The execution route over the idempotency store: what the store's proofs *)
(* say of every caller holds of this one, and what follows for a client.   *)
(***************************************************************************)
EXTENDS ExecuteRoute, IdempotencyProofs

----------------------------------------------------------------------------
(* The route uses the store as the store allows.                           *)
(*                                                                         *)
(* Completing with the outcome on chain is a completion with a result only *)
(* because a request that got past submission has an outcome there.        *)

RouteInv ==
  /\ RouteTypeOK
  /\ \A r \in Requests :
       phase[r] = "executed" => chain[req[r].hash] # Processing

\* An outcome on Sui, once there, does not change.
ChainKept ==
  /\ chain' \in [Hashes -> Results \cup {Processing}]
  /\ \A h \in Hashes : chain[h] # Processing => chain'[h] = chain[h]

\* What the step completes is what the chain says.
CompletesTruly ==
  \A c \in completed' : c \in completed \/ chain[c[2]] = c[3]

LEMMA LandedKeeps ==
  ASSUME RouteInv, NEW r \in Requests,
         chain' \in {chain} \cup Landed(r)
  PROVE  /\ ChainKept
         /\ chain' \in Landed(r) => chain'[req[r].hash] # Processing
<1> USE IdempotencyAssumption, ExecuteAssumption
<1>1. /\ chain \in [Hashes -> Results \cup {Processing}]
      /\ req[r].hash \in Hashes
  BY DEF RouteInv, RouteTypeOK, TypeOK
<1>2. CASE chain' = chain
  BY <1>1, <1>2 DEF ChainKept, Landed
<1>3. CASE chain' \in Landed(r) /\ chain' # chain
  <2>1. chain[req[r].hash] = Processing
    BY <1>3 DEF Landed
  <2>2. PICK s \in Results : chain' = [chain EXCEPT ![req[r].hash] = s]
    BY <1>3, <2>1 DEF Landed
  <2>3. QED
    BY <1>1, <2>1, <2>2 DEF ChainKept
<1>4. QED
  BY <1>2, <1>3

\* Only a completion adds to the history of completions.
LEMMA CompletedKept ==
  ASSUME \/ \E r : Start(r) \/ StoreStep(r) \/ Release(r) \/ Abandon(r)
         \/ \E i : Crash(i)
         \/ Sweep \/ Tick \/ UNCHANGED vars
  PROVE  UNCHANGED <<req, completed>>
<1>1. ASSUME NEW r, Start(r) \/ StoreStep(r)
      PROVE  UNCHANGED <<req, completed>>
  BY <1>1 DEF Start, StoreStep, Find, Reap, Insert, Reread, AcquireFails,
              StoreResult, StoreFails, DeleteReservation
<1>2. ASSUME NEW r, Release(r) \/ Abandon(r)
      PROVE  UNCHANGED <<req, completed>>
  BY <1>2, Zenon DEF Release, Abandon
<1>3. ASSUME NEW i, Crash(i)
      PROVE  UNCHANGED <<req, completed>>
  BY <1>3 DEF Crash
<1>4. CASE Sweep \/ Tick \/ UNCHANGED vars
  BY <1>4 DEF Sweep, Tick, vars
<1>5. QED
  BY <1>1, <1>2, <1>3, <1>4

\* Every step of the route is one of the store, or leaves the store alone.
LEMMA RouteStep ==
  ASSUME RouteInv, [RouteNext]_routeVars
  PROVE  [Next]_vars /\ ChainKept /\ CompletesTruly /\ RouteInv'
<1> USE IdempotencyAssumption, ExecuteAssumption
<1> DEFINE Goal == [Next]_vars /\ ChainKept /\ CompletesTruly /\ RouteInv'
<1>1. /\ TypeOK
      /\ phase \in [Requests -> Phases]
      /\ chain \in [Hashes -> Results \cup {Processing}]
      /\ \A r \in Requests : req[r].hash \in Hashes
  BY DEF RouteInv, RouteTypeOK, TypeOK
<1>2. chain' = chain => ChainKept
  BY <1>1 DEF ChainKept
<1>3. UNCHANGED completed => CompletesTruly
  BY DEF CompletesTruly
\* The invariant after a step that leaves the phases alone.
<1>4. ASSUME [Next]_vars, ChainKept, UNCHANGED <<req, phase>>
      PROVE  RouteInv'
  <2>1. RouteTypeOK'
    <3>1. TypeOK'
      BY <1>1, <1>4, TypeStep
    <3>2. QED
      BY <1>1, <1>4, <3>1
         DEF RouteTypeOK, ChainKept
  <2>2. \A r \in Requests :
          phase'[r] = "executed" => chain'[req'[r].hash] # Processing
    BY <1>1, <1>4 DEF RouteInv, ChainKept
  <2>3. QED
    BY <2>1, <2>2 DEF RouteInv
<1>5. ASSUME NEW r \in Requests, Reserve(r) \/ Refuse(r)
      PROVE  Goal
  <2>1. Start(r) \/ Release(r)
    BY <1>5, Zenon DEF Reserve, Refuse
  <2>2. UNCHANGED <<phase, chain>>
    BY <1>5 DEF Reserve, Refuse
  <2>3. [Next]_vars
    BY <2>1 DEF Next
  <2>4. UNCHANGED <<req, completed>>
    BY <2>1, CompletedKept
  <2>5. QED
    BY <1>2, <1>3, <1>4, <2>2, <2>3, <2>4
<1>6. ASSUME NEW r \in Requests, Simulated(r)
      PROVE  Goal
  <2>1. /\ phase' = [phase EXCEPT ![r] = "submitting"]
        /\ chain' = chain
        /\ UNCHANGED vars
    BY <1>6 DEF Simulated, Advance
  <2>2. UNCHANGED <<req, completed>>
    BY <2>1, CompletedKept
  <2>3. RouteTypeOK'
    BY <1>1, <2>1 DEF RouteTypeOK, Phases, TypeOK,
       vars
  <2>4. \A q \in Requests :
          phase'[q] = "executed" => chain'[req'[q].hash] # Processing
    BY <1>1, <2>1, <2>2 DEF RouteInv
  <2>5. QED
    BY <1>2, <1>3, <2>1, <2>2, <2>3, <2>4 DEF RouteInv
<1>7. ASSUME NEW r \in Requests, Executed(r)
      PROVE  Goal
  <2>1. /\ phase' = [phase EXCEPT ![r] = "executed"]
        /\ chain' \in Landed(r)
        /\ UNCHANGED vars
    BY <1>7 DEF Executed, Advance
  <2>2. UNCHANGED <<req, completed>>
    BY <2>1, CompletedKept
  <2>3. ChainKept /\ chain'[req[r].hash] # Processing
    BY <2>1, LandedKeeps
  <2>4. RouteTypeOK'
    BY <1>1, <2>1, <2>3
       DEF RouteTypeOK, Phases, TypeOK, vars, ChainKept
  <2>5. \A q \in Requests :
          phase'[q] = "executed" => chain'[req'[q].hash] # Processing
    BY <1>1, <2>1, <2>2, <2>3 DEF RouteInv, ChainKept
  <2>6. QED
    BY <1>3, <2>1, <2>2, <2>3, <2>4, <2>5 DEF RouteInv
<1>8. ASSUME NEW r \in Requests, Ambiguous(r)
      PROVE  Goal
  <2>1. Abandon(r) /\ phase' = phase /\ chain' \in {chain} \cup Landed(r)
    BY <1>8 DEF Ambiguous
  <2>2. [Next]_vars
    BY <2>1 DEF Next
  <2>3. ChainKept
    BY <2>1, LandedKeeps
  <2>4. UNCHANGED <<req, completed>>
    BY <2>1, CompletedKept
  <2>5. QED
    BY <1>3, <1>4, <2>1, <2>2, <2>3, <2>4
<1>9. ASSUME NEW r \in Requests, Finish(r)
      PROVE  Goal
  <2> DEFINE s == chain[req[r].hash]
  <2>1. s \in Results
    BY <1>1, <1>9 DEF Finish, Holding, RouteInv
  <2>2. Complete(r, s) /\ UNCHANGED <<phase, chain>>
    BY <1>9 DEF Finish
  <2>3. [Next]_vars
    BY <2>1, <2>2 DEF Next
  <2>4. /\ req' = req
        /\ completed' = completed \cup {<<req[r].key, req[r].hash, s>>}
    BY <2>2 DEF Complete
  <2>5. CompletesTruly
    BY <2>4 DEF CompletesTruly
  <2>6. QED
    BY <1>2, <1>4, <2>2, <2>3, <2>4, <2>5
<1>10. ASSUME NEW r \in Requests, StoreWorks(r)
       PROVE  Goal
  <2>1. StoreStep(r) /\ UNCHANGED <<phase, chain>>
    BY <1>10 DEF StoreWorks
  <2>2. [Next]_vars
    BY <2>1 DEF Next
  <2>3. UNCHANGED <<req, completed>>
    BY <2>1, CompletedKept
  <2>4. QED
    BY <1>2, <1>3, <1>4, <2>1, <2>2, <2>3
<1>11. ASSUME NEW i \in Instances, RouteCrashes(i)
       PROVE  Goal
  <2>1. Crash(i) /\ phase' = phase
    BY <1>11 DEF RouteCrashes
  <2>2. ChainKept
    BY <1>2, <1>11, LandedKeeps DEF RouteCrashes
  <2>3. [Next]_vars
    BY <2>1 DEF Next
  <2>4. UNCHANGED <<req, completed>>
    BY <2>1, CompletedKept
  <2>5. QED
    BY <1>3, <1>4, <2>1, <2>2, <2>3, <2>4
<1>12. CASE Elapse
  <2>1. (Sweep \/ Tick) /\ UNCHANGED <<phase, chain>>
    BY <1>12 DEF Elapse
  <2>2. [Next]_vars
    BY <2>1 DEF Next
  <2>3. UNCHANGED <<req, completed>>
    BY <2>1, CompletedKept
  <2>4. QED
    BY <1>2, <1>3, <1>4, <2>1, <2>2, <2>3
<1>13. CASE UNCHANGED routeVars
  <2>1. UNCHANGED vars /\ UNCHANGED <<phase, chain>>
    BY <1>13 DEF routeVars
  <2>2. UNCHANGED <<req, completed>>
    BY <2>1, CompletedKept
  <2>3. QED
    BY <1>2, <1>3, <1>4, <2>1, <2>2
<1>14. QED
  BY <1>5, <1>6, <1>7, <1>8, <1>9, <1>10, <1>11, <1>12, <1>13 DEF RouteNext

LEMMA RouteStart == RouteInit => Init /\ RouteInv
<1> SUFFICES ASSUME RouteInit PROVE Init /\ RouteInv
  OBVIOUS
<1>1. Init
  BY DEF RouteInit
<1>2. TypeOK
  BY <1>1, IdempotencyAssumption DEF Init, TypeOK, Statuses
<1>3. RouteTypeOK
  BY <1>2 DEF RouteInit, RouteTypeOK, Phases
<1>4. QED
  BY <1>1, <1>3 DEF RouteInit, RouteInv

\* The execution route implements the store's specification: each of its steps
\* is a call that the store allows its callers, or touches the store not at
\* all, so that every property of the store is one of this handler.
THEOREM RouteUsesStore == RouteSpec => Spec
<1>1. RouteInit => Init /\ RouteInv
  BY RouteStart
<1>2. RouteInv /\ [RouteNext]_routeVars => [Next]_vars /\ RouteInv'
  BY RouteStep
<1>3. QED
  BY <1>1, <1>2, PTL DEF RouteSpec, Spec

----------------------------------------------------------------------------
(* What a client is told is what happened on Sui. *)

\* Every outcome handed to the store is the one on chain.
ChainTruth == \A c \in completed : chain[c[2]] = c[3]

AnswerInv == RouteInv /\ TruthInv /\ ChainTruth

LEMMA AnswerStep == AnswerInv /\ [RouteNext]_routeVars => AnswerInv'
<1> SUFFICES ASSUME AnswerInv, [RouteNext]_routeVars
             PROVE  AnswerInv'
  OBVIOUS
<1>1. TypeOK
  BY DEF AnswerInv, RouteInv, RouteTypeOK
<1>2. [Next]_vars /\ ChainKept /\ CompletesTruly /\ RouteInv'
  BY RouteStep DEF AnswerInv
<1>3. TruthInv'
  BY <1>1, <1>2, TruthStep DEF AnswerInv
<1>4. ASSUME NEW c \in completed'
      PROVE  chain'[c[2]] = c[3]
  <2>1. TypeOK'
    BY <1>1, <1>2, TypeStep
  <2>2. c[2] \in Hashes /\ c[3] \in Results
    BY <1>4, <2>1 DEF TypeOK
  <2>3. chain[c[2]] = c[3]
    BY <1>2, <1>4 DEF CompletesTruly, AnswerInv, ChainTruth
  <2>4. QED
    BY <1>2, <2>2, <2>3, IdempotencyAssumption DEF ChainKept
<1>5. QED
  BY <1>2, <1>3, <1>4 DEF AnswerInv, ChainTruth

\* A 200 or 422 outcome that a client receives, directly or replayed, is the
\* outcome on Sui of the client's own signed bytes, for any number of requests
\* and processes, whatever database calls fail, reservations expire and
\* processes crash.
THEOREM ResponsesAreTrue == RouteSpec => []ResponseTruth
<1>1. RouteInit => AnswerInv
  <2> SUFFICES ASSUME RouteInit PROVE AnswerInv
    OBVIOUS
  <2>1. Init /\ RouteInv
    BY RouteStart
  <2>2. QED
    BY <2>1 DEF Init, AnswerInv, TruthInv, ReplayTruth, ChainTruth
<1>2. AnswerInv => ResponseTruth
  <2> SUFFICES ASSUME AnswerInv, NEW r \in Requests,
                      pc[r] \in {"finished", "replayed"}
               PROVE  chain[req[r].hash] = result[r]
    BY DEF ResponseTruth
  <2>1. <<req[r].key, req[r].hash, result[r]>> \in completed
    BY DEF AnswerInv, TruthInv, ReplayTruth
  <2>2. QED
    BY <2>1 DEF AnswerInv, ChainTruth
<1>3. QED
  BY <1>1, <1>2, AnswerStep, PTL DEF RouteSpec

----------------------------------------------------------------------------
(* One process without a database. *)

\* A submission in doubt is that of a request that holds its key or left it.
DoubtInv ==
  \A r \in Requests :
    phase[r] = "submitting" => pc[r] \in {"holding", "abandoned"}

SubmitInv == RouteInv /\ LocalInv /\ DoubtInv

LEMMA DoubtStep ==
  ASSUME OneProcess, SubmitInv, [RouteNext]_routeVars
  PROVE  DoubtInv'
<1> SUFFICES ASSUME NEW q \in Requests, phase'[q] = "submitting"
             PROVE  pc'[q] \in {"holding", "abandoned"}
  BY DEF DoubtInv
<1>1. /\ TypeOK
      /\ phase \in [Requests -> Phases]
      /\ phase[q] = "submitting" => pc[q] \in {"holding", "abandoned"}
  BY DEF SubmitInv, RouteInv, RouteTypeOK, DoubtInv
<1>2. ASSUME phase' = phase,
             \E r \in Requests : r # q /\ \E where : Goto(r, where)
      PROVE  pc'[q] \in {"holding", "abandoned"}
  BY <1>1, <1>2 DEF Goto, TypeOK
<1>3. ASSUME NEW r \in Requests, Reserve(r)
      PROVE  pc'[q] \in {"holding", "abandoned"}
  <2>1. Start(r) /\ phase' = phase
    BY <1>3 DEF Reserve
  <2>2. q # r
    BY <1>1, <2>1 DEF Start
  <2>3. \E where : Goto(r, where)
    BY <2>1 DEF Start, AcquireLocally, Answer
  <2>4. QED
    BY <1>2, <2>1, <2>2, <2>3
<1>4. ASSUME NEW r \in Requests, Refuse(r)
      PROVE  pc'[q] \in {"holding", "abandoned"}
  <2>1. Release(r) /\ phase' = phase /\ phase[r] = "checking"
    BY <1>4, Zenon DEF Refuse, Holding
  <2>2. q # r
    BY <2>1
  <2>3. \E where : Goto(r, where)
    BY <2>1, Zenon DEF Release, ReleaseLocally
  <2>4. QED
    BY <1>2, <2>1, <2>2, <2>3
<1>5. ASSUME NEW r \in Requests, Simulated(r) \/ Executed(r)
      PROVE  pc'[q] \in {"holding", "abandoned"}
  <2>1. UNCHANGED vars /\ pc[r] = "holding"
    BY <1>5 DEF Simulated, Executed, Advance, Holding
  <2>2. q # r => phase'[q] = phase[q]
    BY <1>1, <1>5 DEF Simulated, Executed, Advance
  <2>3. QED
    BY <1>1, <2>1, <2>2 DEF vars
<1>6. ASSUME NEW r \in Requests, Ambiguous(r)
      PROVE  pc'[q] \in {"holding", "abandoned"}
  <2>1. Abandon(r) /\ phase' = phase
    BY <1>6 DEF Ambiguous
  <2>2. QED
    BY <1>1, <2>1 DEF Abandon, Goto, TypeOK
<1>7. ASSUME NEW r \in Requests, Finish(r)
      PROVE  pc'[q] \in {"holding", "abandoned"}
  <2>1. Complete(r, chain[req[r].hash]) /\ phase' = phase /\ phase[r] = "executed"
    BY <1>7 DEF Finish, Holding
  <2>2. q # r
    BY <2>1
  <2>3. \E where : Goto(r, where)
    BY <2>1 DEF Complete
  <2>4. QED
    BY <1>2, <2>1, <2>2, <2>3
<1>8. ASSUME NEW r \in Requests, StoreWorks(r)
      PROVE  FALSE
  BY <1>8 DEF StoreWorks, SubmitInv, LocalInv, StoreStep, Find, Reap, Insert,
         Reread, AcquireFails, InCall, StoreResult, StoreFails, DeleteReservation
<1>9. ASSUME NEW i \in Instances, RouteCrashes(i)
      PROVE  FALSE
  BY <1>9 DEF RouteCrashes, Crash, OneProcess
<1>10. CASE Elapse
  <2>1. (Sweep \/ Tick) /\ phase' = phase
    BY <1>10 DEF Elapse
  <2>2. QED
    BY <1>1, <2>1 DEF Sweep, Tick
<1>11. CASE UNCHANGED routeVars
  BY <1>1, <1>11 DEF routeVars, vars
<1>12. QED
  BY <1>3, <1>4, <1>5, <1>6, <1>7, <1>8, <1>9, <1>10, <1>11 DEF RouteNext

\* The same bytes are never on their way to Sui twice at once under one key:
\* in one process without a database, whose requests end before their
\* reservations do, at most one submission per key is in doubt while its
\* reservation is to expire, whether its request still waits or has given up.
THEOREM OneSubmissionInDoubt ==
  ASSUME OneProcess PROVE RouteSpec => []OneSubmission
<1>1. RouteInit => SubmitInv
  <2> SUFFICES ASSUME RouteInit PROVE SubmitInv
    OBVIOUS
  <2>1. Init /\ RouteInv
    BY RouteStart
  <2>2. QED
    BY <2>1, LocalInit DEF RouteInit, SubmitInv, DoubtInv
<1>2. SubmitInv /\ [RouteNext]_routeVars => SubmitInv'
  <2> SUFFICES ASSUME SubmitInv, [RouteNext]_routeVars
               PROVE  SubmitInv'
    OBVIOUS
  <2>1. [Next]_vars /\ RouteInv' /\ TypeOK
    BY RouteStep DEF SubmitInv, RouteInv, RouteTypeOK
  <2>2. LocalInv'
    BY <2>1, LocalStep DEF SubmitInv
  <2>3. QED
    BY <2>1, <2>2, DoubtStep DEF SubmitInv
<1>3. SubmitInv => OneSubmission
  <2> SUFFICES ASSUME SubmitInv, NEW r \in Requests, NEW s \in Requests, r # s,
                      SameKey(r, s), Holding(r, "submitting"),
                      InDoubt(s), LockLive(r), LockLive(s)
               PROVE  FALSE
    BY DEF OneSubmission
  <2>1. Pending(r) /\ Pending(s)
    BY DEF Holding, InDoubt, SubmitInv, DoubtInv, Pending
  <2>2. QED
    BY <2>1 DEF SubmitInv, LocalInv
<1>4. QED
  BY <1>1, <1>2, <1>3, PTL DEF RouteSpec

\* In the same setting the route is never given a key to execute under while a
\* response stored for that key is still to expire.
THEOREM ExecutedOnce ==
  ASSUME OneProcess PROVE RouteSpec => NoReexecution
BY RouteUsesStore, CompletedOnce

----------------------------------------------------------------------------
(* A key stays reserved for a submission only. *)

Owning == {"holding", "completing", "releasing"}

\* Without a database no request is in a call of it.
NoTable ==
  ~Persistent =>
    db = {} /\ \A r \in Requests : pc[r] \notin InCall \cup {"completing", "releasing"}

\* What a request is about to store is a result.
StoresResult == \A r \in Requests : pc[r] = "completing" => result[r] \in Results

KeptInv == RouteInv /\ NoTable /\ StoresResult /\ ReservedForSubmission

\* The store's part of the invariant, for any step of it.
LEMMA TableStep ==
  ASSUME TypeOK, NoTable, StoresResult, [Next]_vars
  PROVE  NoTable' /\ StoresResult'
<1> USE DEF NoTable, StoresResult, InCall
<1>1. /\ pc \in [Requests -> {"idle"} \cup Working \cup Ended]
      /\ result \in [Requests -> Statuses]
  BY DEF TypeOK
<1>2. ASSUME NEW r \in Requests, NEW where, Goto(r, where),
             where \notin InCall \cup {"completing", "releasing"},
             ~Persistent => db' = {},
             \A s \in Requests : s # r => result'[s] = result[s]
      PROVE  NoTable' /\ StoresResult'
  BY <1>1, <1>2 DEF Goto
<1>3. ASSUME NEW r \in Requests, NEW row, Answer(r, row), ~Persistent => db' = {}
      PROVE  NoTable' /\ StoresResult'
  <2>1. PICK where \in {"conflict", "busy", "replayed"} : Goto(r, where)
    BY <1>3 DEF Answer
  <2>2. \A s \in Requests : s # r => result'[s] = result[s]
    BY <1>1, <1>3 DEF Answer
  <2>3. QED
    BY <1>2, <1>3, <2>1, <2>2
<1>4. ASSUME NEW r \in Requests, NEW t, NEW table, AcquireLocally(r, t, table),
             ~Persistent => db' = {}
      PROVE  NoTable' /\ StoresResult'
  <2>1. CASE Goto(r, "holding") /\ UNCHANGED result
    BY <1>2, <1>4, <2>1
  <2>2. CASE \E row : Answer(r, row)
    BY <1>3, <1>4, <2>2
  <2>3. QED
    BY <1>4, <2>1, <2>2 DEF AcquireLocally
<1>5. ASSUME NEW r \in Requests, Start(r)
      PROVE  NoTable' /\ StoresResult'
  <2>1. CASE Persistent /\ Goto(r, "find") /\ UNCHANGED result
    BY <1>1, <2>1 DEF Goto
  <2>2. CASE ~Persistent
    <3>1. \E table : AcquireLocally(r, now, table)
      BY <1>5, <2>2 DEF Start
    <3>2. db' = db
      BY <1>5 DEF Start
    <3>3. QED
      BY <1>4, <3>1, <3>2
  <2>3. QED
    BY <1>5, <2>1, <2>2 DEF Start
<1>6. ASSUME NEW r \in Requests, StoreStep(r)
      PROVE  NoTable' /\ StoresResult'
  <2>0. Persistent
    BY <1>6 DEF StoreStep, Find, Reap, Insert, Reread, AcquireFails, StoreResult,
                StoreFails, DeleteReservation
  <2>1. CASE Find(r)
    <3>1. CASE \E where \in {"insert", "reap"} : Goto(r, where) /\ UNCHANGED result
      BY <1>1, <2>0, <3>1 DEF Goto
    <3>2. CASE \E row : Answer(r, row)
      BY <1>3, <2>0, <3>2
    <3>3. QED
      BY <2>1, <3>1, <3>2 DEF Find
  <2>2. CASE Reap(r) \/ Insert(r)
    <3>1. UNCHANGED result /\ \E where \in {"insert", "holding", "reread"} : Goto(r, where)
      BY <2>2 DEF Reap, Insert
    <3>2. QED
      BY <1>1, <2>0, <3>1 DEF Goto
  <2>3. CASE Reread(r)
    <3>1. CASE \E row : Answer(r, row)
      BY <1>3, <2>0, <3>1
    <3>2. CASE AcquireLocally(r, at[r], mem[req[r].inst])
      BY <1>4, <2>0, <3>2
    <3>3. QED
      BY <2>3, <3>1, <3>2 DEF Reread
  <2>4. CASE AcquireFails(r)
    <3>1. AcquireLocally(r, at[r], mem[req[r].inst])
      BY <2>4 DEF AcquireFails
    <3>2. QED
      BY <1>4, <2>0, <3>1
  <2>5. CASE StoreResult(r) \/ StoreFails(r) \/ DeleteReservation(r)
    <3>1. UNCHANGED result /\ \E where \in {"finished", "released"} : Goto(r, where)
      BY <2>5 DEF StoreResult, StoreFails, DeleteReservation, ReleaseLocally
    <3>2. QED
      BY <1>2, <2>0, <3>1
  <2>6. QED
    BY <1>6, <2>1, <2>2, <2>3, <2>4, <2>5 DEF StoreStep
<1>7. ASSUME NEW r \in Requests, NEW s \in Results, Complete(r, s)
      PROVE  NoTable' /\ StoresResult'
  <2>1. /\ result' = [result EXCEPT ![r] = s] /\ db' = db
        /\ \/ Persistent /\ Goto(r, "completing")
           \/ ~Persistent /\ Goto(r, "finished")
    BY <1>7 DEF Complete
  <2>2. QED
    BY <1>1, <2>1 DEF Goto
<1>8. ASSUME NEW r \in Requests, Release(r) \/ Abandon(r)
      PROVE  NoTable' /\ StoresResult'
  <2>1. /\ UNCHANGED <<db, result>>
        /\ \/ Persistent /\ Goto(r, "releasing")
           \/ Goto(r, "released")
           \/ Goto(r, "abandoned")
    BY <1>8, Zenon DEF Release, ReleaseLocally, Abandon
  <2>2. QED
    BY <1>1, <2>1 DEF Goto
<1>9. ASSUME NEW i \in Instances, Crash(i)
      PROVE  NoTable' /\ StoresResult'
  BY <1>1, <1>9 DEF Crash
<1>10. CASE Sweep \/ Tick \/ UNCHANGED vars
  BY <1>10 DEF Sweep, Tick, vars
<1>11. QED
  BY <1>5, <1>6, <1>7, <1>8, <1>9, <1>10 DEF Next

\* A step of one request: it brings no reservation but its own, and when it
\* leaves without having submitted, its own reservation leaves with it.
Accounted(table, r, where, there) ==
  /\ \A row \in table' : row.status = Processing =>
       row \in table \/ (where = "holding" /\ there /\ OwnKey(r, row))
  /\ \/ where \in Owning \/ InDoubt(r) \/ pc[r] \notin Owning
     \/ \A row \in table' : ~(row.status = Processing /\ there /\ OwnKey(r, row))

LEMMA StepKeeps ==
  ASSUME KeptInv, NEW r \in Requests, NEW where, Goto(r, where), UNCHANGED <<phase, req>>,
         pc[r] # "crashed",
         \A i \in Instances : Accounted(mem[i], r, where, req[r].inst = i),
         ~DbFaults => Accounted(db, r, where, TRUE)
  PROVE  ReservedForSubmission'
<1>1. pc \in [Requests -> {"idle"} \cup Working \cup Ended]
  BY DEF KeptInv, RouteInv, RouteTypeOK, TypeOK
<1>3. \A s \in Requests : s # r => pc'[s] = pc[s]
  BY <1>1 DEF Goto
<1>4. pc'[r] = where
  BY <1>1 DEF Goto
<1>5. ASSUME NEW row, NEW s \in Requests, Keeps(s, row),
             s # r \/ where \in Owning \/ InDoubt(r)
      PROVE  Keeps(s, row)'
  BY <1>3, <1>4, <1>5 DEF Keeps, OwnKey, InDoubt, Owning
<1>6. ASSUME NEW i \in Instances, NEW row \in mem'[i], row.status = Processing
      PROVE  \E s \in Requests : req'[s].inst = i /\ Keeps(s, row)'
  <2>1. CASE where = "holding" /\ req[r].inst = i /\ OwnKey(r, row)
    BY <1>4, <2>1 DEF Keeps, OwnKey
  <2>2. CASE row \in mem[i]
    <3>1. PICK s \in Requests : req[s].inst = i /\ Keeps(s, row)
      BY <1>6, <2>2 DEF KeptInv, ReservedForSubmission
    <3>2. s # r \/ where \in Owning \/ InDoubt(r)
      BY <1>6, <3>1 DEF Accounted, Keeps, Owning
    <3>3. QED
      BY <1>5, <3>1, <3>2
  <2>3. QED
    BY <1>6, <2>1, <2>2 DEF Accounted
<1>7. ASSUME ~DbFaults, NEW row \in db', row.status = Processing
      PROVE  \E s \in Requests : Keeps(s, row)' \/ (OwnKey(s, row)' /\ pc'[s] = "crashed")
  <2>1. CASE where = "holding" /\ OwnKey(r, row)
    BY <1>4, <2>1 DEF Keeps, OwnKey
  <2>2. CASE row \in db
    <3>1. PICK s \in Requests : Keeps(s, row) \/ (OwnKey(s, row) /\ pc[s] = "crashed")
      BY <1>7, <2>2 DEF KeptInv, ReservedForSubmission
    <3>2. CASE pc[s] = "crashed" /\ OwnKey(s, row) /\ s # r
      BY <1>3, <3>2 DEF OwnKey
    <3>3. CASE Keeps(s, row)
      <4>1. s # r \/ where \in Owning \/ InDoubt(r)
        BY <1>7, <3>3 DEF Accounted, Keeps, Owning
      <4>2. QED
        BY <1>5, <3>3, <4>1
    <3>4. QED
      BY <3>1, <3>2, <3>3
  <2>3. QED
    BY <1>7, <2>1, <2>2 DEF Accounted
<1>8. QED
  BY <1>6, <1>7 DEF ReservedForSubmission

LEMMA LocallyKeeps ==
  ASSUME TypeOK, NEW r \in Requests, pc[r] \notin Owning, NEW t,
         NEW table, table \subseteq mem[req[r].inst], AcquireLocally(r, t, table)
  PROVE  \E where : /\ Goto(r, where)
                    /\ \A i \in Instances : Accounted(mem[i], r, where, req[r].inst = i)
<1>1. mem \in [Instances -> SUBSET Rows] /\ req[r].inst \in Instances
  BY DEF TypeOK
<1>2. CASE Goto(r, "holding") /\ mem' = [mem EXCEPT ![req[r].inst] = Put(table, Reservation(r, t))]
  <2>1. \A i \in Instances : Accounted(mem[i], r, "holding", req[r].inst = i)
    BY <1>1, <1>2 DEF Accounted, Put, Reservation, OwnKey, Owning
  <2>2. QED
    BY <1>2, <2>1
<1>3. CASE mem' = [mem EXCEPT ![req[r].inst] = table] /\ \E row : Answer(r, row)
  <2>1. PICK where : Goto(r, where)
    BY <1>3 DEF Answer
  <2>2. \A i \in Instances : Accounted(mem[i], r, where, req[r].inst = i)
    BY <1>1, <1>3 DEF Accounted
  <2>3. QED
    BY <2>1, <2>2
<1>4. QED
  BY <1>2, <1>3 DEF AcquireLocally

\* The step of a call of the store, for a request that holds no key yet.
LEMMA AcquireKeeps ==
  ASSUME KeptInv, NEW r \in Requests, UNCHANGED <<phase, req>>,
         Start(r) \/ Find(r) \/ Reap(r) \/ Insert(r) \/ Reread(r) \/ AcquireFails(r)
  PROVE  ReservedForSubmission'
<1>1. /\ TypeOK
      /\ mem \in [Instances -> SUBSET Rows] /\ req[r].inst \in Instances
  BY DEF KeptInv, RouteInv, RouteTypeOK, TypeOK
<1>2. pc[r] \notin Owning /\ pc[r] # "crashed"
  BY DEF Start, Find, Reap, Insert, Reread, AcquireFails, InCall, Owning
<1>3. ASSUME NEW t, NEW table, table \subseteq mem[req[r].inst], AcquireLocally(r, t, table),
             db' = db \/ DbFaults
      PROVE  ReservedForSubmission'
  <2>1. PICK where : /\ Goto(r, where)
                     /\ \A i \in Instances : Accounted(mem[i], r, where, req[r].inst = i)
    BY <1>1, <1>2, <1>3, LocallyKeeps
  <2>2. ~DbFaults => Accounted(db, r, where, TRUE)
    BY <1>2, <1>3 DEF Accounted
  <2>3. QED
    BY <1>2, <2>1, <2>2, StepKeeps
<1>4. ASSUME NEW where, Goto(r, where), mem' = mem, db' \subseteq db
      PROVE  ReservedForSubmission'
  <2>1. \A i \in Instances : Accounted(mem[i], r, where, req[r].inst = i)
    BY <1>2, <1>4 DEF Accounted
  <2>2. Accounted(db, r, where, TRUE)
    BY <1>2, <1>4 DEF Accounted
  <2>3. QED
    BY <1>2, <1>4, <2>1, <2>2, StepKeeps
<1>5. CASE Start(r)
  <2> DEFINE table == IF now - prunedAt[req[r].inst] >= PruneGap
                        THEN Live(mem[req[r].inst], now) ELSE mem[req[r].inst]
  <2>1. table \subseteq mem[req[r].inst]
    BY DEF Live
  <2>2. db' = db
    BY <1>5 DEF Start
  <2>3. CASE Goto(r, "find") /\ mem' = [mem EXCEPT ![req[r].inst] = table]
    <3>1. \A i \in Instances : Accounted(mem[i], r, "find", req[r].inst = i)
      BY <1>1, <1>2, <2>1, <2>3 DEF Accounted
    <3>2. Accounted(db, r, "find", TRUE)
      BY <1>2, <2>2 DEF Accounted
    <3>3. QED
      BY <1>2, <2>3, <3>1, <3>2, StepKeeps
  <2>4. CASE AcquireLocally(r, now, table)
    BY <1>3, <2>1, <2>2, <2>4
  <2>5. QED
    BY <1>5, <2>3, <2>4 DEF Start
<1>6. CASE Find(r)
  <2>1. mem' = mem /\ db' = db /\ \E where : Goto(r, where)
    BY <1>6 DEF Find, Answer
  <2>2. QED
    BY <1>4, <2>1
<1>7. CASE Reap(r)
  <2>1. mem' = mem /\ db' \subseteq db /\ Goto(r, "insert")
    BY <1>7 DEF Reap, Reaped
  <2>2. QED
    BY <1>4, <2>1
<1>8. CASE Insert(r)
  <2>1. CASE db' = db
    <3>1. mem' = mem /\ \E where : Goto(r, where)
      BY <1>8 DEF Insert
    <3>2. QED
      BY <1>4, <2>1, <3>1
  <2>2. CASE db' = db \cup {Reservation(r, at[r])} /\ Goto(r, "holding")
    <3>1. mem' = mem
      BY <1>8 DEF Insert
    <3>2. \A i \in Instances : Accounted(mem[i], r, "holding", req[r].inst = i)
      BY <3>1 DEF Accounted, Owning
    <3>3. Accounted(db, r, "holding", TRUE)
      BY <2>2 DEF Accounted, Reservation, OwnKey, Owning
    <3>4. QED
      BY <1>2, <2>2, <3>2, <3>3, StepKeeps
  <2>3. QED
    BY <1>8, <2>1, <2>2 DEF Insert, Inserted
<1>9. CASE Reread(r)
  <2>1. db' = db
    BY <1>9 DEF Reread
  <2>2. CASE mem' = mem /\ \E row : Answer(r, row)
    <3>1. \E where : Goto(r, where)
      BY <2>2 DEF Answer
    <3>2. QED
      BY <1>4, <2>1, <2>2, <3>1
  <2>3. CASE AcquireLocally(r, at[r], mem[req[r].inst])
    BY <1>3, <2>1, <2>3
  <2>4. QED
    BY <1>9, <2>2, <2>3 DEF Reread
<1>10. CASE AcquireFails(r)
  <2>1. DbFaults /\ AcquireLocally(r, at[r], mem[req[r].inst])
    BY <1>10 DEF AcquireFails
  <2>2. QED
    BY <1>3, <2>1
<1>11. QED
  BY <1>5, <1>6, <1>7, <1>8, <1>9, <1>10

\* The steps that end a request which holds its key.
LEMMA EndKeeps ==
  ASSUME KeptInv, NEW r \in Requests, UNCHANGED <<phase, req>>,
         \/ \E s \in Results : Complete(r, s)
         \/ Release(r) \/ StoreResult(r) \/ StoreFails(r) \/ DeleteReservation(r)
  PROVE  ReservedForSubmission'
<1>1. /\ mem \in [Instances -> SUBSET Rows] /\ req[r].inst \in Instances
      /\ NoTable /\ StoresResult /\ Processing \notin Results
  BY IdempotencyAssumption DEF KeptInv, RouteInv, RouteTypeOK, TypeOK
<1>2. pc[r] # "crashed"
  BY DEF Complete, Release, StoreResult, StoreFails, DeleteReservation
<1>3. ASSUME NEW where \in Owning \ {"holding"}, Goto(r, where), UNCHANGED <<db, mem>>
      PROVE  ReservedForSubmission'
  <2>1. \A i \in Instances : Accounted(mem[i], r, where, req[r].inst = i)
    BY <1>3 DEF Accounted
  <2>2. Accounted(db, r, where, TRUE)
    BY <1>3 DEF Accounted
  <2>3. QED
    BY <1>2, <1>3, <2>1, <2>2, StepKeeps
\* The key's row, or the request's own, is gone from the Map, or is a result.
<1>4. ASSUME NEW where, Goto(r, where), NEW left,
             mem' = [mem EXCEPT ![req[r].inst] = left],
             \A row \in left : row.status = Processing =>
               row \in mem[req[r].inst] /\ ~OwnKey(r, row),
             ~DbFaults => \A row \in db' : row.status = Processing =>
               row \in db /\ ~OwnKey(r, row)
      PROVE  ReservedForSubmission'
  <2>1. \A i \in Instances : Accounted(mem[i], r, where, req[r].inst = i)
    BY <1>1, <1>4 DEF Accounted
  <2>2. ~DbFaults => Accounted(db, r, where, TRUE)
    BY <1>4 DEF Accounted
  <2>3. QED
    BY <1>2, <1>4, <2>1, <2>2, StepKeeps
<1>5. ASSUME NEW s \in Results, Complete(r, s)
      PROVE  ReservedForSubmission'
  <2>1. db' = db
    BY <1>5 DEF Complete
  <2>2. CASE Goto(r, "completing") /\ mem' = mem
    BY <1>3, <2>1, <2>2 DEF Owning
  <2>3. CASE ~Persistent
    <3> DEFINE own == [key |-> req[r].key, hash |-> req[r].hash, status |-> s,
                       expires |-> now + ResultTtl]
               left == Put(mem[req[r].inst], own)
    <3>1. mem' = [mem EXCEPT ![req[r].inst] = left] /\ Goto(r, "finished")
      BY <1>1, <1>5, <2>3 DEF Complete
    <3>2. \A row \in left : row.status = Processing =>
            row \in mem[req[r].inst] /\ ~OwnKey(r, row)
      BY <1>1, <1>5 DEF Put, OwnKey
    <3>3. db' = {}
      BY <1>1, <2>1, <2>3 DEF NoTable
    <3> HIDE DEF left
    <3>4. QED
      BY <1>4, <3>1, <3>2, <3>3
  <2>4. QED
    BY <1>5, <2>2, <2>3 DEF Complete
<1>6. CASE Release(r)
  <2>1. db' = db
    BY <1>6, Zenon DEF Release
  <2>2. CASE Goto(r, "releasing") /\ mem' = mem
    BY <1>3, <2>1, <2>2 DEF Owning
  <2>3. CASE ~Persistent /\ ReleaseLocally(r)
    <3> DEFINE left == {row \in mem[req[r].inst] : ~Releasable(r, row)}
    <3>1. mem' = [mem EXCEPT ![req[r].inst] = left] /\ Goto(r, "released")
      BY <1>1, <2>3 DEF ReleaseLocally
    <3>2. \A row \in left : row.status = Processing =>
            row \in mem[req[r].inst] /\ ~OwnKey(r, row)
      BY DEF Releasable
    <3>3. db' = {}
      BY <1>1, <2>1, <2>3 DEF NoTable
    <3> HIDE DEF left
    <3>4. QED
      BY <1>4, <3>1, <3>2, <3>3
  <2>4. QED
    BY <1>6, <2>2, <2>3, Zenon DEF Release
<1>7. CASE StoreResult(r)
  <2> DEFINE left == {row \in mem[req[r].inst] : row.key # req[r].key}
  <2>1. mem' = [mem EXCEPT ![req[r].inst] = left] /\ Goto(r, "finished")
    BY <1>1, <1>7 DEF StoreResult
  <2>2. \A row \in left : row.status = Processing =>
          row \in mem[req[r].inst] /\ ~OwnKey(r, row)
    BY DEF OwnKey
  <2>3. Outcome(r).status # Processing
    BY <1>1, <1>7 DEF StoreResult, StoresResult, Outcome
  <2>4. \A row \in db' : row.status = Processing => row \in db /\ ~OwnKey(r, row)
    BY <1>7, <2>3 DEF StoreResult, Updated
  <2> HIDE DEF left
  <2>5. QED
    BY <1>4, <2>1, <2>2, <2>4
<1>8. CASE StoreFails(r)
  <2> DEFINE left == Put(mem[req[r].inst], Outcome(r))
  <2>1. mem' = [mem EXCEPT ![req[r].inst] = left] /\ Goto(r, "finished") /\ DbFaults
    BY <1>1, <1>8 DEF StoreFails
  <2>2. \A row \in left : row.status = Processing =>
          row \in mem[req[r].inst] /\ ~OwnKey(r, row)
    BY <1>1, <1>8 DEF StoreFails, StoresResult, Put, Outcome, OwnKey
  <2> HIDE DEF left
  <2>3. QED
    BY <1>4, <2>1, <2>2
<1>9. CASE DeleteReservation(r)
  <2> DEFINE left == {row \in mem[req[r].inst] : ~Releasable(r, row)}
  <2>1. mem' = [mem EXCEPT ![req[r].inst] = left] /\ Goto(r, "released")
    BY <1>1, <1>9 DEF DeleteReservation, ReleaseLocally
  <2>2. \A row \in left : row.status = Processing =>
          row \in mem[req[r].inst] /\ ~OwnKey(r, row)
    BY DEF Releasable
  <2>3. ~DbFaults => \A row \in db' : row.status = Processing => row \in db /\ ~OwnKey(r, row)
    BY <1>9 DEF DeleteReservation, Releasable
  <2> HIDE DEF left
  <2>4. QED
    BY <1>4, <2>1, <2>2, <2>3
<1>10. QED
  BY <1>5, <1>6, <1>7, <1>8, <1>9

LEMMA KeptStep == KeptInv /\ [RouteNext]_routeVars => KeptInv'
<1> SUFFICES ASSUME KeptInv, [RouteNext]_routeVars PROVE KeptInv'
  OBVIOUS
<1>1. /\ TypeOK /\ RouteInv /\ NoTable /\ StoresResult
      /\ pc \in [Requests -> {"idle"} \cup Working \cup Ended]
      /\ phase \in [Requests -> Phases]
      /\ mem \in [Instances -> SUBSET Rows]
      /\ \A r \in Requests : req[r].inst \in Instances /\ req[r].hash \in Hashes
  BY DEF KeptInv, RouteInv, RouteTypeOK, TypeOK
<1>2. [Next]_vars /\ RouteInv'
  BY <1>1, RouteStep
<1>3. NoTable' /\ StoresResult'
  BY <1>1, <1>2, TableStep
<1>4. ASSUME NEW r \in Requests, Start(r) \/ StoreStep(r) \/ Release(r), UNCHANGED phase
      PROVE  ReservedForSubmission'
  <2>1. UNCHANGED req
    BY <1>4, CompletedKept
  <2>2. QED
    BY <1>4, <2>1, AcquireKeeps, EndKeeps DEF StoreStep
<1>5. ASSUME NEW r \in Requests, Reserve(r) \/ Refuse(r) \/ StoreWorks(r)
      PROVE  ReservedForSubmission'
  BY <1>4, <1>5, Zenon DEF Reserve, Refuse, StoreWorks
\* A request that holds its key goes on to hold it.
<1>6. ASSUME NEW r \in Requests, Simulated(r) \/ Executed(r)
      PROVE  ReservedForSubmission'
  <2>1. UNCHANGED vars /\ pc[r] = "holding"
    BY <1>6 DEF Simulated, Executed, Advance, Holding
  <2>2. \A s \in Requests : s # r => phase'[s] = phase[s]
    BY <1>1, <1>6 DEF Simulated, Executed, Advance
  <2>3. ASSUME NEW s \in Requests, NEW row, Keeps(s, row)
        PROVE  Keeps(s, row)'
    BY <2>1, <2>2, <2>3 DEF vars, Keeps, OwnKey, InDoubt
  <2>4. QED
    BY <2>1, <2>3 DEF vars, KeptInv, ReservedForSubmission, OwnKey
<1>7. ASSUME NEW r \in Requests, Ambiguous(r)
      PROVE  ReservedForSubmission'
  <2>1. /\ Goto(r, "abandoned") /\ UNCHANGED <<phase, req, db, mem>>
        /\ pc[r] = "holding" /\ InDoubt(r)
    BY <1>7 DEF Ambiguous, Abandon, Holding, InDoubt
  <2>2. \A i \in Instances : Accounted(mem[i], r, "abandoned", req[r].inst = i)
    BY <2>1 DEF Accounted
  <2>3. Accounted(db, r, "abandoned", TRUE)
    BY <2>1 DEF Accounted
  <2>4. QED
    BY <2>1, <2>2, <2>3, StepKeeps
<1>8. ASSUME NEW r \in Requests, Finish(r)
      PROVE  ReservedForSubmission'
  <2> DEFINE s == chain[req[r].hash]
  <2>1. s \in Results
    BY <1>1, <1>8, ExecuteAssumption DEF Finish, Holding, RouteInv, RouteTypeOK
  <2>2. Complete(r, s) /\ UNCHANGED phase
    BY <1>8 DEF Finish
  <2>3. UNCHANGED req
    BY <2>2 DEF Complete
  <2>4. QED
    BY <2>1, <2>2, <2>3, EndKeeps
<1>9. ASSUME NEW i \in Instances, RouteCrashes(i)
      PROVE  ReservedForSubmission'
  <2>1. /\ UNCHANGED <<phase, req, db>> /\ mem' = [mem EXCEPT ![i] = {}]
        /\ \A s \in Requests : \/ pc'[s] = pc[s]
                               \/ req[s].inst = i /\ pc'[s] = "crashed"
    BY <1>9 DEF RouteCrashes, Crash
  <2>2. ASSUME NEW j \in Instances, NEW row \in mem'[j], row.status = Processing
        PROVE  \E s \in Requests : req'[s].inst = j /\ Keeps(s, row)'
    <3>1. j # i /\ row \in mem[j]
      BY <1>1, <2>1, <2>2
    <3>2. PICK s \in Requests : req[s].inst = j /\ Keeps(s, row)
      BY <2>2, <3>1 DEF KeptInv, ReservedForSubmission
    <3>3. QED
      BY <2>1, <3>1, <3>2 DEF Keeps, OwnKey, InDoubt
  <2>3. ASSUME ~DbFaults, NEW row \in db', row.status = Processing
        PROVE  \E s \in Requests : Keeps(s, row)' \/ (OwnKey(s, row)' /\ pc'[s] = "crashed")
    <3>1. PICK s \in Requests : Keeps(s, row) \/ (OwnKey(s, row) /\ pc[s] = "crashed")
      BY <2>1, <2>3 DEF KeptInv, ReservedForSubmission
    <3>2. QED
      BY <2>1, <3>1 DEF Keeps, OwnKey, InDoubt
  <2>4. QED
    BY <2>2, <2>3 DEF ReservedForSubmission
<1>10. ASSUME Elapse \/ UNCHANGED routeVars
       PROVE  ReservedForSubmission'
  <2>1. UNCHANGED <<phase, req, mem, pc>> /\ db' \subseteq db
    BY <1>10 DEF Elapse, Sweep, Tick, routeVars, vars
  <2>2. \A s \in Requests : \A row : Keeps(s, row) => Keeps(s, row)'
    BY <2>1 DEF Keeps, OwnKey, InDoubt
  <2>3. QED
    BY <2>1, <2>2 DEF KeptInv, ReservedForSubmission, OwnKey
<1>11. ReservedForSubmission'
  BY <1>5, <1>6, <1>7, <1>8, <1>9, <1>10 DEF RouteNext
<1>12. QED
  BY <1>2, <1>3, <1>11 DEF KeptInv

\* A client whose request was refused before submission, by the session, the
\* quote, the policy, the signature or the simulation, may send the same key and
\* bytes again: in any process, with any faults and crashes, the Map has a
\* reservation only of a request that still runs or that may have submitted, and
\* so has the table while its calls do not fail, crashes aside.
THEOREM RefusedIsFreed == RouteSpec => []ReservedForSubmission
<1>1. RouteInit => KeptInv
  <2> SUFFICES ASSUME RouteInit PROVE KeptInv
    OBVIOUS
  <2>1. Init /\ RouteInv
    BY RouteStart
  <2>2. QED
    BY <2>1 DEF Init, KeptInv, NoTable, StoresResult, ReservedForSubmission, InCall
<1>2. KeptInv => ReservedForSubmission
  BY DEF KeptInv
<1>3. QED
  BY <1>1, <1>2, KeptStep, PTL DEF RouteSpec
============================================================================
