-------------------------- MODULE IdempotencyProofs --------------------------
(***************************************************************************)
(* What the idempotency store guarantees for every number of requests,     *)
(* instances and keys, every time to live, and without a bound on time     *)
(* other than MaxTime.                                                     *)
(***************************************************************************)
EXTENDS Idempotency, TLAPS

----------------------------------------------------------------------------
(* Type correctness *)

LEMMA ReservationType ==
  ASSUME NEW r \in Requests, NEW t \in Int, TypeOK
  PROVE  Reservation(r, t) \in Rows
BY IdempotencyAssumption DEF Reservation, Rows, TypeOK, Statuses

LEMMA OutcomeType ==
  ASSUME NEW r \in Requests, TypeOK
  PROVE  Outcome(r) \in Rows
BY DEF Outcome, Rows, TypeOK

LEMMA PutType ==
  ASSUME NEW table \in SUBSET Rows, NEW row \in Rows
  PROVE  Put(table, row) \in SUBSET Rows
BY DEF Put

LEMMA AnswerType ==
  ASSUME NEW r \in Requests, NEW row \in Rows, TypeOK, Answer(r, row)
  PROVE  /\ pc' \in [Requests -> {"idle"} \cup Working \cup Ended]
         /\ result' \in [Requests -> Statuses]
BY DEF Answer, Goto, TypeOK, Ended, Working, Rows

LEMMA AcquireLocallyType ==
  ASSUME NEW r \in Requests, NEW t \in Int, NEW table \in SUBSET Rows,
         TypeOK, AcquireLocally(r, t, table)
  PROVE  /\ mem' \in [Instances -> SUBSET Rows]
         /\ pc' \in [Requests -> {"idle"} \cup Working \cup Ended]
         /\ result' \in [Requests -> Statuses]
         /\ via' \in [Requests -> {"none", "db", "map"}]
<1> DEFINE i == req[r].inst
           live == RowsOf(Live(table, t), req[r].key)
<1>1. i \in Instances
  BY DEF TypeOK
<1>2. CASE /\ live = {}
           /\ mem' = [mem EXCEPT ![i] = Put(table, Reservation(r, t))]
           /\ Goto(r, "holding")
           /\ via' = [via EXCEPT ![r] = "map"]
           /\ UNCHANGED result
  <2>1. Put(table, Reservation(r, t)) \in SUBSET Rows
    BY ReservationType, PutType
  <2>2. QED
    BY <1>1, <1>2, <2>1 DEF TypeOK, Goto, Working
<1>3. CASE /\ mem' = [mem EXCEPT ![i] = table]
           /\ \E row \in live : Answer(r, row)
           /\ UNCHANGED via
  <2>1. PICK row \in live : Answer(r, row)
    BY <1>3
  <2>2. row \in Rows
    BY <2>1 DEF RowsOf, Live
  <2>3. QED
    BY <1>1, <1>3, <2>1, <2>2, AnswerType DEF TypeOK
<1>4. QED
  BY <1>2, <1>3 DEF AcquireLocally

LEMMA InsertedType ==
  ASSUME NEW r \in Requests, TypeOK
  PROVE  Inserted(r) \in SUBSET Rows /\ Reaped(r) \in SUBSET Rows
BY ReservationType DEF Inserted, Reaped, TypeOK

LEMMA UpdatedType ==
  ASSUME NEW r \in Requests, TypeOK
  PROVE  Updated(r, db) \in SUBSET Rows
BY OutcomeType DEF Updated, TypeOK

LEMMA TypeStep == TypeOK /\ [Next]_vars => TypeOK'
<1> SUFFICES ASSUME TypeOK, [Next]_vars
             PROVE  TypeOK'
  OBVIOUS
<1> USE IdempotencyAssumption
<1>1. ASSUME NEW r \in Requests, Start(r)
      PROVE  TypeOK'
  <2> DEFINE i == req[r].inst
             due == now - prunedAt[i] >= PruneGap
             table == IF due THEN Live(mem[i], now) ELSE mem[i]
  <2>1. i \in Instances /\ table \in SUBSET Rows /\ now \in Int
    BY DEF TypeOK, Live
  <2>2. /\ at' \in [Requests -> Nat]
        /\ prunedAt' \in [Instances -> Int]
        /\ UNCHANGED <<now, db, req, expiresAt, completed>>
    BY <1>1, <2>1 DEF Start, TypeOK
  <2>3. CASE /\ mem' = [mem EXCEPT ![i] = table]
             /\ Goto(r, "find")
             /\ UNCHANGED <<result, via>>
    BY <2>1, <2>2, <2>3 DEF TypeOK, Goto, Working, InCall
  <2>4. CASE AcquireLocally(r, now, table)
    <3>1. /\ mem' \in [Instances -> SUBSET Rows]
          /\ pc' \in [Requests -> {"idle"} \cup Working \cup Ended]
          /\ result' \in [Requests -> Statuses]
          /\ via' \in [Requests -> {"none", "db", "map"}]
      BY <2>1, <2>4, AcquireLocallyType
    <3>2. QED
      BY <2>2, <3>1 DEF TypeOK
  <2>5. QED
    BY <1>1, <2>3, <2>4 DEF Start
<1>2. ASSUME NEW r \in Requests, Find(r)
      PROVE  TypeOK'
  <2>1. UNCHANGED <<now, db, mem, prunedAt, req, at, expiresAt, via, completed>>
    BY <1>2 DEF Find
  <2>2. /\ pc' \in [Requests -> {"idle"} \cup Working \cup Ended]
        /\ result' \in [Requests -> Statuses]
    <3>1. CASE \E row \in Live(RowsOf(db, req[r].key), at[r]) : Answer(r, row)
      BY <3>1, AnswerType DEF Live, RowsOf, TypeOK
    <3>2. CASE (Goto(r, "insert") \/ Goto(r, "reap")) /\ UNCHANGED result
      BY <3>2 DEF Goto, TypeOK, Working, InCall
    <3>3. QED
      BY <1>2, <3>1, <3>2 DEF Find
  <2>3. QED
    BY <2>1, <2>2 DEF TypeOK
<1>3. ASSUME NEW r \in Requests, Reap(r)
      PROVE  TypeOK'
  BY <1>3, InsertedType DEF Reap, TypeOK, Goto, Working, InCall
<1>4. ASSUME NEW r \in Requests, Insert(r)
      PROVE  TypeOK'
  <2>1. db' \in SUBSET Rows
    BY <1>4, InsertedType DEF Insert
  <2>2. /\ pc' \in [Requests -> {"idle"} \cup Working \cup Ended]
        /\ via' \in [Requests -> {"none", "db", "map"}]
    BY <1>4 DEF Insert, TypeOK, Goto, Working, InCall
  <2>3. QED
    BY <1>4, <2>1, <2>2 DEF Insert, TypeOK
<1>5. ASSUME NEW r \in Requests, Reread(r)
      PROVE  TypeOK'
  <2>1. UNCHANGED <<now, db, prunedAt, req, at, expiresAt, completed>>
    BY <1>5 DEF Reread
  <2>2. CASE /\ \E row \in RowsOf(db, req[r].key) : Answer(r, row)
             /\ UNCHANGED <<mem, via>>
    BY <2>1, <2>2, AnswerType DEF RowsOf, TypeOK
  <2>3. CASE AcquireLocally(r, at[r], mem[req[r].inst])
    <3>1. at[r] \in Int /\ mem[req[r].inst] \in SUBSET Rows
      BY DEF TypeOK
    <3>2. QED
      BY <2>1, <2>3, <3>1, AcquireLocallyType DEF TypeOK
  <2>4. QED
    BY <1>5, <2>2, <2>3 DEF Reread
<1>6. ASSUME NEW r \in Requests, AcquireFails(r)
      PROVE  TypeOK'
  <2>1. at[r] \in Int /\ mem[req[r].inst] \in SUBSET Rows
    BY DEF TypeOK
  <2>2. db' \in SUBSET Rows
    BY <1>6, InsertedType DEF AcquireFails, TypeOK
  <2>3. QED
    BY <1>6, <2>1, <2>2, AcquireLocallyType DEF AcquireFails, TypeOK
<1>7. ASSUME NEW r \in Requests, NEW s \in Results, Complete(r, s)
      PROVE  TypeOK'
  <2> DEFINE own == [key |-> req[r].key, hash |-> req[r].hash, status |-> s,
                     expires |-> now + ResultTtl]
  <2>1. own \in Rows /\ req[r].inst \in Instances
    BY DEF TypeOK, Rows, Statuses
  <2>2. mem' \in [Instances -> SUBSET Rows]
    BY <1>7, <2>1, PutType DEF Complete, TypeOK
  <2>3. pc' \in [Requests -> {"idle"} \cup Working \cup Ended]
    BY <1>7 DEF Complete, TypeOK, Goto, Working, Ended
  <2>4. /\ result' \in [Requests -> Statuses]
        /\ expiresAt' \in [Requests -> Nat]
        /\ completed' \subseteq Keys \X Hashes \X Results
    BY <1>7 DEF Complete, TypeOK, Statuses
  <2>5. QED
    BY <1>7, <2>2, <2>3, <2>4 DEF Complete, TypeOK
<1>8. ASSUME NEW r \in Requests, StoreResult(r)
      PROVE  TypeOK'
  BY <1>8, UpdatedType DEF StoreResult, TypeOK, Goto, Working, Ended
<1>9. ASSUME NEW r \in Requests, StoreFails(r)
      PROVE  TypeOK'
  <2>1. db' \in SUBSET Rows
    BY <1>9, UpdatedType DEF StoreFails, TypeOK
  <2>2. mem' \in [Instances -> SUBSET Rows]
    BY <1>9, OutcomeType, PutType DEF StoreFails, TypeOK
  <2>3. QED
    BY <1>9, <2>1, <2>2 DEF StoreFails, TypeOK, Goto, Ended
<1>10. ASSUME NEW r \in Requests, Release(r)
       PROVE  TypeOK'
  <2>1. /\ \/ Goto(r, "releasing") /\ UNCHANGED mem
           \/ ReleaseLocally(r)
        /\ UNCHANGED <<now, db, prunedAt, req, at, expiresAt, result, via,
                       completed>>
    BY <1>10, Zenon DEF Release
  <2>2. mem' \in [Instances -> SUBSET Rows]
    BY <2>1 DEF ReleaseLocally, TypeOK
  <2>3. pc' \in [Requests -> {"idle"} \cup Working \cup Ended]
    BY <2>1 DEF ReleaseLocally, TypeOK, Goto, Working, Ended
  <2>4. QED
    BY <2>1, <2>2, <2>3 DEF TypeOK
<1>11. ASSUME NEW r \in Requests, DeleteReservation(r)
       PROVE  TypeOK'
  BY <1>11 DEF DeleteReservation, ReleaseLocally, TypeOK, Goto, Ended
<1>12. ASSUME NEW r \in Requests, Abandon(r)
       PROVE  TypeOK'
  BY <1>12 DEF Abandon, TypeOK, Goto, Ended
<1>13. ASSUME NEW i \in Instances, Crash(i)
       PROVE  TypeOK'
  BY <1>13 DEF Crash, TypeOK, Ended
<1>14. CASE Sweep
  BY <1>14 DEF Sweep, TypeOK
<1>15. CASE Tick
  BY <1>15 DEF Tick, TypeOK
<1>16. CASE UNCHANGED vars
  BY <1>16 DEF vars, TypeOK
<1>17. QED
  BY <1>1, <1>2, <1>3, <1>4, <1>5, <1>6, <1>7, <1>8, <1>9, <1>10, <1>11,
     <1>12, <1>13, <1>14, <1>15, <1>16 DEF Next, StoreStep

\* Every step of the store keeps every variable in its type.
THEOREM TypeCorrect == Spec => []TypeOK
<1>1. Init => TypeOK
  BY IdempotencyAssumption DEF Init, TypeOK, Statuses
<1>2. QED
  BY <1>1, TypeStep, PTL DEF Spec

----------------------------------------------------------------------------
(* A replay is of the caller's own key and body.                           *)
(*                                                                         *)
(* ReplayTruth speaks of answers; what makes them true is that every row,  *)
(* in the table and in every Map, that carries a result was completed with *)
(* that result under the row's own key and hash, and that a request about  *)
(* to store a result has completed with it.                                *)

Vouched(row) ==
  row.status # Processing => <<row.key, row.hash, row.status>> \in completed

TruthInv ==
  /\ \A row \in db : Vouched(row)
  /\ \A i \in Instances : \A row \in mem[i] : Vouched(row)
  /\ \A r \in Requests :
       pc[r] \in {"completing", "finished"} =>
         <<req[r].key, req[r].hash, result[r]>> \in completed
  /\ ReplayTruth

LEMMA TruthAnswer ==
  ASSUME NEW r \in Requests, NEW row \in Rows, TypeOK, TruthInv,
         row.key = req[r].key, Vouched(row), Answer(r, row),
         UNCHANGED <<req, completed>>
  PROVE  \A q \in Requests :
           /\ pc'[q] \in {"completing", "finished"} =>
                <<req'[q].key, req'[q].hash, result'[q]>> \in completed'
           /\ pc'[q] = "replayed" =>
                <<req'[q].key, req'[q].hash, result'[q]>> \in completed'
BY DEF TypeOK, TruthInv, ReplayTruth, Vouched, Answer, Goto

LEMMA TruthLocal ==
  ASSUME NEW r \in Requests, NEW t \in Int, NEW table \in SUBSET Rows,
         TypeOK, TruthInv, AcquireLocally(r, t, table),
         \A row \in table : Vouched(row),
         UNCHANGED <<req, completed>>
  PROVE  /\ \A i \in Instances : \A row \in mem'[i] : Vouched(row)'
         /\ \A q \in Requests :
              /\ pc'[q] \in {"completing", "finished"} =>
                   <<req'[q].key, req'[q].hash, result'[q]>> \in completed'
              /\ pc'[q] = "replayed" =>
                   <<req'[q].key, req'[q].hash, result'[q]>> \in completed'
<1> DEFINE i == req[r].inst
           live == RowsOf(Live(table, t), req[r].key)
<1>1. i \in Instances /\ mem \in [Instances -> SUBSET Rows]
  BY DEF TypeOK
<1>2. CASE /\ mem' = [mem EXCEPT ![i] = Put(table, Reservation(r, t))]
           /\ Goto(r, "holding")
           /\ UNCHANGED result
  <2>1. \A row \in Put(table, Reservation(r, t)) : Vouched(row)
    BY DEF Put, Reservation, Vouched
  <2>2. \A j \in Instances : \A row \in mem'[j] : Vouched(row)'
    BY <1>1, <1>2, <2>1 DEF TruthInv, Vouched
  <2>3. QED
    BY <1>2, <2>2 DEF TypeOK, TruthInv, ReplayTruth, Goto
<1>3. CASE /\ mem' = [mem EXCEPT ![i] = table]
           /\ \E row \in live : Answer(r, row)
  <2>1. PICK row \in live : Answer(r, row)
    BY <1>3
  <2>2. row \in Rows /\ row.key = req[r].key /\ Vouched(row)
    BY <2>1 DEF RowsOf, Live
  <2>3. \A j \in Instances : \A x \in mem'[j] : Vouched(x)'
    BY <1>1, <1>3 DEF TruthInv, Vouched
  <2>4. QED
    BY <2>1, <2>2, <2>3, TruthAnswer
<1>4. QED
  BY <1>2, <1>3 DEF AcquireLocally

LEMMA TruthStep == TypeOK /\ TruthInv /\ [Next]_vars => TruthInv'
<1> SUFFICES ASSUME TypeOK, TruthInv, [Next]_vars
             PROVE  TruthInv'
  OBVIOUS
<1> USE IdempotencyAssumption
<1>1. ASSUME NEW r \in Requests, Start(r)
      PROVE  TruthInv'
  <2> DEFINE i == req[r].inst
             due == now - prunedAt[i] >= PruneGap
             table == IF due THEN Live(mem[i], now) ELSE mem[i]
  <2>1. /\ i \in Instances /\ table \in SUBSET Rows /\ now \in Int
        /\ \A row \in table : Vouched(row)
    BY DEF TypeOK, Live, TruthInv
  <2>2. UNCHANGED <<db, req, completed>>
    BY <1>1 DEF Start
  <2>3. CASE /\ mem' = [mem EXCEPT ![i] = table]
             /\ Goto(r, "find")
             /\ UNCHANGED <<result, via>>
    <3>1. \A j \in Instances : \A row \in mem'[j] : Vouched(row)'
      BY <2>1, <2>2, <2>3 DEF TypeOK, TruthInv, Vouched
    <3>2. QED
      BY <2>2, <2>3, <3>1 DEF TypeOK, TruthInv, ReplayTruth, Vouched, Goto
  <2>4. CASE AcquireLocally(r, now, table)
    BY <2>1, <2>2, <2>4, TruthLocal DEF TruthInv, ReplayTruth, Vouched
  <2>5. QED
    BY <1>1, <2>3, <2>4 DEF Start
<1>2. ASSUME NEW r \in Requests, Find(r)
      PROVE  TruthInv'
  <2>1. UNCHANGED <<db, mem, req, completed>>
    BY <1>2 DEF Find
  <2>2. CASE \E row \in Live(RowsOf(db, req[r].key), at[r]) : Answer(r, row)
    <3>1. PICK row \in Live(RowsOf(db, req[r].key), at[r]) : Answer(r, row)
      BY <2>2
    <3>2. row \in Rows /\ row.key = req[r].key /\ Vouched(row)
      BY <3>1 DEF Live, RowsOf, TypeOK, TruthInv
    <3>3. QED
      BY <2>1, <3>1, <3>2, TruthAnswer DEF TruthInv, ReplayTruth, Vouched
  <2>3. CASE (Goto(r, "insert") \/ Goto(r, "reap")) /\ UNCHANGED result
    BY <2>1, <2>3 DEF TypeOK, TruthInv, ReplayTruth, Vouched, Goto
  <2>4. QED
    BY <1>2, <2>2, <2>3 DEF Find
<1>3. ASSUME NEW r \in Requests, Reap(r)
      PROVE  TruthInv'
  BY <1>3 DEF Reap, Reaped, TypeOK, TruthInv, ReplayTruth, Vouched, Goto
<1>4. ASSUME NEW r \in Requests
      PROVE  \A row \in Inserted(r) \cup Reaped(r) : Vouched(row)
  BY <1>4 DEF Inserted, Reaped, Reservation, TruthInv, Vouched
<1>5. ASSUME NEW r \in Requests, Insert(r)
      PROVE  TruthInv'
  <2>1. UNCHANGED <<mem, req, result, completed>> /\ db' = Inserted(r)
    BY <1>5 DEF Insert
  <2>2. Goto(r, "holding") \/ Goto(r, "reread")
    BY <1>5 DEF Insert
  <2>3. QED
    BY <1>4, <2>1, <2>2 DEF TypeOK, TruthInv, ReplayTruth, Vouched, Goto
<1>6. ASSUME NEW r \in Requests, Reread(r)
      PROVE  TruthInv'
  <2>1. UNCHANGED <<db, req, completed>>
    BY <1>6 DEF Reread
  <2>2. CASE /\ \E row \in RowsOf(db, req[r].key) : Answer(r, row)
             /\ UNCHANGED mem
    <3>1. PICK row \in RowsOf(db, req[r].key) : Answer(r, row)
      BY <2>2
    <3>2. row \in Rows /\ row.key = req[r].key /\ Vouched(row)
      BY <3>1 DEF RowsOf, TypeOK, TruthInv
    <3>3. QED
      BY <2>1, <2>2, <3>1, <3>2, TruthAnswer DEF TruthInv, ReplayTruth, Vouched
  <2>3. CASE AcquireLocally(r, at[r], mem[req[r].inst])
    <3>1. /\ at[r] \in Int /\ mem[req[r].inst] \in SUBSET Rows
          /\ \A row \in mem[req[r].inst] : Vouched(row)
      BY DEF TypeOK, TruthInv
    <3>2. QED
      BY <2>1, <2>3, <3>1, TruthLocal DEF TruthInv, ReplayTruth, Vouched
  <2>4. QED
    BY <1>6, <2>2, <2>3 DEF Reread
<1>7. ASSUME NEW r \in Requests, AcquireFails(r)
      PROVE  TruthInv'
  <2>1. UNCHANGED <<req, completed>>
    BY <1>7 DEF AcquireFails
  <2>2. \A row \in db' : Vouched(row)
    BY <1>4, <1>7 DEF AcquireFails, TruthInv
  <2>3. /\ at[r] \in Int /\ mem[req[r].inst] \in SUBSET Rows
        /\ \A row \in mem[req[r].inst] : Vouched(row)
    BY DEF TypeOK, TruthInv
  <2>4. AcquireLocally(r, at[r], mem[req[r].inst])
    BY <1>7 DEF AcquireFails
  <2>5. QED
    BY <2>1, <2>2, <2>3, <2>4, TruthLocal DEF TruthInv, ReplayTruth, Vouched
<1>8. ASSUME NEW r \in Requests, NEW s \in Results, Complete(r, s)
      PROVE  TruthInv'
  <2> DEFINE own == [key |-> req[r].key, hash |-> req[r].hash, status |-> s,
                     expires |-> now + ResultTtl]
  <2>1. /\ UNCHANGED <<db, req>>
        /\ result' = [result EXCEPT ![r] = s]
        /\ completed' = completed \cup {<<req[r].key, req[r].hash, s>>}
        /\ pc[r] = "holding"
    BY <1>8 DEF Complete
  <2>2. \/ Goto(r, "completing") /\ UNCHANGED mem
        \/ /\ mem' = [mem EXCEPT ![req[r].inst] = Put(mem[req[r].inst], own)]
           /\ Goto(r, "finished")
    BY <1>8 DEF Complete
  <2>3. \A row : Vouched(row) => Vouched(row)'
    BY <2>1 DEF Vouched
  <2>4. \A i \in Instances : mem'[i] \subseteq mem[i] \cup {own}
    BY <2>2 DEF TypeOK, Put
  <2>5. ASSUME NEW i \in Instances, NEW row \in mem'[i]
        PROVE  Vouched(row)'
    <3>1. CASE row = own
      BY <2>1, <3>1 DEF Vouched
    <3>2. CASE row \in mem[i]
      <4>1. Vouched(row)
        BY <3>2 DEF TruthInv
      <4>2. QED
        BY <2>3, <4>1
    <3>3. QED
      BY <2>4, <3>1, <3>2
  <2>6. \A row \in db' : Vouched(row)'
    BY <2>1, <2>3 DEF TruthInv
  <2>7. ASSUME NEW q \in Requests, pc'[q] \in {"completing", "finished", "replayed"}
        PROVE  <<req'[q].key, req'[q].hash, result'[q]>> \in completed'
    <3>1. CASE q = r
      BY <2>1, <3>1 DEF TypeOK
    <3>2. CASE q # r
      <4>1. pc'[q] = pc[q]
        BY <2>2, <3>2 DEF TypeOK, Goto
      <4>2. QED
        BY <2>1, <2>7, <3>2, <4>1 DEF TypeOK, TruthInv, ReplayTruth
    <3>3. QED
      BY <3>1, <3>2
  <2>8. QED
    BY <2>5, <2>6, <2>7 DEF TruthInv, ReplayTruth
<1>9. ASSUME NEW r \in Requests, StoreResult(r)
      PROVE  TruthInv'
  <2>1. \A row \in Updated(r, db) : Vouched(row)
    BY <1>9 DEF StoreResult, Updated, Outcome, TruthInv, Vouched
  <2>2. QED
    BY <1>9, <2>1 DEF StoreResult, TypeOK, TruthInv, ReplayTruth, Vouched, Goto
<1>10. ASSUME NEW r \in Requests, StoreFails(r)
       PROVE  TruthInv'
  <2>1. \A row \in Updated(r, db) \cup {Outcome(r)} : Vouched(row)
    BY <1>10 DEF StoreFails, Updated, Outcome, TruthInv, Vouched
  <2>2. /\ \A row \in db' : Vouched(row)
        /\ \A i \in Instances : \A row \in mem'[i] : Vouched(row)
    BY <1>10, <2>1 DEF StoreFails, Put, TypeOK, TruthInv
  <2>3. QED
    BY <1>10, <2>2 DEF StoreFails, TypeOK, TruthInv, ReplayTruth, Vouched, Goto
<1>11. ASSUME NEW r \in Requests, Release(r)
       PROVE  TruthInv'
  <2>1. /\ \/ Goto(r, "releasing") /\ UNCHANGED mem
           \/ ReleaseLocally(r)
        /\ UNCHANGED <<db, req, result, completed>>
    BY <1>11, Zenon DEF Release
  <2>2. \A i \in Instances : mem'[i] \subseteq mem[i]
    BY <2>1 DEF ReleaseLocally, TypeOK
  <2>3. Goto(r, "releasing") \/ Goto(r, "released")
    BY <2>1 DEF ReleaseLocally
  <2>4. QED
    BY <2>1, <2>2, <2>3 DEF TypeOK, TruthInv, ReplayTruth, Vouched, Goto
<1>12. ASSUME NEW r \in Requests, DeleteReservation(r)
       PROVE  TruthInv'
  BY <1>12 DEF DeleteReservation, ReleaseLocally, TypeOK, TruthInv, ReplayTruth,
               Vouched, Goto
<1>13. ASSUME NEW r \in Requests, Abandon(r)
       PROVE  TruthInv'
  BY <1>13 DEF Abandon, TypeOK, TruthInv, ReplayTruth, Vouched, Goto
<1>14. ASSUME NEW i \in Instances, Crash(i)
       PROVE  TruthInv'
  BY <1>14 DEF Crash, TypeOK, TruthInv, ReplayTruth, Vouched
<1>15. CASE Sweep
  BY <1>15 DEF Sweep, TypeOK, TruthInv, ReplayTruth, Vouched
<1>16. CASE Tick
  BY <1>16 DEF Tick, TypeOK, TruthInv, ReplayTruth, Vouched
<1>17. CASE UNCHANGED vars
  BY <1>17 DEF vars, TruthInv, ReplayTruth, Vouched
<1>18. QED
  BY <1>1, <1>2, <1>3, <1>5, <1>6, <1>7, <1>8, <1>9, <1>10, <1>11, <1>12,
     <1>13, <1>14, <1>15, <1>16, <1>17 DEF Next, StoreStep

\* No request is ever replayed a response stored under another key or for
\* another body: the hash in updateMany's where clause and the hash compared
\* before a replay are enough, although a completion may land on a row that
\* another request created.
THEOREM ReplaysAreTrue == Spec => []ReplayTruth
<1>1. Init => TruthInv
  BY DEF Init, TruthInv, ReplayTruth
<1>2. TruthInv => ReplayTruth
  BY DEF TruthInv
<1>3. QED
  BY <1>1, <1>2, TruthStep, TypeCorrect, PTL DEF Spec

----------------------------------------------------------------------------
(* The primary key is a lock.                                              *)
(*                                                                         *)
(* A request that got its reservation from the table and has not outlived  *)
(* it has a row there which expires no sooner than the reservation does.   *)
(* The row survives the deletion of expired rows and the completion of any *)
(* other request of the same key, so that no second create can succeed.    *)

Covered(k, e) == \E row \in db : row.key = k /\ e <= row.expires

LockInv ==
  /\ \A r \in Requests : at[r] <= now
  /\ \A r \in Requests : pc[r] = "completing" => now + LockTtl <= expiresAt[r]
  /\ \A r \in Requests : pc[r] # "releasing"
  /\ \A r \in Requests : pc[r] = "idle" => via[r] = "none"
  /\ \A r \in Requests :
       via[r] = "db" /\ LockLive(r) => Covered(req[r].key, at[r] + LockTtl)
  /\ DbExclusive

\* A request that holds its key by the table did so before the step, or has
\* just created the row.
LEMMA HoldersKept ==
  ASSUME TypeOK, [Next]_vars, NEW r \in Requests,
         pc'[r] = "holding", via'[r] = "db"
  PROVE  \/ pc[r] = "holding" /\ via[r] = "db" /\ at'[r] = at[r]
         \/ Insert(r) /\ RowsOf(db, req[r].key) = {} /\ at'[r] = at[r]
<1> DEFINE Same == pc[r] = "holding" /\ via[r] = "db" /\ at'[r] = at[r]
<1>1. ASSUME NEW q \in Requests, NEW row, Answer(q, row), UNCHANGED via,
             at' = at \/ q # r => at'[r] = at[r]
      PROVE  q # r /\ (at'[r] = at[r] => Same)
  BY <1>1 DEF Answer, Goto, TypeOK
<1>2. ASSUME NEW q \in Requests, NEW t, NEW table, AcquireLocally(q, t, table)
      PROVE  q # r /\ (at'[r] = at[r] => Same)
  BY <1>2 DEF AcquireLocally, Answer, Goto, TypeOK
<1>3. ASSUME NEW q \in Requests, Start(q)
      PROVE  Same
  <2>1. q # r => at'[r] = at[r]
    BY <1>3 DEF Start, TypeOK
  <2>2. CASE Goto(q, "find") /\ UNCHANGED <<result, via>>
    BY <2>1, <2>2 DEF Goto, TypeOK
  <2>3. CASE \E t, table : AcquireLocally(q, t, table)
    BY <1>2, <2>1, <2>3
  <2>4. QED
    BY <1>3, <2>2, <2>3 DEF Start
<1>4. ASSUME NEW q \in Requests, Find(q)
      PROVE  Same
  BY <1>4 DEF Find, Answer, Goto, TypeOK
<1>5. ASSUME NEW q \in Requests, Reap(q)
      PROVE  Same
  BY <1>5 DEF Reap, Goto, TypeOK
<1>6. ASSUME NEW q \in Requests, Insert(q)
      PROVE  Same \/ (Insert(r) /\ RowsOf(db, req[r].key) = {} /\ at'[r] = at[r])
  BY <1>6 DEF Insert, Goto, TypeOK
<1>7. ASSUME NEW q \in Requests, Reread(q)
      PROVE  Same
  <2>1. at' = at
    BY <1>7 DEF Reread
  <2>2. CASE (\E row \in RowsOf(db, req[q].key) : Answer(q, row)) /\ UNCHANGED via
    BY <2>1, <2>2 DEF Answer, Goto, TypeOK
  <2>3. CASE AcquireLocally(q, at[q], mem[req[q].inst])
    BY <1>2, <2>1, <2>3
  <2>4. QED
    BY <1>7, <2>2, <2>3 DEF Reread
<1>8. ASSUME NEW q \in Requests, AcquireFails(q)
      PROVE  Same
  BY <1>2, <1>8 DEF AcquireFails
<1>9. ASSUME NEW q \in Requests, NEW s \in Results, Complete(q, s)
      PROVE  Same
  BY <1>9 DEF Complete, Goto, TypeOK
<1>10. ASSUME NEW q \in Requests, StoreResult(q) \/ StoreFails(q)
       PROVE  Same
  BY <1>10 DEF StoreResult, StoreFails, Goto, TypeOK
<1>11. ASSUME NEW q \in Requests, Release(q)
       PROVE  Same
  <2>1. (Goto(q, "releasing") \/ Goto(q, "released")) /\ UNCHANGED <<at, via>>
    BY <1>11, Zenon DEF Release, ReleaseLocally
  <2>2. QED
    BY <2>1 DEF Goto, TypeOK
<1>12. ASSUME NEW q \in Requests, DeleteReservation(q) \/ Abandon(q)
       PROVE  Same
  BY <1>12 DEF DeleteReservation, ReleaseLocally, Abandon, Goto, TypeOK
<1>13. ASSUME NEW i \in Instances, Crash(i)
       PROVE  Same
  BY <1>13 DEF Crash
<1>14. CASE Sweep \/ Tick \/ UNCHANGED vars
  BY <1>14 DEF Sweep, Tick, vars
<1>15. QED
  BY <1>3, <1>4, <1>5, <1>6, <1>7, <1>8, <1>9, <1>10, <1>11, <1>12, <1>13,
     <1>14 DEF Next, StoreStep

\* A request that owes its reservation to the table did so before the step,
\* and its clock is the one it had, or it has just created the row.
LEMMA TableKept ==
  ASSUME TypeOK, LockInv, [Next]_vars, NEW r \in Requests
  PROVE  /\ via'[r] = "db" =>
              \/ via[r] = "db" /\ at'[r] = at[r]
              \/ Insert(r) /\ RowsOf(db, req[r].key) = {} /\ at'[r] = at[r]
         /\ pc'[r] = "idle" => via'[r] = "none"
<1> DEFINE Same == /\ via'[r] = "db" => via[r] = "db" /\ at'[r] = at[r]
                   /\ pc'[r] = "idle" => via'[r] = "none"
<1>1. ASSUME NEW q \in Requests, NEW t, NEW table, AcquireLocally(q, t, table),
             q # r => at'[r] = at[r], pc[q] = "idle" \/ at' = at
      PROVE  Same
  BY <1>1 DEF AcquireLocally, Answer, Goto, TypeOK, LockInv
<1>2. ASSUME NEW q \in Requests, Start(q)
      PROVE  Same
  <2>1. (q # r => at'[r] = at[r]) /\ pc[q] = "idle"
    BY <1>2 DEF Start, TypeOK
  <2>2. CASE Goto(q, "find") /\ UNCHANGED <<result, via>>
    BY <2>1, <2>2 DEF Goto, TypeOK, LockInv
  <2>3. CASE \E t, table : AcquireLocally(q, t, table)
    BY <1>1, <2>1, <2>3
  <2>4. QED
    BY <1>2, <2>2, <2>3 DEF Start
<1>3. ASSUME NEW q \in Requests, Find(q) \/ Reap(q)
      PROVE  Same
  BY <1>3 DEF Find, Reap, Answer, Goto, TypeOK, LockInv
<1>4. ASSUME NEW q \in Requests, Insert(q)
      PROVE  \/ Same
             \/ /\ Insert(r) /\ RowsOf(db, req[r].key) = {} /\ at'[r] = at[r]
                /\ pc'[r] # "idle"
  BY <1>4 DEF Insert, Goto, TypeOK, LockInv
<1>5. ASSUME NEW q \in Requests, Reread(q)
      PROVE  Same
  <2>1. at' = at
    BY <1>5 DEF Reread
  <2>2. CASE (\E row \in RowsOf(db, req[q].key) : Answer(q, row)) /\ UNCHANGED via
    BY <2>1, <2>2 DEF Answer, Goto, TypeOK, LockInv
  <2>3. CASE AcquireLocally(q, at[q], mem[req[q].inst])
    BY <1>1, <2>1, <2>3
  <2>4. QED
    BY <1>5, <2>2, <2>3 DEF Reread
<1>6. ASSUME NEW q \in Requests, AcquireFails(q)
      PROVE  Same
  BY <1>1, <1>6 DEF AcquireFails
<1>7. ASSUME NEW q \in Requests, NEW s \in Results, Complete(q, s)
      PROVE  Same
  BY <1>7 DEF Complete, Goto, TypeOK, LockInv
<1>8. ASSUME NEW q \in Requests,
             StoreResult(q) \/ StoreFails(q) \/ DeleteReservation(q) \/ Abandon(q)
      PROVE  Same
  BY <1>8 DEF StoreResult, StoreFails, DeleteReservation, ReleaseLocally, Abandon,
              Goto, TypeOK, LockInv
<1>9. ASSUME NEW q \in Requests, Release(q)
      PROVE  Same
  <2>1. (Goto(q, "releasing") \/ Goto(q, "released")) /\ UNCHANGED <<at, via>>
    BY <1>9, Zenon DEF Release, ReleaseLocally
  <2>2. QED
    BY <2>1 DEF Goto, TypeOK, LockInv
<1>10. ASSUME NEW i \in Instances, Crash(i)
       PROVE  Same
  BY <1>10 DEF Crash, LockInv
<1>11. CASE Sweep \/ Tick \/ UNCHANGED vars
  BY <1>11 DEF Sweep, Tick, vars, LockInv
<1>12. QED
  BY <1>2, <1>3, <1>4, <1>5, <1>6, <1>7, <1>8, <1>9, <1>10, <1>11
     DEF Next, StoreStep

\* What is deleted has expired, and what is overwritten expires later.
LEMMA CoverKept ==
  ASSUME TypeOK, LockInv, [Next]_vars, NEW k \in Keys, NEW e \in Int,
         now < e, e <= now + LockTtl, Covered(k, e)
  PROVE  Covered(k, e)'
<1> USE IdempotencyAssumption
<1> PICK row \in db : row.key = k /\ e <= row.expires
  BY DEF Covered
<1>1. ASSUME UNCHANGED db
      PROVE  Covered(k, e)'
  BY <1>1 DEF Covered
<1>2. ASSUME NEW r \in Requests
      PROVE  row \in Reaped(r) /\ row \in Inserted(r)
  <2>1. row \notin {x \in RowsOf(db, req[r].key) : x.expires <= at[r]}
    BY DEF LockInv, TypeOK, Rows, RowsOf
  <2>2. QED
    BY <2>1 DEF Reaped, Inserted
<1>3. ASSUME row \in db'
      PROVE  Covered(k, e)'
  BY <1>3 DEF Covered
<1>4. ASSUME NEW r \in Requests, pc[r] = "completing", db' = Updated(r, db)
      PROVE  Covered(k, e)'
  <2>1. CASE OwnKey(r, row)
    <3>1. Outcome(r) \in db'
      BY <1>4, <2>1 DEF Updated
    <3>2. Outcome(r).key = k /\ Outcome(r).expires = expiresAt[r]
      BY <2>1 DEF Outcome, OwnKey
    <3>3. e <= expiresAt[r]
      BY <1>4 DEF LockInv, TypeOK
    <3>4. QED
      BY <3>1, <3>2, <3>3 DEF Covered
  <2>2. CASE ~OwnKey(r, row)
    BY <1>3, <1>4, <2>2 DEF Updated
  <2>3. QED
    BY <2>1, <2>2
<1>5. ASSUME NEW r \in Requests, Insert(r) \/ Reap(r) \/ AcquireFails(r)
      PROVE  Covered(k, e)'
  BY <1>2, <1>3, <1>5 DEF Insert, Reap, AcquireFails
<1>6. ASSUME NEW r \in Requests, StoreResult(r) \/ StoreFails(r)
      PROVE  Covered(k, e)'
  BY <1>1, <1>4, <1>6 DEF StoreResult, StoreFails
<1>7. ASSUME NEW r \in Requests, DeleteReservation(r)
      PROVE  FALSE
  BY <1>7 DEF DeleteReservation, LockInv
<1>8. CASE Sweep
  <2>1. row.expires \in Int /\ now \in Int
    BY DEF TypeOK, Rows
  <2>2. row.expires >= now
    BY <2>1
  <2>3. QED
    BY <1>3, <1>8, <2>2 DEF Sweep
<1>9. ASSUME NEW r \in Requests, Start(r)
      PROVE  UNCHANGED db
  BY <1>9 DEF Start
<1>10. ASSUME NEW r \in Requests, Find(r) \/ Reread(r) \/ Release(r) \/ Abandon(r)
       PROVE  UNCHANGED db
  BY <1>10 DEF Find, Reread, Release, Abandon
<1>11. ASSUME NEW r \in Requests, NEW s \in Results, Complete(r, s)
       PROVE  UNCHANGED db
  BY <1>11 DEF Complete
<1>12. ASSUME NEW i \in Instances, Crash(i)
       PROVE  UNCHANGED db
  BY <1>12 DEF Crash
<1>13. CASE Tick \/ UNCHANGED vars
  BY <1>1, <1>13 DEF Tick, vars
<1>14. QED
  BY <1>1, <1>5, <1>6, <1>7, <1>8, <1>9, <1>10, <1>11, <1>12, <1>13
     DEF Next, StoreStep

\* Time only moves forward, by one, and the keys of requests are fixed.
LEMMA ClockStep ==
  ASSUME TypeOK, [Next]_vars
  PROVE  /\ req' = req
         /\ now' = now \/ Tick
         /\ \A r \in Requests : at'[r] = at[r] \/ (at'[r] = now /\ now' = now)
<1>1. ASSUME NEW r \in Requests, Start(r)
      PROVE  req' = req /\ now' = now /\ at' = [at EXCEPT ![r] = now]
  BY <1>1 DEF Start
<1>2. ASSUME NEW r \in Requests,
             \/ Find(r) \/ Reap(r) \/ Insert(r) \/ Reread(r) \/ AcquireFails(r)
             \/ StoreResult(r) \/ StoreFails(r) \/ DeleteReservation(r)
             \/ Release(r) \/ Abandon(r)
      PROVE  req' = req /\ now' = now /\ at' = at
  BY <1>2 DEF Find, Reap, Insert, Reread, AcquireFails, StoreResult, StoreFails,
              DeleteReservation, Release, Abandon
<1>3. ASSUME NEW r \in Requests, NEW s \in Results, Complete(r, s)
      PROVE  req' = req /\ now' = now /\ at' = at
  BY <1>3 DEF Complete
<1>4. ASSUME NEW i \in Instances, Crash(i)
      PROVE  req' = req /\ now' = now /\ at' = at
  BY <1>4 DEF Crash
<1>5. CASE Sweep \/ Tick \/ UNCHANGED vars
  BY <1>5 DEF Sweep, Tick, vars
<1>6. QED
  BY <1>1, <1>2, <1>3, <1>4, <1>5 DEF Next, StoreStep, TypeOK

\* A result is stored with a reservation's life ahead of it, and no request
\* gives a reservation back.
LEMMA CompletingStep ==
  ASSUME TypeOK, LockInv, [Next]_vars, ~Releases, NEW r \in Requests
  PROVE  /\ pc'[r] # "releasing"
         /\ pc'[r] = "completing" => now' + LockTtl <= expiresAt'[r]
<1> USE IdempotencyAssumption
<1> DEFINE Goal == /\ pc'[r] # "releasing"
                   /\ pc'[r] = "completing" => now' + LockTtl <= expiresAt'[r]
<1>1. ASSUME now' = now, expiresAt' = expiresAt, NEW q \in Requests,
             NEW where \in {"find", "reap", "insert", "reread", "holding",
                            "conflict", "busy", "replayed", "finished",
                            "released", "abandoned"},
             Goto(q, where)
      PROVE  Goal
  BY <1>1 DEF Goto, TypeOK, LockInv
<1>2. ASSUME now' = now, expiresAt' = expiresAt, NEW q \in Requests, NEW t,
             NEW table, AcquireLocally(q, t, table)
      PROVE  Goal
  BY <1>1, <1>2 DEF AcquireLocally, Answer
<1>3. ASSUME NEW q \in Requests, Start(q)
      PROVE  Goal
  BY <1>1, <1>2, <1>3 DEF Start
<1>4. ASSUME NEW q \in Requests, Find(q) \/ Reap(q) \/ Insert(q)
      PROVE  Goal
  BY <1>1, <1>4 DEF Find, Reap, Insert, Answer
<1>5. ASSUME NEW q \in Requests, Reread(q) \/ AcquireFails(q)
      PROVE  Goal
  BY <1>1, <1>2, <1>5 DEF Reread, AcquireFails, Answer
<1>6. ASSUME NEW q \in Requests, NEW s \in Results, Complete(q, s)
      PROVE  Goal
  <2>1. /\ now' = now
        /\ expiresAt' = [expiresAt EXCEPT ![q] = now + ResultTtl]
        /\ Goto(q, "completing") \/ Goto(q, "finished")
    BY <1>6 DEF Complete
  <2>2. CASE r = q
    BY <2>1, <2>2 DEF TypeOK, Goto
  <2>3. CASE r # q
    BY <2>1, <2>3 DEF TypeOK, Goto, LockInv
  <2>4. QED
    BY <2>2, <2>3
<1>7. ASSUME NEW q \in Requests,
             StoreResult(q) \/ StoreFails(q) \/ Abandon(q) \/ DeleteReservation(q)
      PROVE  Goal
  BY <1>1, <1>7 DEF StoreResult, StoreFails, Abandon, DeleteReservation,
                    ReleaseLocally
<1>8. ASSUME NEW q \in Requests, Release(q)
      PROVE  Goal
  <2>1. FALSE
    BY <1>8, Zenon DEF Release
  <2>2. QED
    BY <2>1
<1>9. ASSUME NEW i \in Instances, Crash(i)
      PROVE  Goal
  BY <1>9 DEF Crash, LockInv
<1>10. CASE Sweep \/ UNCHANGED vars
  BY <1>10 DEF Sweep, vars, LockInv
<1>11. CASE Tick
  BY <1>11 DEF Tick, StoredInTime, LockInv
<1>12. QED
  BY <1>3, <1>4, <1>5, <1>6, <1>7, <1>8, <1>9, <1>10, <1>11
     DEF Next, StoreStep

LEMMA LockStep == ASSUME ~Releases PROVE TypeOK /\ LockInv /\ [Next]_vars => LockInv'
<1> SUFFICES ASSUME TypeOK, LockInv, [Next]_vars
             PROVE  LockInv'
  OBVIOUS
<1> USE IdempotencyAssumption
<1>1. /\ req' = req
      /\ now \in Int /\ now' \in {now, now + 1}
      /\ \A r \in Requests : at'[r] \in Int /\ at[r] <= now
      /\ \A r \in Requests : at'[r] = at[r] \/ (at'[r] = now /\ now' = now)
  <2>1. TypeOK'
    BY TypeStep
  <2>2. QED
    BY <2>1, ClockStep DEF Tick, TypeOK, LockInv
<1>2. \A r \in Requests : at'[r] <= now'
  BY <1>1
<1>3. ASSUME NEW r \in Requests, via'[r] = "db", LockLive(r)'
      PROVE  \E row \in db' : /\ row.key = req'[r].key
                              /\ at'[r] + LockTtl <= row.expires
  <2>1. CASE via[r] = "db" /\ at'[r] = at[r]
    <3>1. LockLive(r)
      BY <1>1, <1>3, <2>1 DEF LockLive
    <3>2. /\ Covered(req[r].key, at[r] + LockTtl)
          /\ req[r].key \in Keys
          /\ at[r] + LockTtl \in Int
          /\ now < at[r] + LockTtl
          /\ at[r] + LockTtl <= now + LockTtl
      BY <1>1, <2>1, <3>1 DEF LockInv, TypeOK, LockLive
    <3>3. Covered(req[r].key, at[r] + LockTtl)'
      BY <3>2, CoverKept, <1>1, <2>1 DEF Covered
    <3>4. QED
      BY <1>1, <2>1, <3>3 DEF Covered
  <2>2. CASE Insert(r) /\ RowsOf(db, req[r].key) = {} /\ at'[r] = at[r]
    <3>1. Reservation(r, at[r]) \in db'
      BY <2>2 DEF Insert, Inserted
    <3>2. /\ Reservation(r, at[r]).key = req[r].key
          /\ Reservation(r, at[r]).expires = at[r] + LockTtl
      BY DEF Reservation
    <3>3. at[r] + LockTtl <= at[r] + LockTtl
      BY DEF TypeOK
    <3>4. QED
      BY <1>1, <2>2, <3>1, <3>2, <3>3
  <2>3. QED
    BY <1>3, <2>1, <2>2, TableKept
<1>4. DbExclusive'
  <2> SUFFICES ASSUME NEW r \in Requests, NEW s \in Requests,
                      via'[r] = "db", via'[s] = "db", BothHold(r, s)'
               PROVE  FALSE
    BY DEF DbExclusive
  <2>1. /\ r # s /\ req[r].key = req[s].key
        /\ pc'[r] = "holding" /\ pc'[s] = "holding"
        /\ LockLive(r)' /\ LockLive(s)'
    BY <1>1 DEF BothHold, SameKey
  <2> DEFINE Held(q) == pc[q] = "holding" /\ via[q] = "db" /\ at'[q] = at[q]
             New(q) == Insert(q) /\ RowsOf(db, req[q].key) = {} /\ at'[q] = at[q]
  <2>2. (Held(r) \/ New(r)) /\ (Held(s) \/ New(s))
    BY <2>1, HoldersKept
  <2>3. \A q \in Requests : Held(q) /\ LockLive(q)' => LockLive(q)
    BY <1>1 DEF LockLive
  <2>4. ASSUME NEW p \in Requests, NEW q \in Requests, Held(p), LockLive(p),
               req[p].key = req[q].key, New(q)
        PROVE  FALSE
    BY <2>4 DEF LockInv, Covered, RowsOf
  <2>5. ~(Held(r) /\ Held(s))
    BY <2>1, <2>3 DEF LockInv, DbExclusive, BothHold, SameKey
  <2>6. ~(New(r) /\ New(s))
    BY <2>1 DEF Insert, Goto, TypeOK
  <2>7. QED
    BY <2>1, <2>2, <2>3, <2>4, <2>5, <2>6
<1>5. QED
  BY <1>2, <1>3, <1>4, CompletingStep, TableKept DEF LockInv, Covered

\* Without releases the primary key is a lock for any number of instances and
\* requests, any delays, database failures and crashes: no two requests that
\* the table gave the same key hold it together while both reservations last.
THEOREM PrimaryKeyIsALock == ASSUME ~Releases PROVE Spec => []DbExclusive
<1>1. Init => LockInv
  BY IdempotencyAssumption DEF Init, LockInv, DbExclusive, BothHold
<1>2. LockInv => DbExclusive
  BY DEF LockInv
<1>3. TypeOK /\ LockInv /\ [Next]_vars => LockInv'
  BY LockStep
<1>4. QED
  BY <1>1, <1>2, <1>3, TypeCorrect, PTL DEF Spec

\* Nor does the table lose a reservation before its time: one that a request
\* abandons in doubt, or dies with, keeps its key from being free until it
\* expires.
THEOREM ReservationsAreKept == ASSUME ~Releases PROVE Spec => []KeptUntilExpiry
<1>1. ASSUME TypeOK, LockInv PROVE KeptUntilExpiry
  <2>1. SUFFICES ASSUME NEW r \in Requests, via[r] = "db", LockLive(r)
                 PROVE  Live(RowsOf(db, req[r].key), now) # {}
    BY DEF KeptUntilExpiry
  <2>2. PICK row \in db : row.key = req[r].key /\ at[r] + LockTtl <= row.expires
    BY <1>1, <2>1 DEF LockInv, Covered
  <2>3. row.expires > now
    BY <1>1, <2>1, <2>2, IdempotencyAssumption DEF TypeOK, Rows, LockLive
  <2>4. QED
    BY <2>2, <2>3 DEF Live, RowsOf
<1>2. Init => LockInv
  BY IdempotencyAssumption DEF Init, LockInv, DbExclusive, BothHold
<1>3. TypeOK /\ LockInv /\ [Next]_vars => LockInv'
  BY LockStep
<1>4. QED
  BY <1>1, <1>2, <1>3, TypeCorrect, PTL DEF Spec

----------------------------------------------------------------------------
(* One process without a database.                                         *)
(*                                                                         *)
(* Its Map is read and written without an await in between.  While         *)
(* requests end before their reservations do, the reservation of a request *)
(* that works, or was left in doubt, is in the Map until it expires, and   *)
(* is the only one of its key; a stored result, or a later one, is there   *)
(* until it expires.                                                       *)

OneProcess ==
  ~Persistent /\ Prompt /\ ~Crashes /\ \A i, j \in Instances : i = j

\* A request whose reservation counts: it has not been used up or given back.
Pending(r) == pc[r] \in {"holding", "abandoned"} /\ LockLive(r)

InMap(s) ==
  \E row \in mem[req[s].inst] :
    /\ row.key = req[s].key
    /\ row.status # Processing
    /\ expiresAt[s] <= row.expires

LocalInv ==
  /\ \A r \in Requests :
       pc[r] \in {"idle", "holding", "conflict", "busy", "replayed", "finished",
                  "released", "abandoned"}
  /\ \A r \in Requests : pc[r] = "holding" => LockLive(r)
  /\ \A r \in Requests : Pending(r) => Reservation(r, at[r]) \in mem[req[r].inst]
  /\ \A r, s \in Requests : SameKey(r, s) /\ Pending(r) /\ Pending(s) => r = s
  /\ \A s \in Requests :
       pc[s] = "finished" =>
         /\ expiresAt[s] <= now + ResultTtl
         /\ now < expiresAt[s] => InMap(s)

LEMMA LocalActions ==
  ASSUME OneProcess, LocalInv, [Next]_vars
  PROVE  \/ \E r \in Requests : Start(r) \/ Release(r) \/ Abandon(r)
         \/ \E r \in Requests, s \in Results : Complete(r, s)
         \/ Tick \/ UNCHANGED vars
<1>1. ASSUME NEW r \in Requests
      PROVE  ~StoreStep(r)
  BY <1>1 DEF LocalInv, StoreStep, Find, Reap, Insert, Reread, AcquireFails, InCall,
              StoreResult, StoreFails, DeleteReservation
<1>2. ~Sweep /\ \A i \in Instances : ~Crash(i)
  BY DEF OneProcess, Sweep, Crash
<1>3. QED
  BY <1>1, <1>2 DEF Next

\* A row that is still to expire survives the pruning of the Map.
LEMMA LocalStart ==
  ASSUME OneProcess, TypeOK, LocalInv, NEW r \in Requests, Start(r)
  PROVE  /\ LocalInv'
         /\ \A s \in Requests :
              SameKey(r, s) /\ pc[s] = "finished" /\ pc'[r] = "holding"
                => expiresAt[s] <= now
<1> USE IdempotencyAssumption
<1> DEFINE i == req[r].inst
           due == now - prunedAt[i] >= PruneGap
           table == IF due THEN Live(mem[i], now) ELSE mem[i]
           live == RowsOf(Live(table, now), req[r].key)
<1>1. /\ i \in Instances /\ now \in Nat /\ mem[i] \in SUBSET Rows
      /\ \A s \in Requests : at[s] \in Nat /\ expiresAt[s] \in Nat
      /\ \A s \in Requests : req[s].inst = i
  BY DEF TypeOK, OneProcess
<1>2. /\ AcquireLocally(r, now, table)
      /\ UNCHANGED <<now, req, expiresAt>>
      /\ at' = [at EXCEPT ![r] = now]
      /\ pc[r] = "idle"
  BY DEF Start, OneProcess
<1>3. \A row \in mem[i] : row.expires > now => row \in Live(table, now)
  BY DEF Live
<1>4. ASSUME NEW s \in Requests, Pending(s)
      PROVE  /\ Reservation(s, at[s]) \in Live(table, now)
             /\ Reservation(s, at[s]).key = req[s].key
  <2>1. Reservation(s, at[s]) \in mem[i]
    BY <1>1, <1>4 DEF LocalInv
  <2>2. Reservation(s, at[s]).expires > now
    BY <1>1, <1>4 DEF Reservation, Pending, LockLive
  <2>3. QED
    BY <1>3, <2>1, <2>2 DEF Reservation
<1>5. ASSUME NEW s \in Requests, pc[s] = "finished", now < expiresAt[s]
      PROVE  \E row \in Live(table, now) :
               /\ row.key = req[s].key
               /\ row.status # Processing
               /\ expiresAt[s] <= row.expires
  <2>1. PICK row \in mem[i] : /\ row.key = req[s].key
                              /\ row.status # Processing
                              /\ expiresAt[s] <= row.expires
    BY <1>1, <1>5 DEF LocalInv, InMap
  <2>2. row.expires \in Int
    BY <1>1 DEF Rows
  <2>3. row.expires > now
    BY <1>1, <1>5, <2>1, <2>2
  <2>4. QED
    BY <1>3, <2>1, <2>3
<1>6. \A s \in Requests : s # r => at'[s] = at[s]
  BY <1>2 DEF TypeOK
<1>7. at'[r] = now
  BY <1>2 DEF TypeOK
<1>8. CASE /\ live = {}
           /\ mem' = [mem EXCEPT ![i] = Put(table, Reservation(r, now))]
           /\ Goto(r, "holding")
  <2>1. ASSUME NEW s \in Requests, SameKey(r, s)
        PROVE  ~Pending(s) /\ (pc[s] = "finished" => expiresAt[s] <= now)
    <3>1. \A row \in Live(table, now) : row.key # req[s].key
      BY <1>8, <2>1 DEF RowsOf, SameKey
    <3>2. QED
      BY <1>1, <1>4, <1>5, <3>1
  <2>2. /\ pc' = [pc EXCEPT ![r] = "holding"]
        /\ pc'[r] = "holding"
        /\ \A s \in Requests : s # r => pc'[s] = pc[s]
    BY <1>8 DEF Goto, TypeOK
  <2>3. /\ mem'[i] = Put(table, Reservation(r, now))
        /\ Reservation(r, now) \in mem'[i]
        /\ \A row \in table : row.key # req[r].key => row \in mem'[i]
    BY <1>1, <1>8 DEF Put, TypeOK, Reservation
  <2>4. \A s \in Requests : s # r => (Pending(s)' <=> Pending(s))
    BY <1>2, <1>6, <2>2 DEF Pending, LockLive
  <2>5. ASSUME NEW s \in Requests, Pending(s)'
        PROVE  Reservation(s, at[s])' \in mem'[req'[s].inst]
    <3>1. CASE s = r
      BY <1>1, <1>2, <1>7, <2>3, <3>1 DEF Reservation
    <3>2. CASE s # r
      <4>1. Pending(s) /\ req[s].key # req[r].key
        BY <2>1, <2>4, <2>5, <3>2 DEF SameKey
      <4>2. Reservation(s, at[s]) \in mem'[i]
        BY <1>4, <2>3, <4>1 DEF Live
      <4>3. QED
        BY <1>1, <1>2, <1>6, <3>2, <4>2 DEF Reservation
    <3>3. QED
      BY <3>1, <3>2
  <2>6. ASSUME NEW p \in Requests, NEW s \in Requests, SameKey(p, s)',
               Pending(p)', Pending(s)'
        PROVE  p = s
    <3>1. req[p].key = req[s].key
      BY <1>2, <2>6 DEF SameKey
    <3>2. CASE p = r \/ s = r
      BY <2>1, <2>4, <2>6, <3>1, <3>2 DEF SameKey
    <3>3. CASE p # r /\ s # r
      BY <2>4, <2>6, <3>1, <3>3 DEF LocalInv, SameKey
    <3>4. QED
      BY <3>2, <3>3
  <2>7. ASSUME NEW s \in Requests, pc'[s] = "finished"
        PROVE  /\ expiresAt'[s] <= now' + ResultTtl
               /\ now' < expiresAt'[s] => InMap(s)'
    <3>1. pc[s] = "finished" /\ s # r
      BY <2>2, <2>7
    <3>2. ASSUME now < expiresAt[s]
          PROVE  InMap(s)'
      <4>1. req[s].key # req[r].key
        BY <1>1, <2>1, <3>1, <3>2 DEF SameKey
      <4>2. PICK row \in Live(table, now) : /\ row.key = req[s].key
                                            /\ row.status # Processing
                                            /\ expiresAt[s] <= row.expires
        BY <1>5, <3>1, <3>2
      <4>3. row \in mem'[i]
        BY <2>3, <4>1, <4>2 DEF Live
      <4>4. QED
        BY <1>1, <1>2, <4>2, <4>3 DEF InMap
    <3>3. QED
      BY <1>2, <3>1, <3>2 DEF LocalInv
  <2>8. \A s \in Requests : pc'[s] = "holding" => LockLive(s)'
    <3>1. LockLive(r)'
      BY <1>1, <1>2, <1>7 DEF LockLive
    <3>2. \A s \in Requests : s # r => (LockLive(s)' <=> LockLive(s))
      BY <1>2, <1>6 DEF LockLive
    <3>3. QED
      BY <2>2, <3>1, <3>2 DEF LocalInv
  <2>9. \A s \in Requests :
          pc'[s] \in {"idle", "holding", "conflict", "busy", "replayed",
                      "finished", "released", "abandoned"}
    BY <2>2 DEF LocalInv
  <2>10. LocalInv'
    BY <2>5, <2>6, <2>7, <2>8, <2>9 DEF LocalInv
  <2>11. QED
    BY <2>1, <2>10
<1>9. CASE /\ mem' = [mem EXCEPT ![i] = table]
           /\ \E row \in live : Answer(r, row)
  <2>1. /\ pc'[r] \in {"conflict", "busy", "replayed"}
        /\ \A s \in Requests : s # r => pc'[s] = pc[s]
    BY <1>9 DEF Answer, Goto, TypeOK
  <2>2. mem'[i] = table
    BY <1>1, <1>9 DEF TypeOK
  <2>3. ASSUME NEW s \in Requests, Pending(s)'
        PROVE  /\ Pending(s) /\ s # r
               /\ Reservation(s, at[s])' \in mem'[req'[s].inst]
    <3>1. s # r
      BY <2>1, <2>3 DEF Pending
    <3>2. Pending(s)
      BY <1>2, <1>6, <2>1, <2>3, <3>1 DEF Pending, LockLive
    <3>3. Reservation(s, at[s]) \in mem'[i]
      BY <1>4, <2>2, <3>2 DEF Live
    <3>4. QED
      BY <1>1, <1>2, <1>6, <3>1, <3>2, <3>3 DEF Reservation
  <2>4. ASSUME NEW s \in Requests, pc'[s] = "finished"
        PROVE  /\ expiresAt'[s] <= now' + ResultTtl
               /\ now' < expiresAt'[s] => InMap(s)'
    <3>1. pc[s] = "finished"
      BY <2>1, <2>4
    <3>2. ASSUME now < expiresAt[s]
          PROVE  InMap(s)'
      <4>1. PICK row \in Live(table, now) : /\ row.key = req[s].key
                                            /\ row.status # Processing
                                            /\ expiresAt[s] <= row.expires
        BY <1>5, <3>1, <3>2
      <4>2. row \in mem'[i]
        BY <2>2, <4>1 DEF Live
      <4>3. QED
        BY <1>1, <1>2, <4>1, <4>2 DEF InMap
    <3>3. QED
      BY <1>2, <3>1, <3>2 DEF LocalInv
  <2>5. \A p, s \in Requests : SameKey(p, s)' /\ Pending(p)' /\ Pending(s)' => p = s
    BY <1>2, <2>3 DEF LocalInv, SameKey
  <2>6. \A s \in Requests : pc'[s] = "holding" => LockLive(s)'
    BY <1>2, <1>6, <2>1 DEF LocalInv, LockLive
  <2>7. \A s \in Requests :
          pc'[s] \in {"idle", "holding", "conflict", "busy", "replayed",
                      "finished", "released", "abandoned"}
    BY <2>1 DEF LocalInv
  <2>8. LocalInv'
    BY <2>3, <2>4, <2>5, <2>6, <2>7 DEF LocalInv
  <2>9. QED
    BY <2>1, <2>8
<1>10. QED
  BY <1>2, <1>8, <1>9 DEF AcquireLocally

\* A request that ends takes its own reservation at most out of the Map: no
\* other request has one for the same key.
LEMMA LocalComplete ==
  ASSUME OneProcess, TypeOK, LocalInv, NEW r \in Requests, NEW s \in Results,
         Complete(r, s)
  PROVE  LocalInv' /\ pc'[r] = "finished"
<1> USE IdempotencyAssumption
<1> DEFINE i == req[r].inst
           own == [key |-> req[r].key, hash |-> req[r].hash, status |-> s,
                   expires |-> now + ResultTtl]
<1>1. /\ i \in Instances /\ now \in Nat
      /\ \A q \in Requests : at[q] \in Nat /\ expiresAt[q] \in Nat
      /\ \A q \in Requests : req[q].inst = i
  BY DEF TypeOK, OneProcess
<1>2. /\ pc[r] = "holding"
      /\ expiresAt' = [expiresAt EXCEPT ![r] = now + ResultTtl]
      /\ mem' = [mem EXCEPT ![i] = Put(mem[i], own)]
      /\ Goto(r, "finished")
      /\ UNCHANGED <<now, req, at>>
  BY DEF Complete, OneProcess
<1>3. /\ pc'[r] = "finished"
      /\ \A q \in Requests : q # r => pc'[q] = pc[q] /\ expiresAt'[q] = expiresAt[q]
      /\ expiresAt'[r] = now + ResultTtl
  BY <1>2 DEF Goto, TypeOK
<1>4. /\ own \in mem'[i]
      /\ \A row \in mem[i] : row.key # req[r].key => row \in mem'[i]
  BY <1>1, <1>2 DEF Put, TypeOK
<1>5. Pending(r)
  BY <1>2 DEF LocalInv, Pending
<1>6. ASSUME NEW q \in Requests, Pending(q)'
      PROVE  /\ Pending(q)
             /\ Reservation(q, at[q])' \in mem'[req'[q].inst]
  <2>1. q # r
    BY <1>3, <1>6 DEF Pending
  <2>2. Pending(q)
    BY <1>2, <1>3, <1>6, <2>1 DEF Pending, LockLive
  <2>3. req[q].key # req[r].key
    BY <1>5, <2>1, <2>2 DEF LocalInv, SameKey
  <2>4. Reservation(q, at[q]) \in mem[i]
    BY <1>1, <2>2 DEF LocalInv
  <2>5. Reservation(q, at[q]) \in mem'[i]
    BY <1>4, <2>3, <2>4 DEF Reservation
  <2>6. QED
    BY <1>1, <1>2, <2>2, <2>5 DEF Reservation
<1>7. ASSUME NEW q \in Requests, pc'[q] = "finished"
      PROVE  /\ expiresAt'[q] <= now' + ResultTtl
             /\ now' < expiresAt'[q] => InMap(q)'
  <2>1. expiresAt'[q] <= now' + ResultTtl
    BY <1>1, <1>2, <1>3, <1>7 DEF LocalInv
  <2>2. CASE req[q].key = req[r].key
    <3>1. own.status # Processing
      OBVIOUS
    <3>2. QED
      BY <1>1, <1>2, <1>4, <2>1, <2>2, <3>1 DEF InMap
  <2>3. CASE req[q].key # req[r].key
    <3>1. q # r /\ pc[q] = "finished" /\ expiresAt'[q] = expiresAt[q]
      BY <1>3, <1>7, <2>3
    <3>2. ASSUME now < expiresAt[q]
          PROVE  InMap(q)'
      <4>1. PICK row \in mem[i] : /\ row.key = req[q].key
                                  /\ row.status # Processing
                                  /\ expiresAt[q] <= row.expires
        BY <1>1, <3>1, <3>2 DEF LocalInv, InMap
      <4>2. row \in mem'[i]
        BY <1>4, <2>3, <4>1
      <4>3. QED
        BY <1>1, <1>2, <3>1, <4>1, <4>2 DEF InMap
    <3>3. QED
      BY <1>2, <2>1, <3>1, <3>2
  <2>4. QED
    BY <2>2, <2>3
<1>8. \A p, q \in Requests : SameKey(p, q)' /\ Pending(p)' /\ Pending(q)' => p = q
  BY <1>2, <1>6 DEF LocalInv, SameKey
<1>9. \A q \in Requests : pc'[q] = "holding" => LockLive(q)'
  BY <1>2, <1>3 DEF LocalInv, LockLive
<1>10. \A q \in Requests :
         pc'[q] \in {"idle", "holding", "conflict", "busy", "replayed",
                     "finished", "released", "abandoned"}
  BY <1>3 DEF LocalInv
<1>11. QED
  BY <1>3, <1>6, <1>7, <1>8, <1>9, <1>10 DEF LocalInv

LEMMA LocalRelease ==
  ASSUME OneProcess, TypeOK, LocalInv, NEW r \in Requests,
         Release(r) \/ Abandon(r)
  PROVE  LocalInv' /\ pc'[r] # "holding"
<1> USE IdempotencyAssumption
<1> DEFINE i == req[r].inst
<1>1. /\ i \in Instances
      /\ \A q \in Requests : req[q].inst = i
  BY DEF TypeOK, OneProcess
<1>2. CASE Release(r)
  <2>1. /\ pc[r] = "holding"
        /\ ReleaseLocally(r)
        /\ UNCHANGED <<now, req, at, expiresAt>>
    BY <1>2, Zenon DEF Release, OneProcess
  <2>2. /\ pc'[r] = "released"
        /\ \A q \in Requests : q # r => pc'[q] = pc[q]
        /\ mem'[i] = {row \in mem[i] : ~Releasable(r, row)}
    BY <1>1, <2>1 DEF ReleaseLocally, Goto, TypeOK
  <2>3. Pending(r)
    BY <2>1 DEF LocalInv, Pending
  <2>4. ASSUME NEW q \in Requests, Pending(q)'
        PROVE  /\ Pending(q)
               /\ Reservation(q, at[q])' \in mem'[req'[q].inst]
    <3>1. q # r
      BY <2>2, <2>4 DEF Pending
    <3>2. Pending(q)
      BY <2>1, <2>2, <2>4, <3>1 DEF Pending, LockLive
    <3>3. req[q].key # req[r].key
      BY <2>3, <3>1, <3>2 DEF LocalInv, SameKey
    <3>4. Reservation(q, at[q]) \in mem[i]
      BY <1>1, <3>2 DEF LocalInv
    <3>5. Reservation(q, at[q]) \in mem'[i]
      BY <2>2, <3>3, <3>4 DEF Reservation, Releasable, OwnKey
    <3>6. QED
      BY <1>1, <2>1, <3>2, <3>5 DEF Reservation
  <2>5. ASSUME NEW q \in Requests, pc'[q] = "finished"
        PROVE  /\ expiresAt'[q] <= now' + ResultTtl
               /\ now' < expiresAt'[q] => InMap(q)'
    <3>1. pc[q] = "finished"
      BY <2>2, <2>5
    <3>2. ASSUME now < expiresAt[q]
          PROVE  InMap(q)'
      <4>1. PICK row \in mem[i] : /\ row.key = req[q].key
                                  /\ row.status # Processing
                                  /\ expiresAt[q] <= row.expires
        BY <1>1, <3>1, <3>2 DEF LocalInv, InMap
      <4>2. row \in mem'[i]
        BY <2>2, <4>1 DEF Releasable
      <4>3. QED
        BY <1>1, <2>1, <4>1, <4>2 DEF InMap
    <3>3. QED
      BY <2>1, <3>1, <3>2 DEF LocalInv
  <2>6. \A p, q \in Requests : SameKey(p, q)' /\ Pending(p)' /\ Pending(q)' => p = q
    BY <2>1, <2>4 DEF LocalInv, SameKey
  <2>7. \A q \in Requests : pc'[q] = "holding" => LockLive(q)'
    BY <2>1, <2>2 DEF LocalInv, LockLive
  <2>8. \A q \in Requests :
          pc'[q] \in {"idle", "holding", "conflict", "busy", "replayed",
                      "finished", "released", "abandoned"}
    BY <2>2 DEF LocalInv
  <2>9. QED
    BY <2>2, <2>4, <2>5, <2>6, <2>7, <2>8 DEF LocalInv
<1>3. CASE Abandon(r)
  <2>1. /\ pc[r] = "holding"
        /\ pc'[r] = "abandoned"
        /\ \A q \in Requests : q # r => pc'[q] = pc[q]
        /\ UNCHANGED <<now, mem, req, at, expiresAt>>
    BY <1>3 DEF Abandon, Goto, TypeOK
  <2>2. \A q \in Requests : /\ Pending(q)' <=> Pending(q)
                            /\ Reservation(q, at[q])' = Reservation(q, at[q])
                            /\ InMap(q)' <=> InMap(q)
    BY <2>1 DEF Pending, LockLive, Reservation, InMap
  <2>3. QED
    BY <2>1, <2>2 DEF LocalInv, SameKey, LockLive
<1>4. QED
  BY <1>2, <1>3

LEMMA LocalStep ==
  ASSUME OneProcess
  PROVE  TypeOK /\ LocalInv /\ [Next]_vars => LocalInv'
<1> SUFFICES ASSUME TypeOK, LocalInv, [Next]_vars
             PROVE  LocalInv'
  OBVIOUS
<1> USE IdempotencyAssumption
<1>1. CASE Tick
  <2>1. /\ now \in Nat /\ now' = now + 1
        /\ \A r \in Requests : at[r] \in Nat /\ expiresAt[r] \in Nat
        /\ \A r \in Requests : pc[r] = "holding" => now + 1 < at[r] + LockTtl
        /\ UNCHANGED <<mem, req, pc, at, expiresAt>>
    BY <1>1 DEF Tick, TypeOK, OneProcess, Working
  <2>2. \A r \in Requests :
          /\ Pending(r)' => Pending(r)
          /\ Reservation(r, at[r])' = Reservation(r, at[r])
          /\ InMap(r)' <=> InMap(r)
    BY <2>1 DEF Pending, LockLive, Reservation, InMap
  <2>3. \A r \in Requests : pc'[r] = "holding" => LockLive(r)'
    BY <2>1 DEF LockLive
  <2>4. \A r \in Requests :
          pc'[r] = "finished" => /\ expiresAt'[r] <= now' + ResultTtl
                                 /\ now' < expiresAt'[r] => InMap(r)'
    BY <2>1, <2>2 DEF LocalInv
  <2>5. QED
    BY <2>1, <2>2, <2>3, <2>4 DEF LocalInv, SameKey
<1>2. CASE UNCHANGED vars
  BY <1>2 DEF vars, LocalInv, SameKey, Pending, LockLive, Reservation, InMap
<1>3. QED
  BY <1>1, <1>2, LocalActions, LocalStart, LocalComplete, LocalRelease

LEMMA LocalInit == Init => LocalInv
BY DEF Init, LocalInv, Pending

LEMMA CompletedOnceStep ==
  ASSUME OneProcess
  PROVE  TypeOK /\ LocalInv /\ [Next]_vars =>
           [\A r, s \in Requests :
              Reserves(r) /\ SameKey(r, s) /\ pc[s] = "finished"
                => expiresAt[s] <= now]_vars
<1> SUFFICES ASSUME TypeOK, LocalInv, [Next]_vars,
                    NEW r \in Requests, NEW s \in Requests,
                    Reserves(r), SameKey(r, s), pc[s] = "finished"
             PROVE  expiresAt[s] <= now
  OBVIOUS
<1>1. ASSUME NEW q \in Requests, Start(q)
      PROVE  q = r
  BY <1>1 DEF Start, AcquireLocally, Answer, Goto, TypeOK, Reserves
<1>2. ASSUME NEW q \in Requests, Start(q)
      PROVE  expiresAt[s] <= now
  BY <1>1, <1>2, LocalStart DEF Reserves
<1>3. ASSUME NEW q \in Requests, Release(q) \/ Abandon(q)
      PROVE  FALSE
  <2>1. pc'[q] # "holding"
    BY <1>3, LocalRelease
  <2>2. \A p \in Requests : p # q => pc'[p] = pc[p]
    BY <1>3, Zenon DEF Release, ReleaseLocally, Abandon, Goto, TypeOK
  <2>3. QED
    BY <2>1, <2>2 DEF Reserves
<1>4. ASSUME NEW q \in Requests, NEW o \in Results, Complete(q, o)
      PROVE  FALSE
  <2>1. pc'[q] = "finished"
    BY <1>4, LocalComplete
  <2>2. \A p \in Requests : p # q => pc'[p] = pc[p]
    BY <1>4 DEF Complete, Goto, TypeOK
  <2>3. QED
    BY <2>1, <2>2 DEF Reserves
<1>5. CASE Tick \/ UNCHANGED vars
  BY <1>5 DEF Tick, vars, Reserves
<1>6. QED
  BY <1>2, <1>3, <1>4, <1>5, LocalActions

\* Without a database, in one process whose requests end before their
\* reservations do, what was completed is not done again: no request is given
\* a key while a result stored for it is still to expire, however callers
\* release, abandon and prune.
THEOREM CompletedOnce == ASSUME OneProcess PROVE Spec => NoReexecution
<1>1. TypeOK /\ LocalInv /\ [Next]_vars => LocalInv'
  BY LocalStep
<1>2. QED
  BY <1>1, CompletedOnceStep, LocalInit, TypeCorrect, PTL DEF Spec, NoReexecution
============================================================================
