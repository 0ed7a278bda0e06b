---------------------------- MODULE Idempotency ----------------------------
(***************************************************************************)
(* The idempotency store of src/services/security/idempotency.ts: a table  *)
(* in Postgres shared by every server instance, and a process-local Map    *)
(* that each instance falls back to when the database cannot be reached.   *)
(* A request reserves its key (acquireIdempotency), works, and then stores *)
(* its result (completeIdempotency), gives the key back                    *)
(* (releaseIdempotency), or leaves the reservation to expire.              *)
(*                                                                         *)
(* One step of the model is what runs between two awaits of the code: a    *)
(* database call takes effect and its caller continues up to the next one. *)
(***************************************************************************)
EXTENDS Integers, FiniteSets

CONSTANTS
  Requests,    \* the HTTP requests
  Instances,   \* the server processes
  Keys,        \* Idempotency-Key headers
  Hashes,      \* hashes of request bodies
  Results,     \* final responses, status and body
  Processing,  \* the status of a reservation that has no result yet
  LockTtl,     \* life of a reservation
  ResultTtl,   \* life of a stored result
  PruneGap,    \* least time between two prunings of a Map
  Persistent,  \* databasePersistenceEnabled()
  DbFaults,    \* a database call may fail, its effect applied or not
  Releases,    \* callers may give a reservation back
  Crashes,     \* processes may crash
  Prompt,      \* a request ends before its reservation expires
  MaxTime      \* bound on the clock

ASSUME IdempotencyAssumption ==
  /\ Processing \notin Results
  /\ LockTtl \in Nat \ {0} /\ ResultTtl \in Nat /\ PruneGap \in Nat
  /\ LockTtl <= ResultTtl
  /\ MaxTime \in Nat
  /\ {Persistent, DbFaults, Releases, Crashes, Prompt} \subseteq BOOLEAN

VARIABLES
  now,           \* Date.now()
  db,            \* the api_idempotency table: a set of rows
  mem,           \* the Map of each instance: a set of rows
  prunedAt,      \* lastPruneAt of each instance
  req,           \* who serves each request, and what it asks; never changes
  pc,            \* where each request is
  at,            \* `now` as each request captured it in acquireIdempotency
  expiresAt,     \* `expiresAt` as each request captured it in completeIdempotency
  result,        \* the result a request stores, or is replayed
  via,           \* history: the store that gave each request its reservation
  completed      \* history: every completeIdempotency call made

vars ==
  <<now, db, mem, prunedAt, req, pc, at, expiresAt, result, via, completed>>

Statuses == Results \cup {Processing}
Rows == [key : Keys, hash : Hashes, status : Statuses, expires : Int]

InCall  == {"find", "reap", "insert", "reread"}
Working == InCall \cup {"holding", "completing", "releasing"}
Ended   == {"conflict", "busy", "replayed", "finished", "released",
            "abandoned", "crashed"}

TypeOK ==
  /\ now \in Nat
  /\ db \subseteq Rows
  /\ mem \in [Instances -> SUBSET Rows]
  /\ prunedAt \in [Instances -> Int]
  /\ req \in [Requests -> [inst : Instances, key : Keys, hash : Hashes]]
  /\ pc \in [Requests -> {"idle"} \cup Working \cup Ended]
  /\ at \in [Requests -> Nat]
  /\ expiresAt \in [Requests -> Nat]
  /\ result \in [Requests -> Statuses]
  /\ via \in [Requests -> {"none", "db", "map"}]
  /\ completed \subseteq Keys \X Hashes \X Results

Init ==
  /\ now = 0
  /\ db = {}
  /\ mem = [i \in Instances |-> {}]
  /\ prunedAt = [i \in Instances |-> -PruneGap]
  /\ req \in [Requests -> [inst : Instances, key : Keys, hash : Hashes]]
  /\ pc = [r \in Requests |-> "idle"]
  /\ at = [r \in Requests |-> 0]
  /\ expiresAt = [r \in Requests |-> 0]
  /\ result = [r \in Requests |-> Processing]
  /\ via = [r \in Requests |-> "none"]
  /\ completed = {}

----------------------------------------------------------------------------
(* Rows and tables. *)

RowsOf(table, k) == {row \in table : row.key = k}
Live(table, t)   == {row \in table : row.expires > t}

\* Mutant: a write that leaves the key's old row in place.
PutIfAbsent(table, row) ==
  IF {other \in table : other.key = row.key} = {} THEN table \cup {row} ELSE table

\* Map.set: the new row takes the place of the key's old one.
Put(table, row) == {other \in table : other.key # row.key} \cup {row}

\* Mutant: a reservation without its status.
ReservationNoStatus(r, t) ==
  [key |-> req[r].key, hash |-> req[r].hash, expires |-> t + LockTtl]

Reservation(r, t) ==
  [key |-> req[r].key, hash |-> req[r].hash, status |-> Processing,
   expires |-> t + LockTtl]

Outcome(r) ==
  [key |-> req[r].key, hash |-> req[r].hash, status |-> result[r],
   expires |-> expiresAt[r]]

\* The rows the `where` clauses of complete and release select.
OwnKey(r, row) == row.key = req[r].key /\ row.hash = req[r].hash
Releasable(r, row) == OwnKey(r, row) /\ row.status = Processing

\* The table after complete's updateMany, which may select no row at all.
Updated(r, table) ==
  {row \in table : ~OwnKey(r, row)}
    \cup {Outcome(r) : row \in {x \in table : OwnKey(r, x)}}

Goto(r, where) == pc' = [pc EXCEPT ![r] = where]

----------------------------------------------------------------------------
(* acquireIdempotency *)

\* Mutant: an answer that does not compare the bodies' hashes.
AnswerAnyBody(r, row) ==
  \/ /\ row.status = Processing
     /\ Goto(r, "busy")
     /\ UNCHANGED result
  \/ /\ row.status # Processing
     /\ Goto(r, "replayed")
     /\ result' = [result EXCEPT ![r] = row.status]

\* What the row of the request's key answers it.
Answer(r, row) ==
  \/ /\ row.hash # req[r].hash
     /\ Goto(r, "conflict")
     /\ UNCHANGED result
  \/ /\ row.hash = req[r].hash
     /\ row.status = Processing
     /\ Goto(r, "busy")
     /\ UNCHANGED result
  \/ /\ row.hash = req[r].hash
     /\ row.status # Processing
     /\ Goto(r, "replayed")
     /\ result' = [result EXCEPT ![r] = row.status]

\* The process-local path, taken without an await in between.
AcquireLocally(r, t, table) ==
  LET i    == req[r].inst
      live == RowsOf(Live(table, t), req[r].key)
  IN \/ /\ live = {}
        /\ mem' = [mem EXCEPT ![i] = Put(table, Reservation(r, t))]
        /\ Goto(r, "holding")
        /\ via' = [via EXCEPT ![r] = "map"]
        /\ UNCHANGED result
     \/ /\ mem' = [mem EXCEPT ![i] = table]
        /\ \E row \in live : Answer(r, row)
        /\ UNCHANGED via

\* The call starts: the clock is read once, the Map pruned when that is due.
Start(r) ==
  LET i     == req[r].inst
      due   == now - prunedAt[i] >= PruneGap
      table == IF due THEN Live(mem[i], now) ELSE mem[i]
  IN /\ pc[r] = "idle"
     /\ at' = [at EXCEPT ![r] = now]
     /\ prunedAt' = [prunedAt EXCEPT ![i] = IF due THEN now ELSE @]
     /\ \/ /\ Persistent
           /\ mem' = [mem EXCEPT ![i] = table]
           /\ Goto(r, "find")
           /\ UNCHANGED <<result, via>>
        \/ /\ ~Persistent
           /\ AcquireLocally(r, now, table)
     /\ UNCHANGED <<now, db, req, expiresAt, completed>>

Find(r) ==
  LET rows == RowsOf(db, req[r].key)
      live == Live(rows, at[r])
  IN /\ pc[r] = "find"
     /\ \/ rows = {} /\ Goto(r, "insert") /\ UNCHANGED result
        \/ rows # {} /\ live = {} /\ Goto(r, "reap") /\ UNCHANGED result
        \/ \E row \in live : Answer(r, row)
     /\ UNCHANGED <<now, db, mem, prunedAt, req, at, expiresAt, via, completed>>

\* Mutant: the delete does not look at the row's expiry again.
ReapedAnyAge(r) == db \ RowsOf(db, req[r].key)

\* deleteMany: the key's row, if it is still an expired one.
Reaped(r) == db \ {row \in RowsOf(db, req[r].key) : row.expires <= at[r]}

Reap(r) ==
  /\ pc[r] = "reap"
  /\ db' = Reaped(r)
  /\ Goto(r, "insert")
  /\ UNCHANGED <<now, mem, prunedAt, req, at, expiresAt, result, via, completed>>

\* create: the primary key is the lock; P2002 sends the loser to re-read.
Inserted(r) ==
  IF RowsOf(db, req[r].key) = {} THEN db \cup {Reservation(r, at[r])} ELSE db

Insert(r) ==
  /\ pc[r] = "insert"
  /\ db' = Inserted(r)
  /\ \/ /\ RowsOf(db, req[r].key) = {}
        /\ Goto(r, "holding")
        /\ via' = [via EXCEPT ![r] = "db"]
     \/ /\ RowsOf(db, req[r].key) # {}
        /\ Goto(r, "reread")
        /\ UNCHANGED via
  /\ UNCHANGED <<now, mem, prunedAt, req, at, expiresAt, result, completed>>

\* The row that won the race answers, whatever its age.  When it is gone, the
\* P2002 error is rethrown and caught by the process-local fallback.
Reread(r) ==
  LET rows == RowsOf(db, req[r].key)
  IN /\ pc[r] = "reread"
     /\ \/ /\ \E row \in rows : Answer(r, row)
           /\ UNCHANGED <<mem, via>>
        \/ /\ rows = {}
           /\ AcquireLocally(r, at[r], mem[req[r].inst])
     /\ UNCHANGED <<now, db, prunedAt, req, at, expiresAt, completed>>

\* Any database call of acquire fails, before or after it took effect.
AcquireFails(r) ==
  /\ DbFaults
  /\ pc[r] \in InCall
  /\ \/ UNCHANGED db
     \/ pc[r] = "reap" /\ db' = Reaped(r)
     \/ pc[r] = "insert" /\ db' = Inserted(r)
  /\ AcquireLocally(r, at[r], mem[req[r].inst])
  /\ UNCHANGED <<now, prunedAt, req, at, expiresAt, completed>>

----------------------------------------------------------------------------
(* completeIdempotency and releaseIdempotency *)

Complete(r, s) ==
  LET i == req[r].inst
      own == [key |-> req[r].key, hash |-> req[r].hash, status |-> s,
              expires |-> now + ResultTtl]
  IN /\ pc[r] = "holding"
     /\ result' = [result EXCEPT ![r] = s]
     /\ expiresAt' = [expiresAt EXCEPT ![r] = now + ResultTtl]
     /\ completed' = completed \cup {<<req[r].key, req[r].hash, s>>}
     /\ \/ Persistent /\ Goto(r, "completing") /\ UNCHANGED mem
        \/ /\ ~Persistent
           /\ mem' = [mem EXCEPT ![i] = Put(@, own)]
           /\ Goto(r, "finished")
     /\ UNCHANGED <<now, db, prunedAt, req, at, via>>

\* updateMany answers: the key leaves the Map, however many rows it updated.
StoreResult(r) ==
  /\ pc[r] = "completing"
  /\ db' = Updated(r, db)
  /\ mem' = [mem EXCEPT ![req[r].inst] = {row \in @ : row.key # req[r].key}]
  /\ Goto(r, "finished")
  /\ UNCHANGED <<now, prunedAt, req, at, expiresAt, result, via, completed>>

StoreFails(r) ==
  /\ DbFaults
  /\ pc[r] = "completing"
  /\ db' \in {db, Updated(r, db)}
  /\ mem' = [mem EXCEPT ![req[r].inst] = Put(@, Outcome(r))]
  /\ Goto(r, "finished")
  /\ UNCHANGED <<now, prunedAt, req, at, expiresAt, result, via, completed>>

\* The Map's part of a release, run after the database's.
ReleaseLocally(r) ==
  /\ mem' = [mem EXCEPT ![req[r].inst] = {row \in @ : ~Releasable(r, row)}]
  /\ Goto(r, "released")

Release(r) ==
  /\ Releases
  /\ pc[r] = "holding"
  /\ \/ Persistent /\ Goto(r, "releasing") /\ UNCHANGED mem
     \/ ~Persistent /\ ReleaseLocally(r)
  /\ UNCHANGED <<now, db, prunedAt, req, at, expiresAt, result, via, completed>>

DeleteReservation(r) ==
  /\ pc[r] = "releasing"
  /\ \/ db' = {row \in db : ~Releasable(r, row)}
     \/ DbFaults /\ UNCHANGED db
  /\ ReleaseLocally(r)
  /\ UNCHANGED <<now, prunedAt, req, at, expiresAt, result, via, completed>>

----------------------------------------------------------------------------
\* cleanupOperationalData, the daily job that deletes expired rows.
Sweep ==
  /\ Persistent
  /\ \E row \in db : row.expires < now
  /\ db' = {row \in db : row.expires >= now}
  /\ UNCHANGED <<now, mem, prunedAt, req, pc, at, expiresAt, result, via,
                 completed>>

(* The environment: callers that never return, crashes, and time. *)

\* The caller fails after a point of no return and keeps the reservation.
Abandon(r) ==
  /\ pc[r] = "holding"
  /\ Goto(r, "abandoned")
  /\ UNCHANGED <<now, db, mem, prunedAt, req, at, expiresAt, result, via, completed>>

\* A process ends, with its Map and its requests.
Crash(i) ==
  LET lost == {r \in Requests : req[r].inst = i /\ pc[r] \in Working}
  IN /\ Crashes
     /\ lost # {} \/ mem[i] # {}
     /\ mem' = [mem EXCEPT ![i] = {}]
     /\ prunedAt' = [prunedAt EXCEPT ![i] = -PruneGap]
     /\ pc' = [r \in Requests |-> IF r \in lost THEN "crashed" ELSE pc[r]]
     /\ UNCHANGED <<now, db, req, at, expiresAt, result, via, completed>>

\* An updateMany is answered, or fails, while the result it carries has more
\* than a reservation's life ahead of it (defaults: a day against a minute).
StoredInTime(t) ==
  \A r \in Requests : pc[r] = "completing" => t + LockTtl <= expiresAt[r]

Tick ==
  /\ now < MaxTime
  /\ StoredInTime(now + 1)
  /\ Prompt => \A r \in Requests : pc[r] \in Working => now + 1 < at[r] + LockTtl
  /\ now' = now + 1
  /\ UNCHANGED <<db, mem, prunedAt, req, pc, at, expiresAt, result, via, completed>>

\* The steps of the store's own code on behalf of r, its callers aside.
StoreStep(r) ==
  \/ Find(r) \/ Reap(r) \/ Insert(r) \/ Reread(r) \/ AcquireFails(r)
  \/ StoreResult(r) \/ StoreFails(r) \/ DeleteReservation(r)

Next ==
  \/ \E r \in Requests :
       \/ Start(r)
       \/ StoreStep(r)
       \/ \E s \in Results : Complete(r, s)
       \/ Release(r)
       \/ Abandon(r)
  \/ \E i \in Instances : Crash(i)
  \/ Sweep
  \/ Tick

Spec == Init /\ [][Next]_vars

----------------------------------------------------------------------------
(* Properties *)

LockLive(r) == now < at[r] + LockTtl
SameKey(r, s) == req[r].key = req[s].key

\* A replayed response is one that a request with the same key and the same
\* body stored: neither a reused key nor a late completion onto another
\* request's row (updateMany looks at key and hash only) can hand a caller the
\* result of a different payload.  Holds with database failures and crashes.
ReplayTruth ==
  \A r \in Requests :
    pc[r] = "replayed" => <<req[r].key, req[r].hash, result[r]>> \in completed

\* Two requests that hold one key while both reservations are still to expire.
BothHold(r, s) ==
  /\ r # s /\ SameKey(r, s)
  /\ pc[r] = "holding" /\ pc[s] = "holding"
  /\ LockLive(r) /\ LockLive(s)

\* The reservation is a lock (idempotency.ts:66-73): no two requests hold one
\* key at a time.  So it is in one process without a database, whose Map is
\* reserved synchronously, while requests end before their reservations do; not
\* with a database, where the step Reread may fall back to the Map.
Exclusive == \A r, s \in Requests : ~BothHold(r, s)

\* "Database-backed mode uses the primary-key constraint as the lock"
\* (idempotency.ts:70): of the requests that hold one key, the table reserved
\* it for at most one, however slow they are and whatever database calls fail
\* or processes crash, as long as no caller releases a reservation.
DbExclusive ==
  \A r, s \in Requests : via[r] = "db" /\ via[s] = "db" => ~BothHold(r, s)

\* The step that gives r the reservation of its key.
Reserves(r) == pc[r] # "holding" /\ pc'[r] = "holding"

\* What was completed is not done again (idempotency.ts:123-125 and 166): no
\* request is given the reservation of a key while a result that another
\* request stored for it is still to expire.
NoReexecution ==
  [][\A r, s \in Requests :
       Reserves(r) /\ SameKey(r, s) /\ pc[s] = "finished"
         => expiresAt[s] <= now]_vars

\* A reservation outlives whatever becomes of its holder: while the one that the
\* table gave r is to expire, and r has not given it back, the table has a row
\* for r's key that no other request can take for a free one, whether r still
\* works, has failed, or has died.  No caller releases a reservation here.
KeptUntilExpiry ==
  \A r \in Requests :
    via[r] = "db" /\ LockLive(r) /\ pc[r] \notin {"releasing", "released"}
      => Live(RowsOf(db, req[r].key), now) # {}
============================================================================
